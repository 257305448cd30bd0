--------------------------- MODULE HostWorkPromise ---------------------------
(* The third layer of the inductive invariant of HostWork: what the ledger   *)
(* in memory has beyond the ledger file, place by place.  From it: a work is *)
(* charged once per request, what is completed is done, and the ledger file  *)
(* implements WorkPromise.  And the fourth layer: as long as no person edits *)
(* a file, the revisions of a memory form one line.                          *)
EXTENDS HostWorkSafety, FiniteSetTheorems

-----------------------------------------------------------------------------
(* Charges and ends. *)

\* The submissions of w, among the calls s, that the ledger L retains.
Retained(L, s, w) ==
    {r \in Requests : s[r].tool = "submit" /\ s[r].work = w /\ L.request[r] # "none"}

Paid(L, s) ==
    \A w \in Works : /\ IsFiniteSet(Retained(L, s, w))
                     /\ L.work[w].used = Cardinality(Retained(L, s, w))

Unsent(L, s) == \A r \in Requests : s[r] = NoCall => L.request[r] = "none"

\* A charged call has its request in the ledger it works on.
Noted == call # Idle /\ Charged => live.request[call.req] # "none"

Finality(k) == k.status = "completed" => k.terminal /\ Done(k)

Final(L) == \A w \in Works : Finality(L.work[w])

\* Items change only in a work that is not completed.
Unfinished ==
    /\ call.at \in {"charge", "compile"} \cup ItemPlaces => live.work[Work].status # "completed"
    /\ call.at = "select" /\ call.todo # {} => live.work[Work].status # "completed"

Counted(L, s) == Paid(L, s) /\ Unsent(L, s)

Booked == Counted(disk, sent) /\ Counted(live, sent) /\ Noted

Ended == Final(disk) /\ Final(live)

-----------------------------------------------------------------------------
(* The work n in memory against the work k on file. *)

Out(it) == IF it.st \in Unsure THEN "frozen" ELSE IF it.st \in Settled THEN it.st ELSE "open"

SameItem(a, b) == b.sub = a.sub /\ Out(b) = Out(a)

SameAs(k, n) == n.used = k.used /\ \A i \in Items : SameItem(k.items[i], n.items[i])

ChargedTo(k, n) ==
    /\ k.used < Limit /\ n.used = k.used + 1 /\ Unsettled(k) = {}
    /\ \A i \in Items : SameItem(k.items[i], n.items[i])

\* The submission charged last has decided nothing yet.
Undecided(k) ==
    k.used > 0 /\ Unsettled(k) = {} /\ \A i \in Items : k.items[i].sub < k.used

Decided(k, a, b) ==
    Out(a) = "open" /\ b.sub = k.used /\ Out(b) \in {"open", "frozen", "unchanged"}

DecidedTo(k, n) ==
    /\ n.used = k.used /\ Undecided(k)
    /\ \A i \in Items : SameItem(k.items[i], n.items[i]) \/ Decided(k, k.items[i], n.items[i])

GivenUp(a, b) == b.sub = a.sub /\ Out(a) \in {"open", "frozen"} /\ Out(b) = "cancelled"

ClosedTo(k, n) ==
    /\ n.used = k.used
    /\ \A i \in Items : SameItem(k.items[i], n.items[i]) \/ GivenUp(k.items[i], n.items[i])

\* The same but for the item in hand.
ElsewhereSame(k, n) ==
    /\ n.used = k.used
    /\ \A i \in Items \ {call.item} : SameItem(k.items[i], n.items[i])

Pending ==
    LET k == disk.work[Work]
        n == live.work[Work]
    IN  /\ call.at = "charge" => ChargedTo(k, n)
        /\ call.at = "compile" => live = disk /\ Undecided(n)
        /\ call.at = "publish" => DecidedTo(k, n)
        /\ call.at = "fail" => SameAs(k, n) \/ ChargedTo(k, n) \/ DecidedTo(k, n)
        /\ call.at \in (ExecPlaces \cup {"finish"}) \ {"block"} => SameAs(k, n)
        /\ call.at = "block" => ElsewhereSame(k, n)
        /\ call.at = "answer" => ClosedTo(k, n)

\* A call changes one work.
OneWork == call # Idle => \A w \in Works \ {Work} : live.work[w] = disk.work[w]

\* What is in hand, or still to be taken up, is open on file.
Undone == {i \in Items : disk.work[Work].items[i].st \in Unsure}

HandOpen ==
    /\ call.at \in ExecPlaces => call.todo \subseteq Undone
    /\ call.at \in ItemPlaces => call.item \in Undone \ call.todo

\* No item bears the number of a submission to come; what was refused has no group.
WorkBounded(k) ==
    \A i \in Items : /\ k.items[i].sub <= k.used
                     /\ k.items[i].st = "invalid" => k.items[i].group = << >>

Bounded(L) == \A w \in Works : WorkBounded(L.work[w])

Limits == Bounded(disk) /\ Bounded(live)

Position == Unfinished /\ Pending /\ HandOpen

Rest == Booked /\ Ended /\ Limits /\ OneWork /\ Position

Held == Safe /\ Rest

\* What a step does to the work k on file, if it does anything.
SettledTo(k, n) ==
    /\ n.used = k.used
    /\ \E i \in Items :
          /\ k.items[i].st \in Unsure /\ n.items[i].st = "saved" /\ n.items[i].sub = k.items[i].sub
          /\ \A j \in Items \ {i} : SameItem(k.items[j], n.items[j])

Related(k, n) == SameAs(k, n) \/ ChargedTo(k, n) \/ DecidedTo(k, n) \/ ClosedTo(k, n) \/ SettledTo(k, n)

Advance ==
    \/ disk' = disk
    \/ /\ Work \in Works
       /\ \A w \in Works \ {Work} : disk'.work[w] = disk.work[w]
       /\ Related(disk.work[Work], disk'.work[Work])

-----------------------------------------------------------------------------
(* What every step of a call in flight does to the ledgers. *)

\* The ledger L is the one in memory but for the work and the request in hand.
Carried(L) ==
    /\ \A w \in Works \ {Work} : L.work[w] = live.work[w]
    /\ L.work[Work].used = live.work[Work].used
    /\ L.request = live.request \/ L.request = [live.request EXCEPT ![call.req] = "answered"]

Kind(L) ==
    /\ disk' \in {disk, L} /\ live' \in {disk', L}
    /\ call' # Idle => call'.req = call.req /\ live' = L

LEMMA SaveKind ==
    ASSUME NEW L, NEW good, NEW bad, Save(L, good, bad),
           \A c \in {good, bad} : c # Idle => c.req = call.req
    PROVE  Kind(L)
BY DEF Save, Kind

\* An answer to a request the ledger retains, or to one that is not charged,
\* leaves the count as it is.
LEMMA CarriedCounted ==
    ASSUME Typed, Counted(live, sent), Noted, call # Idle, NEW L, Carried(L), NEW s, s = sent
    PROVE  /\ Counted(L, s)
           /\ Charged => L.request[call.req] # "none"
<1>1. call.req \in Requests /\ sent[call.req] # NoCall
  BY InFlight DEF Typed, Placed, CallSent
<1>2. live.request \in [Requests -> {"none", "open", "answered"}]
  BY DEF Typed, TypeOK, LedgerType
<1>3. ASSUME NEW r \in Requests
      PROVE  /\ r # call.req => L.request[r] = live.request[r]
             /\ sent[r].tool = "submit" =>
                    (L.request[r] # "none" <=> live.request[r] # "none")
  BY <1>1, <1>2 DEF Carried, Noted, Charged, Tool
<1>4. ASSUME NEW w \in Works
      PROVE  Retained(L, s, w) = Retained(live, sent, w) /\ L.work[w].used = live.work[w].used
  BY <1>3 DEF Retained, Carried
<1>5. Paid(L, s)
  BY <1>4 DEF Counted, Paid
<1>6. Unsent(L, s)
  BY <1>1, <1>3 DEF Counted, Unsent
<1>7. Charged => L.request[call.req] # "none"
  BY <1>1, <1>2 DEF Carried, Noted
<1>8. QED
  BY <1>5, <1>6, <1>7 DEF Counted

\* A step of a call in flight.
LEMMA CarriedBooked ==
    ASSUME Typed, Booked, call # Idle, NEW L, Carried(L), Kind(L), UNCHANGED sent
    PROVE  Booked'
<1>1. /\ Counted(L, sent') /\ (Charged => L.request[call.req] # "none")
      /\ Counted(disk, sent')
  BY CarriedCounted DEF Booked
<1>2. Counted(disk', sent') /\ Counted(live', sent')
  BY <1>1 DEF Kind
<1>3. Noted'
  BY <1>1 DEF Kind, Noted, Charged, Tool
<1>4. QED
  BY <1>2, <1>3 DEF Booked

LEMMA SendBooked ==
    ASSUME Typed, Booked, NEW r \in Requests, NEW t \in Tools, NEW w \in Works, Send(r, t, w)
    PROVE  Booked'
<1> DEFINE c == [tool |-> t, work |-> w, rev |-> disk.work[w].rev,
                 sub |-> disk.work[w].latest + 1]
<1>1. /\ sent' = [sent EXCEPT ![r] = c] /\ sent[r] = NoCall /\ call' = Idle
      /\ UNCHANGED << disk, live >>
  BY DEF Send
<1>2. sent \in [Requests -> CallType]
  BY DEF Typed, TypeOK
<1> HIDE DEF c
<1>3. ASSUME NEW L, Counted(L, sent)
      PROVE  Counted(L, sent')
  <2>1. L.request[r] = "none"
    BY <1>1, <1>3 DEF Counted, Unsent
  <2>2. \A x \in Works : Retained(L, sent', x) = Retained(L, sent, x)
    BY <1>1, <1>2, <2>1 DEF Retained
  <2>3. Unsent(L, sent')
    BY <1>1, <1>2, <1>3, <2>1 DEF Counted, Unsent
  <2>4. QED
    BY <1>3, <2>2, <2>3 DEF Counted, Paid
<1>4. Noted'
  BY <1>1 DEF Noted
<1>5. QED
  BY <1>1, <1>3, <1>4 DEF Booked

\* A call accepted with its request in the ledger in memory: one more charge
\* when it is a submission, none otherwise.
LEMMA AcceptBooked ==
    ASSUME Typed, Booked, NEW r \in Requests, NEW tool \in Tools, Accepted(r, tool),
           NEW k, NEW answer, answer # "none", NEW place,
           k.used = disk.work[sent[r].work].used + (IF tool = "submit" THEN 1 ELSE 0),
           live' = Put(disk, sent[r].work, k, r, answer), call' = Enter(r, place),
           UNCHANGED << disk, sent >>
    PROVE  Booked'
<1> DEFINE x == sent[r].work
           L == Put(disk, x, k, r, answer)
<1>1. sent[r].tool = tool /\ disk.request[r] = "none" /\ x \in Works /\ sent[r] # NoCall
  BY AcceptedType DEF Accepted
<1>2. /\ L.request[r] = answer
      /\ \A q \in Requests \ {r} : L.request[q] = disk.request[q]
      /\ L.work[x] = k /\ \A w \in Works \ {x} : L.work[w] = disk.work[w]
  BY <1>1 DEF Put, Typed, TypeOK, LedgerType
<1> HIDE DEF L
<1>3. ASSUME NEW w \in Works, ~(w = x /\ tool = "submit")
      PROVE  Retained(L, sent, w) = Retained(disk, sent, w)
  BY <1>1, <1>2, <1>3 DEF Retained
<1>4. ASSUME tool = "submit" PROVE Paid(L, sent)
  <2>1. Retained(L, sent, x) = Retained(disk, sent, x) \cup {r} /\ r \notin Retained(disk, sent, x)
    BY <1>1, <1>2, <1>4 DEF Retained
  <2>2. /\ IsFiniteSet(Retained(disk, sent, x))
        /\ disk.work[x].used = Cardinality(Retained(disk, sent, x))
    BY <1>1 DEF Booked, Counted, Paid
  <2>3. /\ IsFiniteSet(Retained(L, sent, x))
        /\ Cardinality(Retained(L, sent, x)) = Cardinality(Retained(disk, sent, x)) + 1
    BY <2>1, <2>2, FS_AddElement
  <2>4. L.work[x].used = Cardinality(Retained(L, sent, x))
    BY <1>2, <1>4, <2>2, <2>3
  <2>5. \A w \in Works \ {x} : /\ IsFiniteSet(Retained(L, sent, w))
                              /\ L.work[w].used = Cardinality(Retained(L, sent, w))
    BY <1>2, <1>3 DEF Booked, Counted, Paid
  <2>6. QED
    BY <2>3, <2>4, <2>5 DEF Paid
<1>5. ASSUME tool # "submit" PROVE Paid(L, sent)
  <2>1. \A w \in Works : Retained(L, sent, w) = Retained(disk, sent, w)
    BY <1>3, <1>5
  <2>2. disk.work[x].used \in Nat
    BY <1>1 DEF Typed, TypeOK, LedgerType, WorkType
  <2>3. \A w \in Works : L.work[w].used = disk.work[w].used
    BY <1>2, <1>5, <2>2
  <2>4. QED
    BY <2>1, <2>3 DEF Booked, Counted, Paid
<1>6. Paid(L, sent)
  BY <1>4, <1>5
<1>7. Unsent(L, sent)
  BY <1>1, <1>2 DEF Booked, Counted, Unsent
<1>8. Noted'
  BY <1>1, <1>2 DEF Noted, Enter, L
<1>9. QED
  BY <1>6, <1>7, <1>8 DEF Booked, Counted, L
LEMMA HeldInit == Init => Rest
<1> SUFFICES ASSUME Init PROVE Rest
  OBVIOUS
<1>1. /\ call = Idle /\ live = disk /\ \A r \in Requests : sent[r] = NoCall /\ disk.request[r] = "none"
      /\ \A w \in Works : disk.work[w] = NoWork
  BY DEF Init
<1>2. \A w : Retained(disk, sent, w) = {}
  BY <1>1 DEF Retained
<1>3. Booked
  BY <1>1, <1>2, FS_EmptySet DEF Booked, Counted, Paid, Unsent, Noted, NoWork
<1>4. Ended /\ Limits
  BY <1>1 DEF Ended, Final, Finality, Limits, Bounded, WorkBounded, NoWork, NoItem
<1>5. OneWork /\ Position
  BY <1>1 DEF OneWork, Position, Unfinished, Pending, HandOpen, Idle, ItemPlaces, ExecPlaces
<1>6. QED
  BY <1>3, <1>4, <1>5 DEF Rest

\* A step that leaves the work in hand final if it was, and within its bounds.
LEMMA Frame ==
    ASSUME Typed, Rest, call # Idle, NEW L, Carried(L), Kind(L), UNCHANGED sent,
           Finality(L.work[Work]), WorkBounded(L.work[Work])
    PROVE  Booked' /\ Ended' /\ Limits' /\ OneWork'
<1>1. Booked'
  BY CarriedBooked DEF Rest
<1>2. Final(L) /\ Bounded(L)
  BY DEF Rest, Ended, Limits, Final, Bounded, Carried
<1>3. disk' \in {disk, L} /\ live' \in {disk', L}
  BY DEF Kind
<1>4. Ended' /\ Limits'
  BY <1>2, <1>3 DEF Rest, Ended, Limits
<1>5. OneWork'
  BY <1>3 DEF Rest, OneWork, Kind, Carried, Work
<1>6. QED
  BY <1>1, <1>4, <1>5

LEMMA LiveFrame ==
    ASSUME Typed, Rest, call # Idle
    PROVE  /\ Carried(live) /\ Finality(live.work[Work]) /\ WorkBounded(live.work[Work])
           /\ Work \in Works /\ live.work[Work] \in WorkType /\ disk.work[Work] \in WorkType
           /\ call.req \in Requests
BY InFlight DEF Rest, Ended, Limits, Final, Bounded, Carried, Typed, TypeOK, LedgerType

\* Neither ledger changes.
LEMMA StillFrame ==
    ASSUME Typed, Rest, call # Idle, UNCHANGED << disk, live, sent >>,
           call' # Idle => call'.req = call.req
    PROVE  Booked' /\ Ended' /\ Limits' /\ OneWork'
<1>1. Kind(live) \/ call' = Idle
  BY DEF Kind
<1>2. CASE Kind(live)
  BY <1>2, Frame, LiveFrame
<1>3. CASE call' = Idle
  BY <1>3 DEF Rest, Booked, Noted, Ended, Limits, OneWork
<1>4. QED
  BY <1>1, <1>2, <1>3

\* Places where nothing is claimed.
LEMMA FreePosition ==
    ASSUME call' = Idle \/ call'.at \in {"verify", "reply"}
    PROVE  Position'
BY DEF Position, Unfinished, Pending, HandOpen, Idle, ItemPlaces, ExecPlaces

LEMMA FailPosition ==
    ASSUME Typed, call # Idle, NEW kind \in {"none", "io", "validation"}, call' = Raise(kind),
           UNCHANGED sent, NEW k, NEW n, k = disk'.work[Work], n = live'.work[Work],
           SameAs(k, n) \/ ChargedTo(k, n) \/ DecidedTo(k, n)
    PROVE  Position'
<1>1. CASE call' = Idle
  BY <1>1, FreePosition
<1>2. CASE call' # Idle
  <2>1. call'.at = "fail" /\ call'.req = call.req
    BY <1>2, RaiseFields
  <2>2. Work' = Work
    BY <2>1 DEF Work
  <2>3. Pending'
    BY <2>1, <2>2 DEF Pending, ExecPlaces, ItemPlaces
  <2>4. QED
    BY <2>1, <2>3 DEF Position, Unfinished, HandOpen, ExecPlaces, ItemPlaces
<1>3. QED
  BY <1>1, <1>2

LEMMA SameReflexive ==
    ASSUME NEW k
    PROVE  SameAs(k, k) /\ ClosedTo(k, k)
BY DEF SameAs, ClosedTo, SameItem
-----------------------------------------------------------------------------
(* Calls that are accepted. *)

LEMMA AcceptFrame ==
    ASSUME Typed, Rest, NEW r \in Requests, NEW tool \in Tools, Accepted(r, tool),
           NEW k, NEW answer, answer # "none", NEW place,
           k.used = disk.work[sent[r].work].used + (IF tool = "submit" THEN 1 ELSE 0),
           Finality(k), WorkBounded(k),
           live' = Put(disk, sent[r].work, k, r, answer), call' = Enter(r, place),
           UNCHANGED << disk, sent >>
    PROVE  /\ Booked' /\ Ended' /\ Limits' /\ OneWork'
           /\ Work' = sent[r].work /\ live'.work[Work'] = k /\ disk'.work[Work'] = disk.work[sent[r].work]
           /\ call'.at = place
<1> DEFINE x == sent[r].work
           L == Put(disk, x, k, r, answer)
<1>1. Booked'
  BY AcceptBooked DEF Rest
<1>2. x \in Works /\ disk \in LedgerType
  BY AcceptedType
<1>3. L.work[x] = k /\ \A w \in Works \ {x} : L.work[w] = disk.work[w]
  BY <1>2 DEF Put, LedgerType
<1>4. call'.req = r /\ call'.at = place /\ Work' = x
  BY DEF Enter, Work
<1>5. live' = L
  OBVIOUS
<1> HIDE DEF L, x
<1>6. Final(L) /\ Bounded(L)
  BY <1>3 DEF Rest, Ended, Limits, Final, Bounded
<1>7. Ended' /\ Limits'
  BY <1>5, <1>6 DEF Rest, Ended, Limits
<1>8. OneWork'
  BY <1>3, <1>4, <1>5 DEF OneWork
<1>9. QED
  BY <1>1, <1>3, <1>4, <1>5, <1>7, <1>8 DEF x

\* A call whose ledger is saved with its answer.
LEMMA AnswerPosition ==
    ASSUME call'.at = "answer", ClosedTo(disk.work[Work], live.work[Work])'
    PROVE  Position'
BY DEF Position, Unfinished, Pending, HandOpen, ExecPlaces, ItemPlaces

LEMMA PrepareRest ==
    ASSUME Held, NEW r \in Requests, PrepareNew(r) \/ PrepareRefresh(r)
    PROVE  Rest' /\ Advance
<1> DEFINE x == sent[r].work
           old == disk.work[x]
<1>1. PICK tool \in {"prepare", "refresh"} : Accepted(r, tool)
  BY DEF PrepareNew, PrepareRefresh
<1>2. old \in WorkType /\ x \in Works /\ tool \in Tools /\ tool # "submit"
  BY <1>1, AcceptedType DEF Held, Safe, Tools
<1>3. Finality(old) /\ WorkBounded(old)
  BY <1>2 DEF Held, Rest, Ended, Final, Limits, Bounded
<1>4. PICK k : /\ live' = Put(disk, x, k, r, "answered")
               /\ k.used = old.used /\ k.items = old.items
               /\ k.status = "completed" => k.status = old.status /\ k.terminal = old.terminal
  <2> DEFINE snap == Snapshot(disk)
  <2>1. CASE PrepareNew(r)
    <3> DEFINE n == [NoWork EXCEPT !.status = "pending", !.rev = 1, !.snap = snap]
    <3>1. live' = Put(disk, x, n, r, "answered") /\ old = NoWork
      BY <2>1 DEF PrepareNew
    <3>2. n.used = NoWork.used /\ n.items = NoWork.items /\ n.status = "pending"
      BY DEF NoWork
    <3> HIDE DEF n
    <3>3. QED
      BY <3>1, <3>2
  <2>2. CASE PrepareRefresh(r)
    <3> DEFINE v == old.rev + 1
               n == [old EXCEPT !.rev = v, !.snap = snap]
    <3>1. live' = Put(disk, x, n, r, "answered")
      BY <2>2 DEF PrepareRefresh
    <3>2. n.used = old.used /\ n.items = old.items /\ n.status = old.status /\ n.terminal = old.terminal
      BY <1>2 DEF WorkType
    <3> HIDE DEF n
    <3>3. QED
      BY <3>1, <3>2
  <2>3. QED
    BY <2>1, <2>2
<1>5. Finality(k) /\ WorkBounded(k) /\ ClosedTo(old, k)
  BY <1>3, <1>4 DEF Finality, WorkBounded, Done, ClosedTo, SameItem
<1>6. call' = Enter(r, "answer") /\ UNCHANGED << disk, sent >>
  BY DEF PrepareNew, PrepareRefresh
<1>7. k.used = old.used + (IF tool = "submit" THEN 1 ELSE 0)
  BY <1>2, <1>4 DEF WorkType
<1> HIDE DEF x, old
<1>8. /\ Booked' /\ Ended' /\ Limits' /\ OneWork'
      /\ Work' = x /\ live'.work[Work'] = k /\ disk'.work[Work'] = old /\ call'.at = "answer"
  BY <1>1, <1>2, <1>4, <1>5, <1>6, <1>7, AcceptFrame DEF Held, Safe, x, old
<1>9. Position'
  BY <1>5, <1>8, AnswerPosition
<1>10. QED
  BY <1>6, <1>8, <1>9 DEF Rest, Advance

\* Cancelling gives up items, and takes no decision back.
LEMMA CancelCloses ==
    ASSUME NEW w, NEW k \in WorkType, WorkBounded(k)
    PROVE  /\ CancelWork(w, k).used = k.used
           /\ Finality(CancelWork(w, k)) /\ WorkBounded(CancelWork(w, k))
           /\ ClosedTo(k, CancelWork(w, k))
<1> DEFINE n == CancelWork(w, k)
<1>1. n.items = CancelledItems(w, k) /\ n.used = k.used
  BY DEF CancelWork, WorkType
<1>2. n.status # "completed"
  BY DEF CancelWork, WorkType
<1> HIDE DEF n
<1>3. ASSUME NEW i \in Items
      PROVE  /\ n.items[i].sub = k.items[i].sub
             /\ n.items[i].st # "invalid"
             /\ SameItem(k.items[i], n.items[i]) \/ GivenUp(k.items[i], n.items[i])
  <2>1. k.items[i] \in ItemType
    BY DEF WorkType
  <2>2. n.items[i] = CancelItem(w, i, k.items[i])
    BY <1>1 DEF CancelledItems
  <2>3. CASE k.items[i].st \in Settled \cup {"none"}
    BY <2>2, <2>3 DEF CancelItem, SameItem, Settled
  <2>4. CASE k.items[i].st = "invalid"
    <3>1. Range(k.items[i].group) = {}
      BY <2>4 DEF WorkBounded, Range
    <3>2. n.items[i] = [k.items[i] EXCEPT !.st = "cancelled", !.applied = "no", !.marked = {}]
      BY <2>2, <2>4, <3>1 DEF CancelItem, Settled
    <3>3. QED
      BY <2>1, <2>4, <3>2 DEF ItemType, GivenUp, Out, Settled, Unsure
  <2>5. CASE k.items[i].st \in Unsure
    <3>1. n.items[i].sub = k.items[i].sub /\ n.items[i].st \in {"recovery_required", "cancelled"}
      BY <2>1, <2>2, <2>5 DEF CancelItem, ItemType, Settled, Unsure
    <3>2. QED
      BY <2>5, <3>1 DEF GivenUp, SameItem, Out, Settled, Unsure
  <2>6. QED
    BY <2>1, <2>3, <2>4, <2>5 DEF ItemType, Outcomes
<1>4. Finality(n) /\ WorkBounded(n) /\ ClosedTo(k, n)
  BY <1>1, <1>2, <1>3 DEF Finality, WorkBounded, ClosedTo
<1>5. QED
  BY <1>1, <1>4 DEF n

LEMMA CancelRest ==
    ASSUME Held, NEW r \in Requests, Cancel(r)
    PROVE  Rest' /\ Advance
<1> DEFINE x == sent[r].work
           old == disk.work[x]
           k == CancelWork(x, old)
<1>1. Accepted(r, "cancel") /\ "cancel" \in Tools /\ "cancel" # "submit"
  BY DEF Cancel, Tools
<1>2. old \in WorkType /\ x \in Works
  BY <1>1, AcceptedType DEF Held, Safe
<1>3. k.used = old.used /\ Finality(k) /\ WorkBounded(k) /\ ClosedTo(old, k)
  BY <1>2, CancelCloses DEF Held, Rest, Limits, Bounded
<1>4. /\ live' = Put(disk, x, k, r, "answered") /\ call' = Enter(r, "answer")
      /\ UNCHANGED << disk, sent >>
  BY DEF Cancel
<1> HIDE DEF k
<1>5. k.used = old.used + (IF "cancel" = "submit" THEN 1 ELSE 0)
  BY <1>2, <1>3 DEF WorkType
<1> HIDE DEF x, old
<1>6. /\ Booked' /\ Ended' /\ Limits' /\ OneWork'
      /\ Work' = x /\ live'.work[Work'] = k /\ disk'.work[Work'] = old /\ call'.at = "answer"
  BY <1>1, <1>2, <1>3, <1>4, <1>5, AcceptFrame DEF Held, Safe, x, old
<1>7. Position'
  BY <1>3, <1>6, AnswerPosition
<1>8. QED
  BY <1>4, <1>6, <1>7 DEF Rest, Advance

LEMMA BeginSubmitRest ==
    ASSUME Held, NEW r \in Requests, BeginSubmit(r)
    PROVE  Rest' /\ Advance
<1> DEFINE x == sent[r].work
           old == disk.work[x]
           u == old.used + 1
           v == old.rev + 1
           k == [old EXCEPT !.used = u, !.latest = sent[r].sub, !.rev = v, !.status = "submitted"]
<1>1. /\ Accepted(r, "submit") /\ "submit" \in Tools /\ old.used < Limit /\ ~RecoveryRequired(old)
      /\ live' = Put(disk, x, k, r, "open") /\ call' = Enter(r, "charge")
      /\ UNCHANGED << disk, sent >>
  BY DEF BeginSubmit, Tools, Affordable
<1>2. old \in WorkType /\ x \in Works
  BY <1>1, AcceptedType DEF Held, Safe
<1>3. k.used = u /\ k.items = old.items /\ k.status = "submitted"
  BY <1>2 DEF WorkType
<1>4. old.used \in Nat /\ u = old.used + 1 /\ \A i \in Items : old.items[i].sub \in Nat
  BY <1>2 DEF WorkType, ItemType
<1>5. WorkBounded(old)
  BY <1>2 DEF Held, Rest, Limits, Bounded
<1> HIDE DEF k, u, v
<1>6. Finality(k) /\ WorkBounded(k)
  <2>1. \A i \in Items : k.items[i] = old.items[i] /\ old.items[i].sub <= k.used
    BY <1>3, <1>4, <1>5 DEF WorkBounded
  <2>2. WorkBounded(k)
    BY <1>5, <2>1 DEF WorkBounded
  <2>3. QED
    BY <1>3, <2>2 DEF Finality
<1>7. ChargedTo(old, k)
  BY <1>1, <1>3, <1>4 DEF ChargedTo, SameItem, RecoveryRequired
<1>8. k.used = old.used + (IF "submit" = "submit" THEN 1 ELSE 0)
  BY <1>3, <1>4
<1> HIDE DEF x, old
<1>9. /\ Booked' /\ Ended' /\ Limits' /\ OneWork'
      /\ Work' = x /\ live'.work[Work'] = k /\ disk'.work[Work'] = old /\ call'.at = "charge"
  BY <1>1, <1>2, <1>6, <1>8, AcceptFrame DEF Held, Safe, x, old
<1>10. Position'
  BY <1>3, <1>7, <1>9 DEF Position, Unfinished, Pending, HandOpen, ExecPlaces, ItemPlaces
<1>11. QED
  BY <1>1, <1>9, <1>10 DEF Rest, Advance

LEMMA BeginResumeRest ==
    ASSUME Held, NEW r \in Requests, BeginResume(r)
    PROVE  Rest' /\ Advance
<1>1. /\ call = Idle /\ sent[r].tool = "resume" /\ call' = Enter(r, "verify")
      /\ UNCHANGED << disk, live, sent >>
  BY DEF BeginResume, Accepted
<1>2. live = disk
  BY <1>1 DEF Held, Safe, Typed, Placed, IdleInStep
<1>3. call'.at = "verify" /\ call'.req = r
  BY <1>1 DEF Enter
<1>4. Noted'
  BY <1>1, <1>3 DEF Noted, Charged, Tool
<1>5. Booked' /\ Ended' /\ Limits' /\ OneWork'
  BY <1>1, <1>2, <1>4 DEF Held, Rest, Booked, Ended, Limits, OneWork
<1>6. QED
  BY <1>1, <1>3, <1>5, FreePosition DEF Rest, Advance

LEMMA SendRest ==
    ASSUME Held, NEW r \in Requests, NEW t \in Tools, NEW w \in Works, Send(r, t, w)
    PROVE  Rest' /\ Advance
<1>1. call' = Idle /\ UNCHANGED << disk, live >>
  BY DEF Send
<1>2. Booked' /\ Ended' /\ Limits' /\ OneWork'
  BY <1>1, SendBooked DEF Held, Safe, Rest, Ended, Limits, OneWork
<1>3. QED
  BY <1>1, <1>2, FreePosition DEF Rest, Advance

LEMMA CrashRest ==
    ASSUME Held, Crash
    PROVE  Rest' /\ Advance
<1>1. call' = Idle /\ disk' = disk /\ live' = disk /\ sent' = sent
  BY DEF Crash
<1>2. Booked' /\ Ended' /\ Limits' /\ OneWork'
  BY <1>1 DEF Held, Rest, Booked, Noted, Ended, Limits, OneWork
<1>3. QED
  BY <1>1, <1>2, FreePosition DEF Rest, Advance

LEMMA ExternalEditRest ==
    ASSUME Held, NEW m \in Mems, NEW v \in ExtRevs \cup {Absent}, ExternalEdit(m, v)
    PROVE  Rest' /\ Advance
<1>1. UNCHANGED << disk, live, sent >>
  BY DEF ExternalEdit
<1>2. call' = call \/ (call # Idle /\ call' = [call EXCEPT !.stale = TRUE])
  BY DEF ExternalEdit, Idle
<1>3. /\ call' = Idle <=> call = Idle
      /\ call'.at = call.at
      /\ call # Idle => /\ call'.req = call.req /\ call'.item = call.item
                        /\ call'.todo = call.todo
  <2>1. CASE call' = call
    BY <2>1
  <2>2. CASE call # Idle /\ call' = [call EXCEPT !.stale = TRUE]
    <3>1. call \in StepType \ {Idle}
      BY <2>2 DEF Held, Safe, Typed, TypeOK
    <3>2. QED
      BY <2>2, <3>1 DEF StepType, Idle
  <2>3. QED
    BY <1>2, <2>1, <2>2
<1>4. CASE call = Idle
  BY <1>1, <1>3, <1>4, FreePosition DEF Held, Rest, Booked, Noted, Ended, Limits, OneWork, Advance
<1>5. CASE call # Idle
  <2>1. Work' = Work
    BY <1>1, <1>3, <1>5 DEF Work
  <2>2. Position'
    BY <1>1, <1>3, <1>5, <2>1
       DEF Held, Rest, Position, Unfinished, Pending, HandOpen, Undone, ElsewhereSame
  <2>3. QED
    BY <1>1, <1>3, <1>5, <2>2, StillFrame DEF Held, Safe, Rest, Advance
<1>6. QED
  BY <1>4, <1>5
-----------------------------------------------------------------------------
(* A submission is charged, compiled and published. *)

LEMMA SaveChargeRest ==
    ASSUME Held, SaveCharge
    PROVE  Rest' /\ Advance
<1> DEFINE k == disk.work[Work]
           n == live.work[Work]
<1>1. call # Idle /\ call.at = "charge" /\ UNCHANGED sent
  BY DEF SaveCharge, Idle
<1>2. Save(live, Goto("compile"), Raise("io"))
  BY DEF SaveCharge
<1>3. /\ Goto("compile").at = "compile" /\ Goto("compile").req = call.req
      /\ Raise("io") # Idle => Raise("io").req = call.req
  BY <1>1, GotoFields, RaiseFields DEF Held, Safe, Places
<1>4. Carried(live) /\ Finality(n) /\ WorkBounded(n) /\ Work \in Works
      /\ n \in WorkType /\ k \in WorkType
  BY <1>1, LiveFrame DEF Held, Safe
<1>5. Booked' /\ Ended' /\ Limits' /\ OneWork'
  BY <1>1, <1>2, <1>3, <1>4, SaveKind, Frame DEF Held, Safe
<1>6. ChargedTo(k, n) /\ WorkBounded(k) /\ n.status # "completed"
  BY <1>1, <1>4 DEF Held, Rest, Position, Pending, Unfinished, Limits, Bounded
<1>7. CASE call' = Goto("compile") /\ live' = live /\ disk' = live
  <2>1. call'.at = "compile" /\ Work' = Work
    BY <1>1, <1>3, <1>7 DEF Work
  <2>2. Undecided(n)
    <3>1. n.used = k.used + 1 /\ k.used \in Nat
      BY <1>4, <1>6 DEF ChargedTo, WorkType
    <3>2. ASSUME NEW i \in Items
          PROVE  n.items[i].sub < n.used /\ n.items[i].st \notin Unsure
      <4>1. k.items[i].sub \in Nat /\ k.items[i].sub <= k.used /\ k.items[i].st \notin Unsure
        BY <1>4, <1>6 DEF WorkType, ItemType, WorkBounded, ChargedTo, Unsettled
      <4>2. SameItem(k.items[i], n.items[i])
        BY <1>6 DEF ChargedTo
      <4>3. QED
        BY <3>1, <4>1, <4>2 DEF SameItem, Out, Settled
    <3>3. QED
      BY <3>1, <3>2 DEF Undecided, Unsettled
  <2>3. Pending'
    BY <1>7, <2>1, <2>2 DEF Pending, ExecPlaces, ItemPlaces
  <2>4. Position'
    BY <1>6, <1>7, <2>1, <2>3 DEF Position, Unfinished, HandOpen, ExecPlaces, ItemPlaces
  <2>5. Advance
    BY <1>1, <1>4, <1>6, <1>7 DEF Advance, Related, Held, Rest, OneWork
  <2>6. QED
    BY <1>5, <2>4, <2>5 DEF Rest
<1>8. CASE call' = Raise("io") /\ disk' = disk
  <2>1. CASE call' = Idle
    BY <1>5, <1>8, <2>1, FreePosition DEF Rest, Advance
  <2>2. CASE call' # Idle
    <3>1. live' = live
      BY <1>2, <1>8, <2>2 DEF Save
    <3>2. Position'
      BY <1>1, <1>6, <1>8, <3>1, FailPosition DEF Held, Safe
    <3>3. QED
      BY <1>5, <1>8, <3>2 DEF Rest, Advance
  <2>3. QED
    BY <2>1, <2>2
<1>9. QED
  BY <1>2, <1>7, <1>8 DEF Save

LEMMA CompileRefusesRest ==
    ASSUME Held, CompileRefuses
    PROVE  Rest' /\ Advance
<1>1. call # Idle /\ call.at = "compile" /\ call' = Raise("validation")
      /\ UNCHANGED << disk, live, sent >>
  BY DEF CompileRefuses, Idle
<1>2. live = disk
  BY <1>1 DEF Held, Rest, Position, Pending
<1>3. Position'
  BY <1>1, <1>2, SameReflexive, FailPosition DEF Held, Safe
<1>4. call' # Idle => call'.req = call.req
  BY <1>1, RaiseFields DEF Held, Safe
<1>5. QED
  BY <1>1, <1>3, <1>4, StillFrame DEF Held, Safe, Rest, Advance

\* The items a submission decides were open, and bear its number from then on.
LEMMA Decides ==
    ASSUME NEW k \in WorkType, WorkKept(k), WorkBounded(k), Undecided(k), NEW ids \in SUBSET Items,
           NEW plan \in [ids -> Decision], \A i \in ids : Open(k, i)
    PROVE  /\ DecidedTo(k, WithDecisions(k, plan)) /\ WorkBounded(WithDecisions(k, plan))
           /\ WithDecisions(k, plan).used = k.used /\ WithDecisions(k, plan).status = k.status
<1> DEFINE items == [i \in Items |-> IF i \in ids THEN Frozen(k, plan[i]) ELSE k.items[i]]
           n == WithDecisions(k, plan)
<1>1. n = [k EXCEPT !.items = items]
  BY DEF WithDecisions
<1>2. n.items = items /\ n.used = k.used /\ n.status = k.status /\ k.used \in Nat
  BY <1>1 DEF WorkType
<1> HIDE DEF n
<1>3. ASSUME NEW i \in Items
      PROVE  /\ SameItem(k.items[i], n.items[i]) \/ Decided(k, k.items[i], n.items[i])
             /\ n.items[i].sub <= k.used
             /\ n.items[i].st = "invalid" => n.items[i].group = << >>
  <2>1. CASE i \in ids
    <3>1. plan[i] \in Decision /\ n.items[i] = Frozen(k, plan[i])
      BY <1>2, <2>1
    <3>2. n.items[i].st = plan[i].st /\ n.items[i].group = plan[i].group /\ n.items[i].sub = k.used
      BY <3>1 DEF Frozen, WorkKept
    <3>3. Out(n.items[i]) \in {"open", "frozen", "unchanged"}
      BY <3>1, <3>2 DEF Out, Decision, Settled, Unsure
    <3>4. Out(k.items[i]) = "open"
      BY <2>1 DEF Undecided, Unsettled, Open, Out
    <3>5. QED
      BY <1>2, <3>1, <3>2, <3>3, <3>4 DEF Decided, Decision
  <2>2. CASE i \notin ids
    BY <1>2, <2>2 DEF SameItem, WorkBounded
  <2>3. QED
    BY <2>1, <2>2
<1>4. DecidedTo(k, n) /\ WorkBounded(n)
  BY <1>2, <1>3 DEF DecidedTo, WorkBounded
<1>5. QED
  BY <1>2, <1>4 DEF n

\* A step of the compilation with the work n in memory.
LEMMA CompiledRest ==
    ASSUME Held, call.at = "compile", NEW n \in WorkType, DecidedTo(live.work[Work], n), WorkBounded(n),
           n.status = live.work[Work].status, live' = PutWork(n), disk' = disk, sent' = sent,
           NEW c, call' = c, \/ c # Idle /\ c.at = "publish" /\ c.req = call.req
                             \/ \E kind \in {"io", "validation"} : c = Raise(kind)
    PROVE  Rest' /\ Advance
<1>1. call # Idle /\ live = disk
  BY DEF Idle, Held, Rest, Position, Pending
<1>2. /\ Work \in Works /\ live.work[Work] \in WorkType /\ live.work[Work].status # "completed"
  BY <1>1, LiveFrame DEF Held, Safe, Rest, Position, Unfinished
<1>3. /\ live'.work[Work] = n /\ live'.request = live.request
      /\ \A w \in Works \ {Work} : live'.work[w] = live.work[w]
  BY <1>2 DEF PutWork, Held, Safe, Typed, TypeOK, LedgerType
<1>4. Carried(live')
  BY <1>3 DEF Carried, DecidedTo
<1>5. Finality(live'.work[Work]) /\ WorkBounded(live'.work[Work])
  BY <1>2, <1>3 DEF Finality
<1>6. Charged
  BY <1>1 DEF Held, Safe, Typed, Placed, CallSent, ChargedPlaces
<1>7. call' # Idle /\ call'.req = call.req
  BY <1>1, <1>6, RaiseFields DEF Held, Safe
<1>8. Kind(live')
  BY <1>7 DEF Kind
<1>9. Booked' /\ Ended' /\ Limits' /\ OneWork'
  BY <1>1, <1>4, <1>5, <1>8, Frame DEF Held, Safe
<1>10. CASE c # Idle /\ c.at = "publish"
  <2>1. Work' = Work /\ call'.at = "publish"
    BY <1>7, <1>10 DEF Work
  <2>2. Pending'
    BY <1>1, <1>3, <2>1 DEF Pending, ExecPlaces, ItemPlaces
  <2>3. Position'
    BY <2>1, <2>2 DEF Position, Unfinished, HandOpen, ExecPlaces, ItemPlaces
  <2>4. QED
    BY <1>9, <2>3 DEF Rest, Advance
<1>11. ASSUME NEW kind \in {"io", "validation"}, c = Raise(kind)
       PROVE  Position'
  BY <1>1, <1>3, <1>11, FailPosition DEF Held, Safe
<1>12. QED
  BY <1>9, <1>10, <1>11 DEF Rest, Advance

LEMMA CompileAllRest ==
    ASSUME Held, CompileAll
    PROVE  Rest' /\ Advance
<1> DEFINE k == live.work[Work]
<1>1. /\ call # Idle /\ call.at = "compile" /\ call' = Goto("publish")
      /\ UNCHANGED << disk, sent >>
  BY DEF CompileAll, Idle
<1>2. k \in WorkType /\ WorkKept(k) /\ WorkBounded(k) /\ Undecided(k)
  BY <1>1, LiveFrame DEF Held, Safe, Typed, Placed, Kept, Rest, Position, Pending
<1>3. PICK ids \in ItemSets(k) : \E plan \in [ids -> Decisions(k)] :
             /\ \A i \in ids : Open(k, i)
             /\ live' = PutWork(WithDecisions(k, Deconflicted(plan)))
  BY DEF CompileAll
<1>4. PICK plan \in [ids -> Decisions(k)] :
             /\ \A i \in ids : Open(k, i)
             /\ live' = PutWork(WithDecisions(k, Deconflicted(plan)))
  BY <1>3
<1>5. ids \subseteq Items /\ Deconflicted(plan) \in [ids -> Decision]
  BY <1>4, ItemSetsType, DecisionsType, DeconflictedType
<1>6. Goto("publish") # Idle /\ Goto("publish").at = "publish" /\ Goto("publish").req = call.req
  BY <1>1, GotoFields DEF Held, Safe, Places
<1> HIDE DEF k
<1>7. /\ WithDecisions(k, Deconflicted(plan)) \in WorkType
      /\ DecidedTo(k, WithDecisions(k, Deconflicted(plan)))
      /\ WorkBounded(WithDecisions(k, Deconflicted(plan)))
      /\ WithDecisions(k, Deconflicted(plan)).status = k.status
  BY <1>2, <1>4, <1>5, Decides, WithDecisionsType
<1>8. QED
  BY <1>1, <1>4, <1>6, <1>7, CompiledRest DEF k

LEMMA CompileStopsRest ==
    ASSUME Held, CompileStops
    PROVE  Rest' /\ Advance
<1> DEFINE k == live.work[Work]
           Stopped(done, stop, plan) ==
               [i \in done \cup {stop} |->
                    IF i = stop THEN [st |-> "invalid", group |-> << >>] ELSE plan[i]]
           Taken(done, stop, plan) ==
               /\ \A i \in done : Open(k, i)
               /\ \/ live' = PutWork(WithDecisions(k, plan)) /\ call' = Raise("validation")
                  \/ /\ Open(k, stop)
                     /\ live' = PutWork(WithDecisions(k, Stopped(done, stop, plan)))
                     /\ call' = Raise("io")
<1>1. call # Idle /\ call.at = "compile" /\ UNCHANGED << disk, sent >>
  BY DEF CompileStops, Idle
<1>2. k \in WorkType /\ WorkKept(k) /\ WorkBounded(k) /\ Undecided(k)
  BY <1>1, LiveFrame DEF Held, Safe, Typed, Placed, Kept, Rest, Position, Pending
<1>3. PICK ids \in ItemSets(k), stop \in Items :
         \E done \in SUBSET (ids \ {stop}) : \E plan \in [done -> Decisions(k)] :
            Taken(done, stop, plan)
  BY Zenon DEF CompileStops
<1>4. PICK done \in SUBSET (ids \ {stop}) : \E plan \in [done -> Decisions(k)] :
            Taken(done, stop, plan)
  BY <1>3, Zenon
<1>5. PICK plan \in [done -> Decisions(k)] : Taken(done, stop, plan)
  BY <1>4, Zenon
<1>6. done \subseteq Items /\ plan \in [done -> Decision]
  BY <1>5, ItemSetsType, DecisionsType
<1>7. Stopped(done, stop, plan) \in [done \cup {stop} -> Decision]
  BY <1>6 DEF Decision
<1>8. \A i \in done : Open(k, i)
  BY <1>5
<1>9. CASE live' = PutWork(WithDecisions(k, plan)) /\ call' = Raise("validation")
  <2> HIDE DEF k
  <2>1. /\ WithDecisions(k, plan) \in WorkType /\ DecidedTo(k, WithDecisions(k, plan))
        /\ WorkBounded(WithDecisions(k, plan)) /\ WithDecisions(k, plan).status = k.status
    BY <1>2, <1>6, <1>8, Decides, WithDecisionsType
  <2>2. QED
    BY <1>1, <1>9, <2>1, CompiledRest DEF k
<1>10. CASE /\ Open(k, stop) /\ call' = Raise("io")
            /\ live' = PutWork(WithDecisions(k, Stopped(done, stop, plan)))
  <2> HIDE DEF k
  <2> DEFINE all == Stopped(done, stop, plan)
  <2>1. \A i \in done \cup {stop} : Open(k, i)
    BY <1>8, <1>10
  <2> HIDE DEF Stopped
  <2>2. /\ WithDecisions(k, all) \in WorkType /\ DecidedTo(k, WithDecisions(k, all))
        /\ WorkBounded(WithDecisions(k, all)) /\ WithDecisions(k, all).status = k.status
    BY <1>2, <1>6, <1>7, <2>1, Decides, WithDecisionsType
  <2>3. QED
    BY <1>1, <1>10, <2>2, CompiledRest DEF k
<1>11. QED
  BY <1>5, <1>9, <1>10

LEMMA PublishRest ==
    ASSUME Held, Publish
    PROVE  Rest' /\ Advance
<1>1. call # Idle /\ call.at = "publish" /\ UNCHANGED sent
  BY DEF Publish, Idle
<1>2. Save(live, Goto("verify"), Raise("io"))
  BY DEF Publish
<1>3. /\ Goto("verify").at = "verify" /\ Goto("verify").req = call.req
      /\ Raise("io") # Idle => Raise("io").req = call.req
  BY <1>1, GotoFields, RaiseFields DEF Held, Safe, Places
<1>4. Carried(live) /\ Finality(live.work[Work]) /\ WorkBounded(live.work[Work]) /\ Work \in Works
  BY <1>1, LiveFrame DEF Held, Safe
<1>5. Booked' /\ Ended' /\ Limits' /\ OneWork'
  BY <1>1, <1>2, <1>3, <1>4, SaveKind, Frame DEF Held, Safe
<1>6. DecidedTo(disk.work[Work], live.work[Work])
  BY <1>1 DEF Held, Rest, Position, Pending
<1>7. Advance
  BY <1>1, <1>2, <1>4, <1>6 DEF Save, Advance, Related, Held, Rest, OneWork
<1>8. CASE call' = Goto("verify")
  BY <1>3, <1>5, <1>7, <1>8, FreePosition DEF Rest
<1>9. CASE call' = Raise("io") /\ disk' = disk /\ live' = live
  <2>1. Position'
    BY <1>1, <1>6, <1>9, FailPosition DEF Held, Safe
  <2>2. QED
    BY <1>5, <1>7, <2>1 DEF Rest
<1>10. CASE call' = Idle
  BY <1>5, <1>7, <1>10, FreePosition DEF Rest
<1>11. QED
  BY <1>2, <1>8, <1>9, <1>10 DEF Save
-----------------------------------------------------------------------------
(* The execution of a work. *)

LEMMA VerifyRest ==
    ASSUME Held, Verify
    PROVE  Rest' /\ Advance
<1>1. call # Idle /\ call.at = "verify" /\ live = disk /\ UNCHANGED << disk, live, sent >>
  BY DEF Verify, Idle, Held, Safe, Typed, Placed, IdleInStep, Synced
<1>2. live.work[Work] \in WorkType /\ Finality(live.work[Work])
  BY <1>1, LiveFrame DEF Held, Safe
<1>3. CASE call' = Raise("validation")
  <2>1. call' # Idle => call'.req = call.req
    BY <1>1, <1>3, RaiseFields DEF Held, Safe
  <2>2. Position'
    BY <1>1, <1>3, SameReflexive, FailPosition DEF Held, Safe
  <2>3. QED
    BY <1>1, <2>1, <2>2, StillFrame DEF Held, Safe, Rest, Advance
<1>4. CASE call' = [Goto("select") EXCEPT !.todo = Unsettled(live.work[Work])]
  <2>1. call' # Idle /\ call'.at = "select" /\ call'.req = call.req
        /\ call'.todo = Unsettled(live.work[Work])
    BY <1>1, <1>4, GotoFields DEF Held, Safe, Places, StepType, Idle
  <2>2. Work' = Work
    BY <1>1, <2>1 DEF Work
  <2>3. call'.todo # {} => live.work[Work].status # "completed"
    BY <1>2, <2>1 DEF Finality, Done, Unsettled, Unsure
  <2>4. call'.todo = Undone'
    BY <1>1, <2>1, <2>2 DEF Undone, Unsettled
  <2>5. Pending'
    BY <1>1, <2>1, SameReflexive DEF Pending, ItemPlaces
  <2>6. Position'
    BY <1>1, <2>1, <2>2, <2>3, <2>4, <2>5 DEF Position, Unfinished, HandOpen, ItemPlaces
  <2>7. QED
    BY <1>1, <2>1, <2>6, StillFrame DEF Held, Safe, Rest, Advance
<1>5. QED
  BY <1>3, <1>4 DEF Verify

LEMMA SelectRest ==
    ASSUME Held, Select
    PROVE  Rest' /\ Advance
<1>1. call # Idle /\ call.at = "select"
  <2>1. call.at = "select"
    BY Zenon DEF Select
  <2>2. QED
    BY <2>1 DEF Idle
<1>2. UNCHANGED << disk, live, sent >>
  BY DEF Select
<1>3. SameAs(disk.work[Work], live.work[Work]) /\ call.todo \subseteq Undone
  BY <1>1 DEF Held, Rest, Position, Pending, HandOpen, ExecPlaces, ItemPlaces
<1>4. CASE call' = Goto("finish")
  <2>1. call'.at = "finish" /\ call'.req = call.req
    BY <1>1, <1>4, GotoFields DEF Held, Safe, Places
  <2>2. Work' = Work
    BY <1>2, <2>1 DEF Work
  <2>3. Position'
    BY <1>2, <1>3, <2>1, <2>2 DEF Position, Pending, Unfinished, HandOpen, ExecPlaces, ItemPlaces
  <2>4. QED
    BY <1>1, <1>2, <2>1, <2>3, StillFrame DEF Held, Safe, Rest, Advance
<1>5. ASSUME NEW i \in call.todo,
             call' = [Goto("guard") EXCEPT !.item = i, !.todo = @ \ {i}, !.k = 1]
      PROVE  Rest' /\ Advance
  <2>1. call'.at = "guard" /\ call'.req = call.req /\ call'.item = i /\ call'.todo = call.todo \ {i}
    <3>1. PICK g \in StepType \ {Idle} : g = Goto("guard")
      BY <1>1, GotoFields DEF Held, Safe, Places
    <3>2. g.at = "guard" /\ g.req = call.req /\ g.todo = call.todo
      BY <1>1, <3>1, GotoFields DEF Held, Safe, Places
    <3>3. call' = [g EXCEPT !.item = i, !.todo = @ \ {i}, !.k = 1]
      BY <1>5, <3>1
    <3>4. QED
      BY <3>2, <3>3 DEF StepType, Idle
  <2>2. Work' = Work
    BY <1>2, <2>1 DEF Work
  <2>3. live.work[Work].status # "completed"
    BY <1>1, <1>5 DEF Held, Rest, Position, Unfinished
  <2>4. Undone' = Undone
    BY <1>2, <2>2 DEF Undone
  <2>5. Position'
    BY <1>2, <1>3, <2>1, <2>2, <2>3, <2>4
       DEF Position, Pending, Unfinished, HandOpen, ExecPlaces, ItemPlaces
  <2>6. QED
    BY <1>1, <1>2, <2>1, <2>5, StillFrame DEF Held, Safe, Rest, Advance
<1>6. QED
  BY <1>4, <1>5 DEF Select

\* Moving between the places of one member.
LEMMA HandRest ==
    ASSUME Held, call.at \in ItemPlaces \ {"block"}, call'.at \in ItemPlaces, call'.req = call.req,
           call'.item = call.item, call'.todo = call.todo, UNCHANGED << disk, live, sent >>
    PROVE  Rest' /\ Advance
<1>1. call # Idle /\ Work' = Work
  BY DEF Idle, ItemPlaces, Work
<1>2. SameAs(disk.work[Work], live.work[Work])
  BY DEF Held, Rest, Position, Pending, ExecPlaces
<1>3. Undone' = Undone
  BY <1>1 DEF Undone
<1>4. Pending'
  BY <1>1, <1>2 DEF Pending, SameAs, ElsewhereSame, ItemPlaces
<1>5. Position'
  BY <1>1, <1>3, <1>4 DEF Held, Rest, Position, Unfinished, HandOpen, ExecPlaces, ItemPlaces
<1>6. QED
  BY <1>1, <1>5, StillFrame DEF Held, Safe, Rest, Advance

LEMMA MembersRest ==
    ASSUME Held, Guard \/ Apply \/ Replace \/ Rename
    PROVE  Rest' /\ Advance
<1>1. call # Idle /\ call.at \in {"guard", "apply", "replace", "rename"}
  BY DEF Guard, Apply, Replace, Rename, Idle
<1>2. UNCHANGED << disk, live, sent >>
  BY DEF Guard, Apply, Replace, Rename
<1>3. PICK place \in {"apply", "replace", "rename", "confirm", "block"} :
        call' \in {Goto(place), [Goto(place) EXCEPT !.stale = FALSE]}
  BY DEF Guard, Apply, Replace, Rename
<1>4. PICK g \in StepType \ {Idle} : g = Goto(place)
  BY <1>1, GotoFields DEF Held, Safe, Places
<1>5. g.at = place /\ g.req = call.req /\ g.item = call.item /\ g.todo = call.todo
  BY <1>1, <1>4, GotoFields DEF Held, Safe, Places
<1>6. call'.at = place /\ call'.req = call.req /\ call'.item = call.item /\ call'.todo = call.todo
  BY <1>3, <1>4, <1>5 DEF StepType, Idle
<1>7. QED
  BY <1>1, <1>2, <1>6, HandRest DEF ItemPlaces

\* The item in hand replaced in memory.
LEMMA PutItemFields ==
    ASSUME Typed, call.at \in ItemPlaces, NEW it \in ItemType, NEW L, L = PutItem(it)
    PROVE  /\ L.request = live.request
           /\ \A w \in Works \ {Work} : L.work[w] = live.work[w]
           /\ L.work[Work].used = live.work[Work].used
           /\ L.work[Work].status = live.work[Work].status
           /\ L.work[Work].items[call.item] = it
           /\ \A i \in Items \ {call.item} : L.work[Work].items[i] = live.work[Work].items[i]
<1>1. Work \in Works /\ call.item \in Items /\ live \in LedgerType
  BY InHandType, InFlight DEF Typed, TypeOK
<1>2. QED
  BY <1>1 DEF PutItem, LedgerType, WorkType

\* Saving the item in hand: it stays frozen, or it settles.
LEMMA ItemSaved ==
    ASSUME Held, call.at \in ItemPlaces, NEW it \in ItemType, it.sub = Item.sub,
           it.st \in Unsure \cup {"saved"}, NEW good, NEW bad, NEW L, L = PutItem(it),
           Save(L, good, bad), \A c \in {good, bad} : c # Idle => c.req = call.req,
           UNCHANGED sent
    PROVE  /\ Booked' /\ Ended' /\ Limits' /\ OneWork' /\ Advance
           /\ ElsewhereSame(disk.work[Work], L.work[Work])
           /\ it.st \in Unsure => SameAs(disk.work[Work], L.work[Work])
           /\ L.work[Work].status # "completed"
<1>1. call # Idle /\ Work \in Works /\ call.item \in Items
  BY InHandType, InFlight DEF Held, Safe
<1>2. /\ L.request = live.request
      /\ \A w \in Works \ {Work} : L.work[w] = live.work[w]
      /\ L.work[Work].used = live.work[Work].used
      /\ L.work[Work].status = live.work[Work].status
      /\ L.work[Work].items[call.item] = it
      /\ \A i \in Items \ {call.item} : L.work[Work].items[i] = live.work[Work].items[i]
  BY PutItemFields DEF Held, Safe
<1>3. ElsewhereSame(disk.work[Work], live.work[Work])
  BY DEF Held, Rest, Position, Pending, ExecPlaces, SameAs, ElsewhereSame
<1>4. disk.work[Work].items[call.item].st \in Unsure
  BY DEF Held, Rest, Position, HandOpen, Undone
<1>5. Item.sub = disk.work[Work].items[call.item].sub
  <2>1. call.item \in Written(live.work[Work])
    BY <1>1 DEF Held, Safe, Typed, Placed, HandHeld, Written, Item
  <2>2. QED
    BY <2>1 DEF Held, Safe, Steps, Alike, ExecPlaces, Item
<1>6. live.work[Work].status # "completed" /\ WorkBounded(live.work[Work])
  BY <1>1 DEF Held, Rest, Position, Unfinished, Limits, Bounded
<1>7. Carried(L) /\ Finality(L.work[Work])
  BY <1>2, <1>6 DEF Carried, Finality
<1>8. WorkBounded(L.work[Work])
  BY <1>1, <1>2, <1>6 DEF WorkBounded, Item, Unsure
<1>9. Booked' /\ Ended' /\ Limits' /\ OneWork'
  BY <1>1, <1>7, <1>8, SaveKind, Frame DEF Held, Safe
<1>10. ElsewhereSame(disk.work[Work], L.work[Work])
  BY <1>2, <1>3 DEF ElsewhereSame
<1>11. it.st \in Unsure => SameAs(disk.work[Work], L.work[Work])
  BY <1>1, <1>2, <1>4, <1>5, <1>10 DEF ElsewhereSame, SameAs, SameItem, Out
<1>12. it.st = "saved" => SettledTo(disk.work[Work], L.work[Work])
  BY <1>1, <1>2, <1>4, <1>5, <1>10 DEF ElsewhereSame, SettledTo
<1>13. Advance
  BY <1>1, <1>2, <1>11, <1>12 DEF Save, Advance, Related, Held, Rest, OneWork
<1>14. QED
  BY <1>2, <1>6, <1>9, <1>10, <1>11, <1>13

\* The item is left with both ledgers alike, or kept in hand with a failed save.
LEMMA LeftPosition ==
    ASSUME Held, call.at \in ItemPlaces, NEW L, live' = L, sent' = sent,
           ElsewhereSame(disk.work[Work], L.work[Work]), L.work[Work].status # "completed",
           call'.req = call.req, call'.todo = call.todo,
           \/ call'.at = "select" /\ disk' = L
           \/ /\ call'.at \in ItemPlaces /\ call'.item = call.item
              /\ \/ disk' = L /\ L.work[Work].items[call.item].st \in Unsure
                 \/ disk' = disk /\ call'.at = "block"
    PROVE  Position'
<1>1. Work' = Work
  BY DEF Work
<1>2. call.item \in Undone \ call.todo /\ call.todo \subseteq Undone
  BY DEF Held, Rest, Position, HandOpen, ExecPlaces
<1>3. \A i \in Undone \ {call.item} : L.work[Work].items[i].st \in Unsure
  BY DEF Undone, ElsewhereSame, SameItem, Out, Settled, Unsure
<1>4. call.todo \subseteq Undone'
  BY <1>1, <1>2, <1>3 DEF Undone
<1>5. HandOpen'
  BY <1>1, <1>2, <1>4 DEF HandOpen, Undone, ExecPlaces, ItemPlaces
<1>6. Unfinished'
  BY <1>1 DEF Unfinished
<1>7. Pending'
  BY <1>1, SameReflexive DEF Pending, ElsewhereSame, SameAs, ExecPlaces, ItemPlaces
<1>8. QED
  BY <1>5, <1>6, <1>7 DEF Position

\* Until it is saved, the item in hand is open in memory too.
LEMMA HandUnsure ==
    ASSUME Held, call.at \in ItemPlaces \ {"block"}
    PROVE  Item.st \in Unsure
<1>1. call # Idle /\ call.item \in Items
  BY InHandType DEF Held, Safe, Idle, ItemPlaces
<1>2. SameAs(disk.work[Work], live.work[Work]) /\ disk.work[Work].items[call.item].st \in Unsure
  BY DEF Held, Rest, Position, Pending, HandOpen, Undone, ExecPlaces
<1>3. QED
  BY <1>1, <1>2 DEF SameAs, SameItem, Out, Settled, Unsure, Item

\* Giving up on the item in hand changes nothing yet.
LEMMA ToBlockRest ==
    ASSUME Held, call.at \in ItemPlaces \ {"block"}, call' = Goto("block"),
           UNCHANGED << disk, live, sent >>
    PROVE  Rest' /\ Advance
<1>1. call # Idle
  BY DEF Idle, ItemPlaces
<1>2. QED
  BY <1>1, HandRest, GotoFields DEF Held, Safe, Places, ItemPlaces

LEMMA NextMemberFields ==
    ASSUME Typed, call # Idle, call.k \in Nat
    PROVE  /\ NextMember.at \in {"apply", "settle"} /\ NextMember.req = call.req
           /\ NextMember.item = call.item /\ NextMember.todo = call.todo
<1>1. CASE call.k < Len(Item.group)
  <2> DEFINE n == call.k + 1
  <2>1. PICK g \in StepType \ {Idle} : g = Goto("apply")
    BY GotoFields DEF Places
  <2>2. g.k = call.k /\ g.req = call.req /\ g.item = call.item /\ g.todo = call.todo
        /\ g.at = "apply"
    BY <2>1, GotoFields DEF Places
  <2>3. NextMember = [g EXCEPT !.k = n]
    BY <1>1, <2>1, <2>2 DEF NextMember, StepType
  <2> HIDE DEF n
  <2>4. QED
    BY <2>2, <2>3 DEF StepType, Idle
<1>2. CASE ~(call.k < Len(Item.group))
  BY <1>2, GotoFields DEF NextMember, Places
<1>3. QED
  BY <1>1, <1>2

LEMMA ConfirmRest ==
    ASSUME Held, Confirm
    PROVE  Rest' /\ Advance
<1> DEFINE it == [Item EXCEPT !.marked = @ \cup {Member}]
           c == NextMember
           L == PutItem(it)
<1>1. call # Idle /\ call.at = "confirm" /\ call.at \in ItemPlaces \ {"block"} /\ UNCHANGED sent
  BY DEF Confirm, Idle, ItemPlaces
<1>2. Item \in ItemType /\ Member \in Mems /\ call.item \in Items /\ call.k \in Nat
  BY <1>1, InHandType, InFlight DEF Held, Safe, Typed, Placed, HandHeld
<1>3. it \in ItemType /\ it.sub = Item.sub /\ it.st \in Unsure
  BY <1>1, <1>2, HandUnsure DEF ItemType
<1>4. CASE call' = Goto("block") /\ UNCHANGED << disk, live >>
  BY <1>1, <1>4, ToBlockRest
<1>5. CASE Save(Marked, NextMember, Goto("block"))
  <2>1. Save(L, c, Goto("block"))
    BY <1>5 DEF Marked
  <2>2. /\ c.at \in {"apply", "settle"} /\ c.req = call.req /\ c.item = call.item /\ c.todo = call.todo
    BY <1>1, <1>2, NextMemberFields DEF Held, Safe
  <2>3. /\ Goto("block").at = "block" /\ Goto("block").req = call.req /\ Goto("block") # Idle
        /\ Goto("block").item = call.item /\ Goto("block").todo = call.todo
    BY <1>1, GotoFields DEF Held, Safe, Places
  <2> HIDE DEF it, c
  <2>4. /\ Booked' /\ Ended' /\ Limits' /\ OneWork' /\ Advance
        /\ ElsewhereSame(disk.work[Work], L.work[Work])
        /\ L.work[Work].status # "completed"
    BY <1>1, <1>3, <2>1, <2>2, <2>3, ItemSaved
  <2>5. L.work[Work].items[call.item].st \in Unsure
    BY <1>1, <1>3, PutItemFields DEF Held, Safe
  <2> HIDE DEF L
  <2>6. CASE call' = c /\ disk' = L /\ live' = L
    <3>1. Position'
      BY <1>1, <2>2, <2>4, <2>5, <2>6, LeftPosition DEF ItemPlaces
    <3>2. QED
      BY <2>4, <3>1 DEF Rest
  <2>7. CASE call' = Goto("block") /\ disk' = disk /\ live' = L
    <3>1. Position'
      BY <1>1, <2>3, <2>4, <2>7, LeftPosition DEF ItemPlaces
    <3>2. QED
      BY <2>4, <3>1 DEF Rest
  <2>8. QED
    BY <2>1, <2>3, <2>6, <2>7 DEF Save
<1>6. QED
  BY <1>4, <1>5 DEF Confirm

LEMMA SettleRest ==
    ASSUME Held, Settle
    PROVE  Rest' /\ Advance
<1> DEFINE it == [Item EXCEPT !.st = "saved", !.applied = "yes"]
           c == NextItem
           L == PutItem(it)
<1>1. call # Idle /\ call.at = "settle" /\ call.at \in ItemPlaces \ {"block"} /\ UNCHANGED sent
  BY DEF Settle, Idle, ItemPlaces
<1>2. Item \in ItemType
  BY <1>1, InHandType DEF Held, Safe
<1>3. it \in ItemType /\ it.sub = Item.sub /\ it.st = "saved"
  BY <1>2 DEF ItemType, Outcomes, Settled
<1>4. CASE call' = Goto("block") /\ UNCHANGED << disk, live >>
  BY <1>1, <1>4, ToBlockRest
<1>5. CASE Save(L, c, Goto("block"))
  <2>1. c.at = "select" /\ c.req = call.req /\ c.todo = call.todo
    BY <1>1, LeaveItem DEF Held, Safe
  <2>2. /\ Goto("block").at = "block" /\ Goto("block").req = call.req /\ Goto("block") # Idle
        /\ Goto("block").item = call.item /\ Goto("block").todo = call.todo
    BY <1>1, GotoFields DEF Held, Safe, Places
  <2> HIDE DEF it, c
  <2>3. /\ Booked' /\ Ended' /\ Limits' /\ OneWork' /\ Advance
        /\ ElsewhereSame(disk.work[Work], L.work[Work])
        /\ L.work[Work].status # "completed"
    BY <1>1, <1>3, <1>5, <2>1, <2>2, ItemSaved
  <2> HIDE DEF L
  <2>4. CASE call' = c /\ disk' = L /\ live' = L
    <3>1. Position'
      BY <1>1, <2>1, <2>3, <2>4, LeftPosition
    <3>2. QED
      BY <2>3, <3>1 DEF Rest
  <2>5. CASE call' = Goto("block") /\ disk' = disk /\ live' = L
    <3>1. Position'
      BY <1>1, <2>2, <2>3, <2>5, LeftPosition DEF ItemPlaces
    <3>2. QED
      BY <2>3, <3>1 DEF Rest
  <2>6. QED
    BY <1>5, <2>2, <2>4, <2>5 DEF Save
<1>6. QED
  BY <1>4, <1>5 DEF Settle

LEMMA BlockRest ==
    ASSUME Held, Block
    PROVE  Rest' /\ Advance
<1> DEFINE seen == GroupApplied(Work, call.item, Item)
           it == [Item EXCEPT !.st = "recovery_required", !.applied = seen]
           c == NextItem
           L == PutItem(it)
<1>1. call # Idle /\ call.at \in ItemPlaces /\ UNCHANGED sent
  BY DEF Block, Idle, ItemPlaces
<1>2. Item \in ItemType /\ seen \in {"yes", "no", "unknown"}
  BY <1>1, InHandType DEF Held, Safe, GroupApplied
<1>3. Save(L, c, Raise("io"))
  BY DEF Block
<1> HIDE DEF seen
<1>4. it \in ItemType /\ it.sub = Item.sub /\ it.st \in Unsure
  BY <1>2 DEF ItemType, Outcomes, Unsure
<1>5. c.at = "select" /\ c.req = call.req /\ c.todo = call.todo
  BY <1>1, LeaveItem DEF Held, Safe
<1>6. Raise("io") # Idle => Raise("io").req = call.req
  BY <1>1, RaiseFields DEF Held, Safe
<1> HIDE DEF it, c
<1>7. /\ Booked' /\ Ended' /\ Limits' /\ OneWork' /\ Advance
      /\ ElsewhereSame(disk.work[Work], L.work[Work])
      /\ SameAs(disk.work[Work], L.work[Work])
      /\ L.work[Work].status # "completed"
  BY <1>1, <1>3, <1>4, <1>5, <1>6, ItemSaved
<1> HIDE DEF L
<1>8. CASE call' = c /\ disk' = L /\ live' = L
  <2>1. Position'
    BY <1>1, <1>5, <1>7, <1>8, LeftPosition
  <2>2. QED
    BY <1>7, <2>1 DEF Rest
<1>9. CASE call' = Raise("io") /\ disk' = disk /\ live' = L
  <2>1. Position'
    BY <1>1, <1>7, <1>9, FailPosition DEF Held, Safe
  <2>2. QED
    BY <1>7, <2>1 DEF Rest
<1>10. CASE call' = Idle
  BY <1>7, <1>10, FreePosition DEF Rest
<1>11. QED
  BY <1>3, <1>8, <1>9, <1>10 DEF Save
-----------------------------------------------------------------------------
(* The end of a call. *)

\* The status, the revision and the answer are saved: k takes the place of the
\* work in hand.
LEMMA EndFrame ==
    ASSUME Held, call # Idle, NEW k, k.used = live.work[Work].used, k.items = live.work[Work].items,
           Finality(k), NEW L, L = Put(live, Work, k, call.req, "answered"),
           NEW good, NEW bad, Save(L, good, bad), \A c \in {good, bad} : c # Idle => c.req = call.req,
           UNCHANGED sent
    PROVE  /\ Booked' /\ Ended' /\ Limits' /\ OneWork' /\ L.work[Work] = k
           /\ Related(disk.work[Work], k) => Advance
<1>1. Work \in Works /\ call.req \in Requests /\ WorkBounded(live.work[Work])
  BY LiveFrame DEF Held, Safe
<1>2. /\ L.work[Work] = k /\ \A w \in Works \ {Work} : L.work[w] = live.work[w]
      /\ L.request = [live.request EXCEPT ![call.req] = "answered"]
  BY <1>1 DEF Put, Held, Safe, Typed, TypeOK, LedgerType
<1>3. WorkBounded(k)
  BY <1>1 DEF WorkBounded
<1>4. Carried(L)
  BY <1>2 DEF Carried
<1>5. Booked' /\ Ended' /\ Limits' /\ OneWork'
  BY <1>2, <1>3, <1>4, SaveKind, Frame DEF Held, Safe
<1>6. Related(disk.work[Work], k) => Advance
  BY <1>1, <1>2 DEF Save, Advance, Held, Rest, OneWork
<1>7. QED
  BY <1>2, <1>5, <1>6

LEMMA FinishRest ==
    ASSUME Held, Finish
    PROVE  Rest' /\ Advance
<1> DEFINE old == live.work[Work]
           d == Derived(old)
           n == IF Tool = "resume" THEN d.rev + 1 ELSE d.rev
           k == [d EXCEPT !.rev = n]
           good == IF Charged THEN Goto("reply") ELSE Idle
           L == Put(live, Work, k, call.req, "answered")
<1>1. call # Idle /\ call.at = "finish" /\ UNCHANGED sent
  BY DEF Finish, Idle
<1>2. old \in WorkType /\ Finality(old)
  BY <1>1, LiveFrame DEF Held, Safe
<1>3. d \in WorkType /\ d.items = old.items /\ d.used = old.used
  BY <1>2, DerivedType DEF Derived, WorkType
<1>4. Finality(d)
  <2>1. Done(d) <=> Done(old)
    BY <1>3 DEF Done
  <2>2. CASE Done(old)
    <3>1. d = [old EXCEPT !.status = "completed", !.terminal = TRUE]
      BY <2>2 DEF Derived
    <3>2. d.terminal
      BY <1>2, <3>1 DEF WorkType
    <3>3. QED
      BY <2>1, <2>2, <3>2 DEF Finality
  <2>3. CASE ~Done(old)
    <3>1. d.status \in {Partly(old, "submitted"), Partly(old, "failed"), Partly(old, "pending")}
      BY <1>2, <2>3 DEF Derived, WorkType
    <3>2. QED
      BY <3>1 DEF Partly, Finality
  <2>4. QED
    BY <2>2, <2>3
<1>5. Save(L, good, Raise("io"))
  BY DEF Finish, Finished
<1>6. good # Idle => good.at = "reply" /\ good.req = call.req
  BY <1>1, GotoFields DEF Held, Safe, Places
<1>7. Raise("io") # Idle => Raise("io").req = call.req
  BY <1>1, RaiseFields DEF Held, Safe
<1> HIDE DEF d, n
<1>8. k.items = old.items /\ k.used = old.used /\ k.status = d.status /\ k.terminal = d.terminal
  BY <1>3 DEF WorkType
<1> HIDE DEF k, good
<1>9. Finality(k)
  <2>1. Done(k) <=> Done(d)
    BY <1>3, <1>8 DEF Done
  <2>2. QED
    BY <1>4, <1>8, <2>1 DEF Finality
<1>10. SameAs(disk.work[Work], k)
  BY <1>1, <1>8 DEF Held, Rest, Position, Pending, ExecPlaces, SameAs
<1>11. /\ Booked' /\ Ended' /\ Limits' /\ OneWork' /\ Advance /\ L.work[Work] = k
  BY <1>1, <1>5, <1>6, <1>7, <1>8, <1>9, <1>10, EndFrame DEF Related
<1> HIDE DEF L
<1>12. CASE call' = good
  BY <1>6, <1>11, <1>12, FreePosition DEF Rest
<1>13. CASE call' = Raise("io") /\ disk' = disk /\ live' = L
  <2>1. Position'
    BY <1>1, <1>10, <1>11, <1>13, FailPosition DEF Held, Safe
  <2>2. QED
    BY <1>11, <2>1 DEF Rest
<1>14. CASE call' = Idle
  BY <1>11, <1>14, FreePosition DEF Rest
<1>15. QED
  BY <1>5, <1>12, <1>13, <1>14 DEF Save

LEMMA ReplyRest ==
    ASSUME Held, Reply
    PROVE  Rest' /\ Advance
<1>1. call # Idle /\ call.at = "reply" /\ live = disk /\ UNCHANGED << disk, live, sent >>
  BY DEF Reply, Idle, Held, Safe, Typed, Placed, IdleInStep, Synced
<1>2. CASE call' = Idle
  BY <1>1, <1>2, StillFrame, FreePosition DEF Held, Safe, Rest, Advance
<1>3. CASE call' = Raise("validation")
  <2>1. call' # Idle => call'.req = call.req
    BY <1>1, <1>3, RaiseFields DEF Held, Safe
  <2>2. Position'
    BY <1>1, <1>3, SameReflexive, FailPosition DEF Held, Safe
  <2>3. QED
    BY <1>1, <2>1, <2>2, StillFrame DEF Held, Safe, Rest, Advance
<1>4. QED
  BY <1>2, <1>3 DEF Reply

LEMMA FailRest ==
    ASSUME Held, Fail
    PROVE  Rest' /\ Advance
<1> DEFINE old == live.work[Work]
           k == IF call.error = "io" THEN old ELSE Downgraded(old)
           L == Put(live, Work, k, call.req, "answered")
<1>1. call # Idle /\ call.at = "fail" /\ UNCHANGED sent
  BY DEF Fail, Idle
<1>2. old \in WorkType /\ Finality(old)
  BY <1>1, LiveFrame DEF Held, Safe
<1>3. k.items = old.items /\ k.used = old.used /\ Finality(k)
  BY <1>2 DEF Downgraded, Finality, Done, Partly, WorkType
<1>4. Save(L, Idle, Idle)
  BY DEF Fail
<1> HIDE DEF k
<1>5. Related(disk.work[Work], k)
  <2>1. LET f == disk.work[Work] IN SameAs(f, old) \/ ChargedTo(f, old) \/ DecidedTo(f, old)
    BY <1>1 DEF Held, Rest, Position, Pending
  <2>2. QED
    BY <1>3, <2>1 DEF Related, SameAs, ChargedTo, DecidedTo
<1>6. Booked' /\ Ended' /\ Limits' /\ OneWork' /\ Advance
  BY <1>1, <1>3, <1>4, <1>5, EndFrame
<1>7. call' = Idle
  BY <1>4 DEF Save
<1>8. QED
  BY <1>6, <1>7, FreePosition DEF Rest

LEMMA AnswerRest ==
    ASSUME Held, Answer
    PROVE  Rest' /\ Advance
<1>1. call # Idle /\ call.at = "answer" /\ Save(live, Idle, Idle) /\ UNCHANGED sent
  BY DEF Answer, Idle
<1>2. Carried(live) /\ Finality(live.work[Work]) /\ WorkBounded(live.work[Work]) /\ Work \in Works
  BY <1>1, LiveFrame DEF Held, Safe
<1>3. Booked' /\ Ended' /\ Limits' /\ OneWork'
  BY <1>1, <1>2, SaveKind, Frame DEF Held, Safe
<1>4. ClosedTo(disk.work[Work], live.work[Work])
  BY <1>1 DEF Held, Rest, Position, Pending
<1>5. Advance
  BY <1>1, <1>2, <1>4 DEF Save, Advance, Related, Held, Rest, OneWork
<1>6. call' = Idle
  BY <1>1 DEF Save
<1>7. QED
  BY <1>3, <1>5, <1>6, FreePosition DEF Rest

-----------------------------------------------------------------------------
LEMMA RestNext == Held /\ [Next]_vars => Rest' /\ Advance
<1> SUFFICES ASSUME Held, [Next]_vars PROVE Rest' /\ Advance
  OBVIOUS
<1>1. ASSUME NEW r \in Requests, NEW t \in Tools, NEW w \in Works, Send(r, t, w)
      PROVE  Rest' /\ Advance
  BY <1>1, SendRest
<1>2. ASSUME NEW r \in Requests, Deliver(r)
      PROVE  Rest' /\ Advance
  BY <1>2, PrepareRest, BeginSubmitRest, BeginResumeRest, CancelRest DEF Deliver
<1>3. CASE SaveCharge \/ CompileRefuses \/ CompileAll \/ CompileStops \/ Publish
  BY <1>3, SaveChargeRest, CompileRefusesRest, CompileAllRest, CompileStopsRest, PublishRest
<1>4. CASE \/ Verify \/ Select \/ Guard \/ Apply \/ Replace \/ Rename \/ Confirm
           \/ Settle \/ Block
  BY <1>4, VerifyRest, SelectRest, MembersRest, ConfirmRest, SettleRest, BlockRest
<1>5. CASE Finish \/ Reply \/ Fail \/ Answer
  BY <1>5, FinishRest, ReplyRest, FailRest, AnswerRest
<1>6. ASSUME NEW m \in Mems, NEW v \in ExtRevs \cup {Absent}, ExternalEdit(m, v)
      PROVE  Rest' /\ Advance
  BY <1>6, ExternalEditRest
<1>7. CASE Crash
  BY <1>7, CrashRest
<1>8. CASE UNCHANGED vars
  <2>1. UNCHANGED << head, hist, disk, live, call, sent, faults, edits >>
    BY <1>8 DEF vars
  <2>2. Work' = Work /\ Undone' = Undone
    BY <2>1 DEF Work, Undone
  <2>3. Rest'
    BY <2>1, <2>2
       DEF Held, Rest, Booked, Noted, Charged, Tool, Ended, Limits, OneWork, Position, Unfinished,
           Pending, ElsewhereSame, HandOpen
  <2>4. QED
    BY <2>1, <2>3 DEF Advance
<1>9. QED
  BY <1>1, <1>2, <1>3, <1>4, <1>5, <1>6, <1>7, <1>8 DEF Next, Service

LEMMA AlwaysHeld == Spec => []Held
<1>1. Init => Held
  BY TypedInit, SafeInit, HeldInit DEF Held, Safe
<1>2. Held /\ [Next]_vars => Held'
  BY SafeNext, RestNext DEF Held
<1>3. QED
  BY <1>1, <1>2, PTL DEF Spec

\* A work is charged once for every submission the ledger file retains and
\* for no other one, whatever was retried, refused, or lost with the process
\* (host_v2.py, _submit and the except clause of call()).
THEOREM ChargedOnce == Spec => []ChargedOncePerRequest
<1>1. Held => ChargedOncePerRequest
  <2> SUFFICES ASSUME Held, NEW w \in Works
               PROVE  /\ disk.work[w].used = Cardinality(Submissions(w))
                      /\ disk.work[w].latest = disk.work[w].used
    BY DEF ChargedOncePerRequest
  <2>1. Submissions(w) = Retained(disk, sent, w)
    BY DEF Submissions, Retained
  <2>2. disk.work[w].used = Cardinality(Retained(disk, sent, w))
    BY DEF Held, Rest, Booked, Counted, Paid
  <2>3. disk.work[w].latest = disk.work[w].used
    BY DEF Held, Safe, Typed, Placed, Kept, WorkKept
  <2>4. QED
    BY <2>1, <2>2, <2>3
<1>2. QED
  BY <1>1, AlwaysHeld, PTL

\* coverage_complete is true whenever it is reported: a completed work is
\* closed, and each of its items is saved or unchanged (_derive_status).
THEOREM CompletedMeansDone == Spec => []CompletedIsDone
<1>1. Held => CompletedIsDone
  BY DEF Held, Rest, Ended, Final, Finality, CompletedIsDone
<1>2. QED
  BY <1>1, AlwaysHeld, PTL

-----------------------------------------------------------------------------
(* The ledger file implements WorkPromise. *)

\* The outcomes of a work, as WorkPromise sees them.
Outs(k) == [i \in Items |-> Out(k.items[i])]
Subs(k) == [i \in Items |-> k.items[i].sub]

LEMMA MapFields ==
    ASSUME NEW w \in Works
    PROVE  /\ UsedMap[w] = disk.work[w].used
           /\ AttemptMap[w] = Subs(disk.work[w])
           /\ OutcomeMap[w] = Outs(disk.work[w])
BY DEF UsedMap, AttemptMap, OutcomeMap, OutcomeOf, Subs, Outs, Out

\* A step of one work is a step of the three maps at that work.
LEMMA MapStep ==
    ASSUME Work \in Works, \A w \in Works \ {Work} : disk'.work[w] = disk.work[w],
           NEW n, n = disk'.work[Work]
    PROVE  /\ UsedMap' = [UsedMap EXCEPT ![Work] = n.used]
           /\ AttemptMap' = [AttemptMap EXCEPT ![Work] = Subs(n)]
           /\ OutcomeMap' = [OutcomeMap EXCEPT ![Work] = Outs(n)]
BY DEF UsedMap, AttemptMap, OutcomeMap, OutcomeOf, Subs, Outs, Out

LEMMA PromiseStep ==
    ASSUME Held, Advance
    PROVE  [Promise!PromiseNext]_(Promise!promise)
<1>1. CASE disk' = disk
  BY <1>1 DEF Promise!promise, UsedMap, AttemptMap, OutcomeMap, OutcomeOf
<1>2. CASE /\ Work \in Works
           /\ \A w \in Works \ {Work} : disk'.work[w] = disk.work[w]
           /\ Related(disk.work[Work], disk'.work[Work])
  <2> DEFINE w == Work
             k == disk.work[w]
             n == disk'.work[w]
  <2>1. /\ UsedMap[w] = k.used /\ AttemptMap[w] = Subs(k) /\ OutcomeMap[w] = Outs(k) /\ w \in Works
    BY <1>2, MapFields
  <2>2. /\ UsedMap' = [UsedMap EXCEPT ![w] = n.used]
        /\ AttemptMap' = [AttemptMap EXCEPT ![w] = Subs(n)]
        /\ OutcomeMap' = [OutcomeMap EXCEPT ![w] = Outs(n)]
    BY <1>2, MapStep
  <2>3. UsedMap = [v \in Works |-> UsedMap[v]] /\ AttemptMap = [v \in Works |-> AttemptMap[v]]
        /\ OutcomeMap = [v \in Works |-> OutcomeMap[v]]
    BY DEF UsedMap, AttemptMap, OutcomeMap
  <2>4. k \in WorkType
    BY <2>1 DEF Held, Safe, Typed, TypeOK, LedgerType
  <2>5. \A i \in Items : k.items[i] \in ItemType /\ Subs(k)[i] = k.items[i].sub /\ Outs(k)[i] = Out(k.items[i])
    BY <2>4 DEF WorkType, Subs, Outs
  <2>6. \A i \in Items : Subs(n)[i] = n.items[i].sub /\ Outs(n)[i] = Out(n.items[i])
    BY DEF Subs, Outs
  <2> HIDE DEF w, k, n
  <2>7. (\A i \in Items : SameItem(k.items[i], n.items[i])) => Subs(n) = Subs(k) /\ Outs(n) = Outs(k)
    BY DEF Subs, Outs, SameItem
  <2>8. CASE SameAs(k, n)
    BY <2>1, <2>2, <2>3, <2>7, <2>8 DEF SameAs, Promise!promise
  <2>9. CASE ChargedTo(k, n)
    <3>1. \A i \in Items : Out(k.items[i]) # "frozen"
      BY <2>9 DEF ChargedTo, Unsettled, Out, Settled
    <3>2. UsedMap' = [UsedMap EXCEPT ![w] = @ + 1] /\ AttemptMap' = AttemptMap /\ OutcomeMap' = OutcomeMap
      BY <2>1, <2>2, <2>3, <2>7, <2>9 DEF ChargedTo
    <3>3. Promise!Charge(w)
      BY <2>1, <2>5, <2>9, <3>1, <3>2 DEF Promise!Charge, ChargedTo
    <3>4. QED
      BY <2>1, <3>3 DEF Promise!PromiseNext
  <2>10. CASE DecidedTo(k, n) /\ ~SameAs(k, n)
    <3> DEFINE ids == {i \in Items : ~SameItem(k.items[i], n.items[i])}
               what == [i \in ids |-> Out(n.items[i])]
    <3>1. ids \in (SUBSET {i \in Items : OutcomeMap[w][i] = "open"}) \ {{}}
      <4>1. ids # {}
        BY <2>10 DEF DecidedTo, SameAs
      <4>2. \A i \in ids : i \in Items /\ OutcomeMap[w][i] = "open"
        BY <2>1, <2>5, <2>10 DEF DecidedTo, Decided
      <4> HIDE DEF ids
      <4>3. QED
        BY <4>1, <4>2
    <3>2. what \in [ids -> {"open", "frozen", "unchanged"}]
      BY <2>10 DEF DecidedTo, Decided
    <3>3. /\ Subs(n) = [i \in Items |-> IF i \in ids THEN UsedMap[w] ELSE AttemptMap[w][i]]
          /\ Outs(n) = [i \in Items |-> IF i \in ids THEN what[i] ELSE OutcomeMap[w][i]]
      BY <2>1, <2>10 DEF DecidedTo, Decided, SameItem, Subs, Outs
    <3>4. UsedMap' = UsedMap
      BY <2>1, <2>2, <2>3, <2>10 DEF DecidedTo
    <3>5. UsedMap[w] > 0
      BY <2>1, <2>4, <2>10 DEF DecidedTo, Undecided
    <3>6. \A i \in Items : AttemptMap[w][i] < UsedMap[w] /\ OutcomeMap[w][i] # "frozen"
      BY <2>1, <2>5, <2>10 DEF DecidedTo, Undecided, Unsettled, Out, Settled
    <3> HIDE DEF ids, what
    <3>7. Promise!Decide(w)
      BY <2>1, <2>2, <3>1, <3>2, <3>3, <3>4, <3>5, <3>6 DEF Promise!Decide
    <3>8. QED
      BY <2>1, <3>7 DEF Promise!PromiseNext
  <2>11. CASE ClosedTo(k, n)
    <3> DEFINE ids == {i \in Items : GivenUp(k.items[i], n.items[i])}
    <3>1. ids \in SUBSET {i \in Items : OutcomeMap[w][i] \in {"open", "frozen"}}
      BY <2>1, <2>5 DEF GivenUp
    <3>2. /\ Subs(n) = Subs(k)
          /\ Outs(n) = [i \in Items |-> IF i \in ids THEN "cancelled" ELSE OutcomeMap[w][i]]
      BY <2>1, <2>11 DEF ClosedTo, GivenUp, SameItem, Subs, Outs
    <3>3. UsedMap' = UsedMap /\ AttemptMap' = AttemptMap
      BY <2>1, <2>2, <2>3, <2>11, <3>2 DEF ClosedTo
    <3> HIDE DEF ids
    <3>4. Promise!Close(w)
      BY <2>1, <2>2, <3>1, <3>2, <3>3 DEF Promise!Close
    <3>5. QED
      BY <2>1, <3>4 DEF Promise!PromiseNext
  <2>12. CASE SettledTo(k, n)
    <3>1. PICK i \in Items :
            /\ k.items[i].st \in Unsure /\ n.items[i].st = "saved" /\ n.items[i].sub = k.items[i].sub
            /\ \A j \in Items \ {i} : SameItem(k.items[j], n.items[j])
      BY <2>12 DEF SettledTo
    <3>2. Out(k.items[i]) = "frozen" /\ Out(n.items[i]) = "saved"
      BY <3>1 DEF Out, Unsure, Settled
    <3>3. Subs(n) = Subs(k) /\ Outs(n) = [Outs(k) EXCEPT ![i] = "saved"]
      BY <3>1, <3>2 DEF Subs, Outs, SameItem
    <3>4. UsedMap' = UsedMap /\ AttemptMap' = AttemptMap /\ OutcomeMap' = [OutcomeMap EXCEPT ![w][i] = "saved"]
      BY <2>1, <2>2, <2>3, <2>12, <3>3 DEF SettledTo
    <3>5. Promise!Settles(w, i)
      BY <2>1, <2>5, <3>2, <3>4 DEF Promise!Settles
    <3>6. QED
      BY <2>1, <3>1, <3>5 DEF Promise!PromiseNext
  <2>13. Related(k, n)
    BY <1>2 DEF k, n, w
  <2>14. QED
    BY <2>8, <2>9, <2>10, <2>11, <2>12, <2>13 DEF Related
<1>3. QED
  BY <1>1, <1>2 DEF Advance

LEMMA PromiseStart == Init => Promise!PromiseInit
BY DEF Init, Promise!PromiseInit, UsedMap, AttemptMap, OutcomeMap, OutcomeOf, NoWork, NoItem, Unsure, Settled

\* The ledger file, step by step, does what WorkPromise promises an agent: a
\* submission costs one unit, decides open items once and only while no group
\* is frozen, and a settled outcome stands (host_v2.py, HostMemory).
THEOREM LedgerKeepsPromise == Spec => KeepsPromise
<1>1. Held /\ [Next]_vars => [Promise!PromiseNext]_(Promise!promise)
  BY RestNext, PromiseStep
<1>2. QED
  BY <1>1, AlwaysHeld, PromiseStart, PTL DEF Spec, KeepsPromise, Promise!PromiseSpec

-----------------------------------------------------------------------------
(* The fourth layer of the invariant: as long as no person edits a file, the *)
(* revisions of a memory form one line.  First the lines of a ledger L, with *)
(* the ledger D on file and the heads h.                                     *)

\* A revision of the program that is referred to is of a saved group.
Known(D, v) ==
    \A w \in Works, i \in Items, s \in 0..Limit :
        v = <<w, i, s>> => /\ D.work[w].items[i].st = "saved"
                           /\ D.work[w].items[i].sub = s

AllKnown(D, L) ==
    \A w \in Works, m \in Mems :
        /\ Known(D, L.work[w].snap[m])
        /\ \A i \in Items : Known(D, L.work[w].items[i].before[m])

\* The frozen replacement of m has been its head.
Wrote(h, w, i, it, m) == m \in it.marked \/ h[m] = <<w, i, it.sub>>

\* What was replaced never comes back ...
Past(h, L) ==
    \A w \in Works, i \in Items : LET it == L.work[w].items[i] IN
        \A m \in Range(it.group) : Wrote(h, w, i, it, m) => h[m] # it.before[m]

\* ... and was replaced by one group.
Single(h, L) ==
    \A p, q \in Works \X Items :
        LET a == L.work[p[1]].items[p[2]]
            b == L.work[q[1]].items[q[2]]
        IN  p # q => \A m \in Range(a.group) \cap Range(b.group) :
              Wrote(h, p[1], p[2], a, m) /\ Wrote(h, q[1], q[2], b, m)
                 => a.before[m] # b.before[m]

Lines(D, h, L) == AllKnown(D, L) /\ Past(h, L) /\ Single(h, L)

\* The file and the memory agree on what the groups in execution replace.
BeforeAlike ==
    call.at \in ExecPlaces =>
        \A i \in Written(live.work[Work]) :
            disk.work[Work].items[i].before = live.work[Work].items[i].before

\* No scan went stale, as only edits make it so.
NoStale == call # Idle => ~call.stale

Linear ==
    Lines(disk, head, disk) /\ Lines(disk, head, live) /\ BeforeAlike /\ NoStale

Straight == Held /\ (edits = 0 => Linear)

-----------------------------------------------------------------------------
(* Steps that leave the heads alone. *)

\* The ledger M has written nothing the one in memory has not.
Follows(M) ==
    /\ AllKnown(disk, M)
    /\ \A w \in Works, i \in Items :
          LET a == live.work[w].items[i]
              b == M.work[w].items[i]
          IN  \A m \in Range(b.group) : Wrote(head, w, i, b, m) =>
                /\ m \in Range(a.group) /\ b.before[m] = a.before[m]
                /\ Wrote(head, w, i, a, m)

LEMMA AbsentKnown ==
    ASSUME NEW D
    PROVE  Known(D, Absent)
<1>1. \A w \in Works, i \in Items, s \in 0..Limit : <<w, i, s>> \in Revs
  BY DEF Revs, Ops
<1>2. QED
  BY <1>1, RevisionsAssumption DEF Known

\* Saved groups stay saved.
LEMMA KnownKept ==
    ASSUME Held, Advance, NEW v, Known(disk, v)
    PROVE  Known(disk', v)
<1> SUFFICES ASSUME NEW w \in Works, NEW i \in Items, NEW s \in 0..Limit, v = <<w, i, s>>,
                    disk' # disk
             PROVE  disk'.work[w].items[i].st = "saved" /\ disk'.work[w].items[i].sub = s
  BY DEF Known
<1>1. disk.work[w].items[i].st = "saved" /\ disk.work[w].items[i].sub = s
  BY DEF Known
<1>2. CASE w # Work
  BY <1>1, <1>2 DEF Advance
<1>3. CASE w = Work
  <2> DEFINE a == disk.work[w].items[i]
             b == disk'.work[w].items[i]
  <2>1. Out(a) = "saved" /\ a.st \notin Unsure
    BY <1>1 DEF Out, Settled, Unsure
  <2>2. SameItem(a, b)
    BY <1>3, <2>1 DEF Advance, Related, SameAs, ChargedTo, DecidedTo, Decided, ClosedTo, GivenUp,
                      SettledTo
  <2>3. b.st = "saved" /\ b.sub = a.sub
    BY <2>1, <2>2 DEF SameItem, Out, Settled, Unsure
  <2>4. QED
    BY <1>1, <2>3
<1>4. QED
  BY <1>2, <1>3

LEMMA Followed ==
    ASSUME Held, Advance, Lines(disk, head, disk), Lines(disk, head, live), NEW M, Follows(M),
           head' = head, disk' \in {disk, M}, live' \in {disk', M}
    PROVE  Lines(disk, head, disk)' /\ Lines(disk, head, live)'
<1>1. Past(head, M)
  BY DEF Follows, Lines, Past
<1>2. Single(head, M)
  <2> SUFFICES ASSUME NEW p \in Works \X Items, NEW q \in Works \X Items, p # q,
                      NEW m \in Range(M.work[p[1]].items[p[2]].group)
                                \cap Range(M.work[q[1]].items[q[2]].group),
                      Wrote(head, p[1], p[2], M.work[p[1]].items[p[2]], m),
                      Wrote(head, q[1], q[2], M.work[q[1]].items[q[2]], m)
               PROVE  M.work[p[1]].items[p[2]].before[m] # M.work[q[1]].items[q[2]].before[m]
    BY DEF Single
  <2>1. p[1] \in Works /\ p[2] \in Items /\ q[1] \in Works /\ q[2] \in Items
    OBVIOUS
  <2> DEFINE a == live.work[p[1]].items[p[2]]
             b == live.work[q[1]].items[q[2]]
  <2>2. /\ m \in Range(a.group) /\ M.work[p[1]].items[p[2]].before[m] = a.before[m]
        /\ Wrote(head, p[1], p[2], a, m)
    BY <2>1 DEF Follows
  <2>3. /\ m \in Range(b.group) /\ M.work[q[1]].items[q[2]].before[m] = b.before[m]
        /\ Wrote(head, q[1], q[2], b, m)
    BY <2>1 DEF Follows
  <2>4. a.before[m] # b.before[m]
    BY <2>2, <2>3 DEF Lines, Single
  <2>5. QED
    BY <2>2, <2>3, <2>4
<1>3. AllKnown(disk', disk) /\ AllKnown(disk', M)
  BY KnownKept DEF Lines, AllKnown, Follows
<1>4. Lines(disk', head', disk) /\ Lines(disk', head', M)
  BY <1>1, <1>2, <1>3 DEF Lines
<1>5. QED
  BY <1>4

\* The items are the same, but for marks that are dropped, statuses and
\* answers, and what a work remembers of the heads is known.
LEMMA KeptItems ==
    ASSUME Lines(disk, head, live), NEW M,
           \A w \in Works :
              /\ \A m \in Mems : \/ M.work[w].snap[m] = live.work[w].snap[m]
                                 \/ Known(disk, M.work[w].snap[m])
              /\ \A i \in Items : LET a == live.work[w].items[i]
                                      b == M.work[w].items[i]
                                  IN  /\ b.sub = a.sub /\ b.group = a.group /\ b.before = a.before
                                      /\ b.marked \subseteq a.marked
    PROVE  Follows(M)
<1>1. AllKnown(disk, M)
  BY DEF Lines, AllKnown
<1>2. QED
  BY <1>1 DEF Follows, Wrote

LEMMA LiveFollows ==
    ASSUME Lines(disk, head, live)
    PROVE  Follows(live)
BY KeptItems

\* Neither the file nor the heads change.
LEMMA Calm ==
    ASSUME Held, Linear, head' = head, disk' = disk, live' \in {disk, live}, NoStale',
           call'.at \in ExecPlaces =>
               \/ live' = disk
               \/ live' = live /\ call.at \in ExecPlaces /\ call'.req = call.req /\ sent' = sent
    PROVE  Linear'
<1>1. Lines(disk, head, disk)' /\ Lines(disk, head, live)'
  BY DEF Linear
<1>2. BeforeAlike'
  BY DEF Linear, BeforeAlike, Work
<1>3. QED
  BY <1>1, <1>2 DEF Linear

LEMMA CallFields ==
    ASSUME Typed, call # Idle
    PROVE  /\ \A place \in Places : Goto(place).stale = call.stale
           /\ \A kind \in {"io", "validation"} : Raise(kind) # Idle => Raise(kind).stale = call.stale
           /\ NextItem.stale = call.stale
           /\ call.k \in Nat => NextMember.stale = call.stale
<1>1. call \in StepType \ {Idle}
  BY DEF Typed, TypeOK
<1>2. \A place \in Places : Goto(place).stale = call.stale
  BY <1>1 DEF StepType, Goto, Idle, Places
<1>3. ASSUME NEW kind \in {"io", "validation"}
      PROVE  Raise(kind) # Idle => Raise(kind).stale = call.stale
  BY <1>1 DEF Raise, StepType, Idle
<1>4. NextItem.stale = call.stale
  <2>1. PICK g \in StepType \ {Idle} : g = Goto("select")
    BY GotoFields DEF Places
  <2>2. g.stale = call.stale
    BY <1>2, <2>1 DEF Places
  <2>3. QED
    BY <2>1, <2>2 DEF NextItem, StepType, Idle
<1>5. ASSUME call.k \in Nat
      PROVE  NextMember.stale = call.stale
  <2>1. CASE call.k < Len(Item.group)
    <3> DEFINE n == call.k + 1
    <3>1. PICK g \in StepType \ {Idle} : g = Goto("apply")
      BY GotoFields DEF Places
    <3>2. g.k = call.k /\ g.stale = call.stale
      BY <1>2, <3>1, GotoFields DEF Places
    <3>3. NextMember = [g EXCEPT !.k = n]
      BY <2>1, <3>1, <3>2 DEF NextMember, StepType
    <3> HIDE DEF n
    <3>4. QED
      BY <3>2, <3>3 DEF StepType, Idle
  <2>2. CASE ~(call.k < Len(Item.group))
    BY <1>2, <2>2 DEF NextMember, Places
  <2>3. QED
    BY <2>1, <2>2
<1>6. QED
  BY <1>2, <1>3, <1>4, <1>5

LEMMA LinearInit == Init => Linear
<1> SUFFICES ASSUME Init PROVE Linear
  OBVIOUS
<1>1. /\ call = Idle /\ live = disk /\ \A w \in Works : disk.work[w] = NoWork
  BY DEF Init
<1>2. AllKnown(disk, disk)
  BY <1>1, AbsentKnown DEF AllKnown, NoWork, NoItem, Nothing
<1>3. \A w \in Works, i \in Items : Range(disk.work[w].items[i].group) = {}
  BY <1>1 DEF NoWork, NoItem, Range
<1>4. Past(head, disk) /\ Single(head, disk)
  BY <1>3 DEF Past, Single
<1>5. QED
  BY <1>1, <1>2, <1>4 DEF Linear, Lines, BeforeAlike, NoStale, Idle, ExecPlaces, ItemPlaces

-----------------------------------------------------------------------------
(* The actions. *)

LEMMA OutsideLinear ==
    ASSUME Held, Linear,
           \/ \E r \in Requests, t \in Tools, w \in Works : Send(r, t, w)
           \/ \E r \in Requests : BeginResume(r)
           \/ Crash
    PROVE  Linear'
<1>1. /\ head' = head /\ disk' = disk /\ live' \in {disk, live}
      /\ call' = Idle \/ \E r \in Requests : call' = Enter(r, "verify")
  BY DEF Send, BeginResume, Crash
<1>2. NoStale' /\ call'.at \notin ExecPlaces
  BY <1>1 DEF NoStale, Enter, Idle, ExecPlaces, ItemPlaces
<1>3. QED
  BY <1>1, <1>2, Calm

LEMMA StillLinear ==
    ASSUME Held, Linear, Verify \/ Select \/ Guard \/ Apply \/ Replace \/ CompileRefuses \/ Reply
    PROVE  Linear'
<1>1. call # Idle /\ UNCHANGED << head, disk, live, sent >> /\ ~call.stale
  <2>1. call.at \in {"verify", "select", "guard", "apply", "replace", "compile", "reply"}
    BY Zenon DEF Verify, Select, Guard, Apply, Replace, CompileRefuses, Reply
  <2>2. UNCHANGED << head, disk, live, sent >>
    BY DEF Verify, Select, Guard, Apply, Replace, CompileRefuses, Reply
  <2>3. call # Idle
    BY <2>1 DEF Idle
  <2>4. QED
    BY <2>2, <2>3 DEF Linear, NoStale
<1>2. CASE \E kind \in {"io", "validation"} : call' = Raise(kind)
  BY <1>1, <1>2, RaiseFields, CallFields, Calm DEF Held, Safe, NoStale, ExecPlaces, ItemPlaces, Idle
<1>3. CASE call' = Idle
  BY <1>1, <1>3, Calm DEF NoStale, Idle, ExecPlaces, ItemPlaces
<1>4. ASSUME NEW place \in Places,
             \/ call' = Goto(place)
             \/ call' = [Goto(place) EXCEPT !.stale = FALSE]
             \/ \E t : call' = [Goto(place) EXCEPT !.todo = t]
             \/ \E i : call' = [Goto(place) EXCEPT !.item = i, !.todo = @ \ {i}, !.k = 1],
             call.at \in ExecPlaces \/ live = disk \/ place = "finish"
      PROVE  Linear'
  <2>1. PICK g \in StepType \ {Idle} : g = Goto(place)
    BY <1>1, GotoFields DEF Held, Safe
  <2>2. g.req = call.req /\ g.at = place /\ ~g.stale
    BY <1>1, <2>1, GotoFields, CallFields DEF Held, Safe
  <2>3. \/ call' = g
        \/ call' = [g EXCEPT !.stale = FALSE]
        \/ \E t : call' = [g EXCEPT !.todo = t]
        \/ \E i : call' = [g EXCEPT !.item = i, !.todo = @ \ {i}, !.k = 1]
    BY <1>4, <2>1
  <2>4. call'.req = call.req /\ call'.at = place /\ ~call'.stale
    BY <2>2, <2>3 DEF StepType, Idle
  <2>5. QED
    BY <1>1, <1>4, <2>4, Calm DEF NoStale, ExecPlaces, ItemPlaces
<1>5. CASE Verify
  <2>1. live = disk
    BY <1>5 DEF Verify, Idle, Held, Safe, Typed, Placed, IdleInStep, Synced
  <2>2. QED
    BY <1>2, <1>4, <1>5, <2>1 DEF Verify, Places
<1>6. CASE Select
  <2>1. call.at \in ExecPlaces
    BY <1>6, Zenon DEF Select, ExecPlaces
  <2>2. CASE call' = Goto("finish")
    BY <1>4, <2>1, <2>2 DEF Places
  <2>3. ASSUME NEW i \in call.todo,
               call' = [Goto("guard") EXCEPT !.item = i, !.todo = @ \ {i}, !.k = 1]
        PROVE  Linear'
    BY <1>4, <2>1, <2>3, Zenon DEF Places
  <2>4. QED
    BY <1>6, <2>2, <2>3 DEF Select
<1>7. CASE Guard \/ Apply \/ Replace
  <2>1. call.at \in ExecPlaces
    BY <1>7 DEF Guard, Apply, Replace, ExecPlaces, ItemPlaces
  <2>2. PICK place \in {"apply", "replace", "rename", "confirm", "block"} :
          call' = Goto(place) \/ call' = [Goto(place) EXCEPT !.stale = FALSE]
    BY <1>7 DEF Guard, Apply, Replace
  <2>3. place \in Places
    BY DEF Places
  <2>4. QED
    BY <1>4, <2>1, <2>2, <2>3
<1>8. CASE CompileRefuses \/ Reply
  BY <1>2, <1>3, <1>8 DEF CompileRefuses, Reply
<1>9. QED
  BY <1>5, <1>6, <1>7, <1>8

\* A head that no open group holds is of a saved group, or none of the program's.
LEMMA SnapshotKnown ==
    ASSUME Held, NEW m \in Mems
    PROVE  Known(disk, Snapshot(disk)[m])
<1>1. CASE m \in Blocked(disk)
  BY <1>1, AbsentKnown DEF Snapshot
<1>2. CASE m \notin Blocked(disk)
  <2> SUFFICES ASSUME NEW w \in Works, NEW i \in Items, NEW s \in 0..Limit, head[m] = <<w, i, s>>
               PROVE  disk.work[w].items[i].st = "saved" /\ disk.work[w].items[i].sub = s
    BY <1>2 DEF Snapshot, Known
  <2> DEFINE it == disk.work[w].items[i]
  <2>1. Holds(it, m, s)
    BY DEF Held, Safe, Ledgers, Sound, WrittenFrom
  <2>2. it.st \notin Unsure
    <3>1. ASSUME it.st \in Unsure PROVE FALSE
      <4>1. MemsOf(it, Unsure) = Range(it.group)
        BY <3>1 DEF MemsOf
      <4>2. m \in MemsOf(disk.work[w].items[i], Unsure)
        BY <2>1, <4>1 DEF Holds
      <4>3. QED
        BY <1>2, <4>2 DEF Blocked
    <3>2. QED
      BY <3>1
  <2>3. QED
    BY <2>1, <2>2 DEF Holds
<1>3. QED
  BY <1>1, <1>2

\* A call accepted with k as its work in memory.
LEMMA AcceptLinear ==
    ASSUME Held, Linear, NEW r \in Requests, NEW tool \in Tools, Accepted(r, tool),
           NEW k, NEW answer, NEW place \in {"answer", "charge"},
           live' = Put(disk, sent[r].work, k, r, answer), call' = Enter(r, place),
           UNCHANGED << head, disk, sent >>,
           \A m \in Mems : \/ k.snap[m] = disk.work[sent[r].work].snap[m]
                           \/ Known(disk, k.snap[m]),
           \A i \in Items : LET a == disk.work[sent[r].work].items[i]
                                b == k.items[i]
                            IN  /\ b.sub = a.sub /\ b.group = a.group /\ b.before = a.before
                                /\ b.marked \subseteq a.marked
    PROVE  Linear'
<1> DEFINE x == sent[r].work
           L == Put(disk, x, k, r, answer)
<1>1. call = Idle /\ live = disk /\ x \in Works /\ disk \in LedgerType
  BY AcceptedType DEF Accepted, Held, Safe, Typed, Placed, IdleInStep
<1>2. L.work[x] = k /\ \A w \in Works \ {x} : L.work[w] = disk.work[w]
  BY <1>1 DEF Put, LedgerType
<1> HIDE DEF L
<1>3. Follows(L)
  <2>1. ASSUME NEW w \in Works
        PROVE  /\ \A m \in Mems : \/ L.work[w].snap[m] = live.work[w].snap[m]
                                  \/ Known(disk, L.work[w].snap[m])
               /\ \A i \in Items : LET a == live.work[w].items[i]
                                       b == L.work[w].items[i]
                                   IN  /\ b.sub = a.sub /\ b.group = a.group /\ b.before = a.before
                                       /\ b.marked \subseteq a.marked
    BY <1>1, <1>2
  <2>2. QED
    BY <2>1, KeptItems DEF Linear
<1>4. Advance
  BY DEF Advance
<1>5. Lines(disk, head, disk)' /\ Lines(disk, head, live)'
  BY <1>3, <1>4, Followed DEF Linear, L
<1>6. BeforeAlike' /\ NoStale'
  BY DEF BeforeAlike, NoStale, Enter, ExecPlaces, ItemPlaces
<1>7. QED
  BY <1>5, <1>6 DEF Linear

LEMMA PrepareLinear ==
    ASSUME Held, Linear, NEW r \in Requests, PrepareNew(r) \/ PrepareRefresh(r)
    PROVE  Linear'
<1> DEFINE x == sent[r].work
           old == disk.work[x]
           snap == Snapshot(disk)
<1>1. PICK tool \in {"prepare", "refresh"} : Accepted(r, tool)
  BY DEF PrepareNew, PrepareRefresh
<1>2. old \in WorkType /\ x \in Works /\ tool \in Tools
  BY <1>1, AcceptedType DEF Held, Safe, Tools
<1>3. PICK k : live' = Put(disk, x, k, r, "answered") /\ k.snap = snap /\ k.items = old.items
  <2>1. CASE PrepareNew(r)
    <3> DEFINE n == [NoWork EXCEPT !.status = "pending", !.rev = 1, !.snap = snap]
    <3>1. live' = Put(disk, x, n, r, "answered") /\ old = NoWork
      BY <2>1 DEF PrepareNew
    <3> HIDE DEF snap
    <3>2. n.snap = snap /\ n.items = NoWork.items
      BY DEF NoWork
    <3> HIDE DEF n
    <3>3. QED
      BY <3>1, <3>2
  <2>2. CASE PrepareRefresh(r)
    <3> DEFINE v == old.rev + 1
               n == [old EXCEPT !.rev = v, !.snap = snap]
    <3>1. live' = Put(disk, x, n, r, "answered")
      BY <2>2 DEF PrepareRefresh
    <3> HIDE DEF snap
    <3>2. n.snap = snap /\ n.items = old.items
      BY <1>2 DEF WorkType
    <3> HIDE DEF n
    <3>3. QED
      BY <3>1, <3>2
  <2>3. QED
    BY <2>1, <2>2
<1>4. call' = Enter(r, "answer") /\ UNCHANGED << head, disk, sent >>
  BY DEF PrepareNew, PrepareRefresh
<1>5. \A m \in Mems : Known(disk, k.snap[m])
  BY <1>3, SnapshotKnown
<1>6. QED
  BY <1>1, <1>2, <1>3, <1>4, <1>5, AcceptLinear

LEMMA BeginSubmitLinear ==
    ASSUME Held, Linear, NEW r \in Requests, BeginSubmit(r)
    PROVE  Linear'
<1> DEFINE x == sent[r].work
           old == disk.work[x]
           u == old.used + 1
           v == old.rev + 1
           k == [old EXCEPT !.used = u, !.latest = sent[r].sub, !.rev = v, !.status = "submitted"]
<1>1. /\ Accepted(r, "submit") /\ "submit" \in Tools
      /\ live' = Put(disk, x, k, r, "open") /\ call' = Enter(r, "charge")
      /\ UNCHANGED << head, disk, sent >>
  BY DEF BeginSubmit, Tools
<1>2. old \in WorkType /\ x \in Works
  BY <1>1, AcceptedType DEF Held, Safe
<1> HIDE DEF u, v
<1>3. k.snap = old.snap /\ k.items = old.items
  BY <1>2 DEF WorkType
<1> HIDE DEF k
<1>4. QED
  BY <1>1, <1>3, AcceptLinear

LEMMA CancelLinear ==
    ASSUME Held, Linear, NEW r \in Requests, Cancel(r)
    PROVE  Linear'
<1> DEFINE x == sent[r].work
           old == disk.work[x]
           k == CancelWork(x, old)
<1>1. /\ Accepted(r, "cancel") /\ "cancel" \in Tools
      /\ live' = Put(disk, x, k, r, "answered") /\ call' = Enter(r, "answer")
      /\ UNCHANGED << head, disk, sent >>
  BY DEF Cancel, Tools
<1>2. old \in WorkType /\ x \in Works
  BY <1>1, AcceptedType DEF Held, Safe
<1>3. k.snap = old.snap /\ k.items = CancelledItems(x, old)
  BY <1>2 DEF CancelWork, WorkType
<1>4. ASSUME NEW i \in Items
      PROVE  /\ k.items[i].sub = old.items[i].sub /\ k.items[i].group = old.items[i].group
             /\ k.items[i].before = old.items[i].before
             /\ k.items[i].marked \subseteq old.items[i].marked
  <2>1. old.items[i] \in ItemType
    BY <1>2 DEF WorkType
  <2>2. k.items[i] = CancelItem(x, i, old.items[i])
    BY <1>3 DEF CancelledItems
  <2>3. QED
    BY <2>1, <2>2 DEF CancelItem, ItemType
<1> HIDE DEF k
<1>5. \A m \in Mems : k.snap[m] = disk.work[sent[r].work].snap[m]
  BY <1>3
<1>6. \A i \in Items : LET a == disk.work[sent[r].work].items[i]
                            b == k.items[i]
                        IN  /\ b.sub = a.sub /\ b.group = a.group /\ b.before = a.before
                            /\ b.marked \subseteq a.marked
  BY <1>4
<1>7. QED
  BY <1>1, <1>5, <1>6, AcceptLinear

-----------------------------------------------------------------------------
(* Compilation and saves. *)

\* The ledger in memory changes to L, and the file with it or not at all.
LEMMA SavedLinear ==
    ASSUME Held, Linear, Advance, NEW L, Follows(L), head' = head, disk' \in {disk, L},
           live' \in {disk', L}, call'.at \notin ExecPlaces, NoStale'
    PROVE  Linear'
<1>1. Lines(disk, head, disk)' /\ Lines(disk, head, live)'
  BY Followed DEF Linear
<1>2. BeforeAlike'
  BY DEF BeforeAlike
<1>3. QED
  BY <1>1, <1>2 DEF Linear

LEMMA SavesLinear ==
    ASSUME Held, Linear, Advance, SaveCharge \/ Publish \/ Answer
    PROVE  Linear'
<1>1. call # Idle /\ head' = head
  BY DEF SaveCharge, Publish, Answer, Idle
<1>2. PICK place \in {"compile", "verify"} :
        Save(live, Goto(place), Raise("io")) \/ Save(live, Idle, Idle)
  BY DEF SaveCharge, Publish, Answer
<1>3. disk' \in {disk, live} /\ live' \in {disk', live} /\ call' \in {Goto(place), Raise("io"), Idle}
  BY <1>2 DEF Save
<1>4. place \in Places /\ place \notin ExecPlaces
  BY DEF Places, ExecPlaces, ItemPlaces
<1>5. NoStale' /\ call'.at \notin ExecPlaces
  BY <1>1, <1>3, <1>4, GotoFields, RaiseFields, CallFields
     DEF Linear, NoStale, Held, Safe, ExecPlaces, ItemPlaces, Idle
<1>6. QED
  BY <1>1, <1>3, <1>5, LiveFollows, SavedLinear DEF Linear

\* The end of a call: k, with the items in hand, is the work in memory.
LEMMA EndsLinear ==
    ASSUME Held, Linear, Advance, Finish \/ Fail
    PROVE  Linear'
<1> DEFINE old == live.work[Work]
<1>1. call # Idle /\ head' = head
  BY DEF Finish, Fail, Idle
<1>2. old \in WorkType /\ Work \in Works
  BY <1>1, LiveFrame DEF Held, Safe
<1>3. PICK k : /\ k.items = old.items /\ k.snap = old.snap
               /\ LET L == Put(live, Work, k, call.req, "answered")
                  IN  \/ Save(L, IF Charged THEN Goto("reply") ELSE Idle, Raise("io"))
                      \/ Save(L, Idle, Idle)
  <2>1. CASE Finish
    <3> DEFINE d == Derived(old)
               n == IF Tool = "resume" THEN d.rev + 1 ELSE d.rev
               k == [d EXCEPT !.rev = n]
    <3>1. d \in WorkType /\ d.items = old.items /\ d.snap = old.snap
      BY <1>2, DerivedType DEF Derived, WorkType
    <3>2. Save(Put(live, Work, k, call.req, "answered"), IF Charged THEN Goto("reply") ELSE Idle,
               Raise("io"))
      BY <2>1 DEF Finish, Finished
    <3> HIDE DEF d, n
    <3>3. k.items = old.items /\ k.snap = old.snap
      BY <3>1 DEF WorkType
    <3> HIDE DEF k
    <3>4. QED
      BY <3>2, <3>3
  <2>2. CASE Fail
    <3> DEFINE k == IF call.error = "io" THEN old ELSE Downgraded(old)
    <3>1. k.items = old.items /\ k.snap = old.snap
      BY <1>2 DEF Downgraded, WorkType
    <3>2. Save(Put(live, Work, k, call.req, "answered"), Idle, Idle)
      BY <2>2 DEF Fail
    <3> HIDE DEF k
    <3>3. QED
      BY <3>1, <3>2
  <2>3. QED
    BY <2>1, <2>2
<1> DEFINE L == Put(live, Work, k, call.req, "answered")
<1>4. L.work[Work] = k /\ \A w \in Works \ {Work} : L.work[w] = live.work[w]
  BY <1>2 DEF Put, Held, Safe, Typed, TypeOK, LedgerType
<1>5. disk' \in {disk, L} /\ live' \in {disk', L} /\ call' \in {Goto("reply"), Raise("io"), Idle}
  BY <1>3 DEF Save
<1> HIDE DEF L
<1>6. Follows(L)
  <2>1. \A w \in Works : L.work[w].snap = live.work[w].snap /\ L.work[w].items = live.work[w].items
    BY <1>3, <1>4
  <2>2. QED
    BY <2>1, KeptItems DEF Linear
<1>7. NoStale' /\ call'.at \notin ExecPlaces
  BY <1>1, <1>5, GotoFields, RaiseFields, CallFields
     DEF Linear, NoStale, Held, Safe, ExecPlaces, ItemPlaces, Idle, Places
<1>8. QED
  BY <1>1, <1>5, <1>6, <1>7, SavedLinear

\* A group is frozen against known heads, under a number no head bears yet.
LEMMA CompiledFollows ==
    ASSUME Held, Linear, call.at = "compile", NEW ids \in SUBSET Items, NEW plan \in [ids -> Decision]
    PROVE  Follows(PutWork(WithDecisions(live.work[Work], plan)))
<1> DEFINE k == live.work[Work]
           n == WithDecisions(k, plan)
           L == PutWork(n)
           items == [i \in Items |-> IF i \in ids THEN Frozen(k, plan[i]) ELSE k.items[i]]
<1>1. call # Idle /\ live = disk /\ Undecided(k)
  BY DEF Idle, Held, Rest, Position, Pending
<1>2. Work \in Works /\ k \in WorkType /\ WorkKept(k)
  BY <1>1, LiveFrame DEF Held, Safe, Typed, Placed, Kept
<1>3. n.items = items /\ n.snap = k.snap
  BY <1>2 DEF WithDecisions, WorkType
<1> HIDE DEF n
<1>4. L.work[Work] = n /\ \A w \in Works \ {Work} : L.work[w] = live.work[w]
  BY <1>2 DEF PutWork, Held, Safe, Typed, TypeOK, LedgerType
<1> HIDE DEF L
<1>5. \A w \in Works, m \in Mems : /\ Known(disk, live.work[w].snap[m])
                                   /\ \A i \in Items : Known(disk, live.work[w].items[i].before[m])
  BY DEF Linear, Lines, AllKnown
<1>6. ASSUME NEW i \in ids, NEW m \in Mems
      PROVE  /\ n.items[i].before[m] \in {k.snap[m], Absent}
             /\ ~Wrote(head, Work, i, n.items[i], m)
  <2>1. n.items[i] = Frozen(k, plan[i])
    BY <1>3
  <2>2. /\ n.items[i].before[m] \in {k.snap[m], Absent} /\ n.items[i].marked = {}
        /\ n.items[i].sub = k.used
    BY <1>2, <2>1 DEF Frozen, WorkKept
  <2>3. ASSUME head[m] = <<Work, i, k.used>>
        PROVE  FALSE
    <3>1. k.used \in 0..Limit
      BY <1>2 DEF WorkType
    <3>2. Holds(disk.work[Work].items[i], m, k.used)
      BY <1>2, <2>3, <3>1 DEF Held, Safe, Ledgers, Sound, WrittenFrom
    <3>3. k.items[i].sub = k.used /\ k.items[i].sub < k.used
      BY <1>1, <3>2 DEF Holds, Undecided
    <3>4. QED
      BY <3>1, <3>3
  <2>4. QED
    BY <2>2, <2>3 DEF Wrote
<1>7. ASSUME NEW w \in Works, NEW m \in Mems
      PROVE  /\ Known(disk, L.work[w].snap[m])
             /\ \A i \in Items : Known(disk, L.work[w].items[i].before[m])
  <2>1. CASE w # Work
    BY <1>4, <1>5, <2>1
  <2>2. CASE w = Work
    <3>1. \A i \in Items \ ids : n.items[i] = k.items[i]
      BY <1>3
    <3>2. \A i \in ids : Known(disk, n.items[i].before[m])
      BY <1>2, <1>5, <1>6, AbsentKnown
    <3>3. QED
      BY <1>2, <1>3, <1>4, <1>5, <2>2, <3>1, <3>2
  <2>3. QED
    BY <2>1, <2>2
<1>8. AllKnown(disk, L)
  BY <1>7 DEF AllKnown
<1>9. ASSUME NEW w \in Works, NEW i \in Items, NEW m \in Range(L.work[w].items[i].group),
             Wrote(head, w, i, L.work[w].items[i], m)
      PROVE  L.work[w].items[i] = live.work[w].items[i]
  <2>1. CASE w = Work /\ i \in ids
    <3>1. n.items[i].group \in Groups \cup {<< >>}
      BY <1>3, <2>1 DEF Frozen, Decision
    <3>2. m \in Mems
      BY <1>4, <2>1, <3>1, GroupType
    <3>3. QED
      BY <1>4, <1>6, <1>9, <2>1, <3>2
  <2>2. CASE ~(w = Work /\ i \in ids)
    BY <1>3, <1>4, <2>2
  <2>3. QED
    BY <2>1, <2>2
<1>10. Follows(L)
  BY <1>8, <1>9 DEF Follows
<1>11. QED
  BY <1>10 DEF L, n

LEMMA CompileLinear ==
    ASSUME Held, Linear, CompileAll \/ CompileStops
    PROVE  Linear'
<1> DEFINE k == live.work[Work]
<1>1. call # Idle /\ call.at = "compile" /\ UNCHANGED << head, disk >>
  BY DEF CompileAll, CompileStops, Idle
<1>2. k \in WorkType
  BY <1>1, LiveFrame DEF Held, Safe
<1>3. \E ids \in SUBSET Items : \E plan \in [ids -> Decision] : live' = PutWork(WithDecisions(k, plan))
  <2>1. CASE CompileAll
    <3>1. PICK ids \in ItemSets(k) : \E plan \in [ids -> Decisions(k)] :
             live' = PutWork(WithDecisions(k, Deconflicted(plan)))
      BY <2>1 DEF CompileAll
    <3>2. PICK plan \in [ids -> Decisions(k)] :
             live' = PutWork(WithDecisions(k, Deconflicted(plan)))
      BY <3>1
    <3>3. ids \subseteq Items /\ Deconflicted(plan) \in [ids -> Decision]
      BY <3>2, ItemSetsType, DecisionsType, DeconflictedType
    <3>4. QED
      BY <3>2, <3>3
  <2>2. CASE CompileStops
    <3> DEFINE Stopped(done, stop, plan) ==
                   [i \in done \cup {stop} |->
                        IF i = stop THEN [st |-> "invalid", group |-> << >>] ELSE plan[i]]
               Taken(done, stop, plan) ==
                   \/ live' = PutWork(WithDecisions(k, plan))
                   \/ live' = PutWork(WithDecisions(k, Stopped(done, stop, plan)))
    <3>1. PICK ids \in ItemSets(k), stop \in Items :
             \E done \in SUBSET (ids \ {stop}) : \E plan \in [done -> Decisions(k)] :
                Taken(done, stop, plan)
      BY <2>2, Zenon DEF CompileStops
    <3>2. PICK done \in SUBSET (ids \ {stop}) : \E plan \in [done -> Decisions(k)] :
                Taken(done, stop, plan)
      BY <3>1, Zenon
    <3>3. PICK plan \in [done -> Decisions(k)] : Taken(done, stop, plan)
      BY <3>2, Zenon
    <3>4. done \subseteq Items /\ plan \in [done -> Decision]
      BY <3>3, ItemSetsType, DecisionsType
    <3>5. Stopped(done, stop, plan) \in [done \cup {stop} -> Decision]
      BY <3>4 DEF Decision
    <3>6. done \cup {stop} \in SUBSET Items /\ done \in SUBSET Items
      BY <3>4
    <3> HIDE DEF Stopped, k
    <3>7. QED
      BY <3>3, <3>4, <3>5, <3>6
  <2>3. QED
    BY <2>1, <2>2
<1>4. Follows(live')
  BY <1>1, <1>3, CompiledFollows
<1>5. call' \in {Goto("publish"), Raise("io"), Raise("validation")}
  BY Zenon DEF CompileAll, CompileStops
<1>6. NoStale' /\ call'.at \notin ExecPlaces
  BY <1>1, <1>5, GotoFields, RaiseFields, CallFields
     DEF Linear, NoStale, Held, Safe, ExecPlaces, ItemPlaces, Idle, Places
<1>7. Advance
  BY <1>1 DEF Advance
<1>8. QED
  BY <1>1, <1>4, <1>6, <1>7, SavedLinear

-----------------------------------------------------------------------------
(* The item in hand. *)

LEMMA ItemLinear ==
    ASSUME Held, Linear, Advance, call.at \in ItemPlaces, NEW it \in ItemType,
           it.sub = Item.sub, it.group = Item.group, it.before = Item.before,
           it.st \in Unsure \cup {"saved"},
           \A m \in it.marked : m \in Item.marked \/ head[m] = Op,
           NEW good, NEW bad, NEW L, L = PutItem(it), Save(L, good, bad), UNCHANGED << head, sent >>,
           \A c \in {good, bad} : c # Idle => c.req = call.req /\ ~c.stale
    PROVE  Linear'
<1>1. call # Idle /\ Work \in Works /\ call.item \in Items
  BY InHandType, InFlight DEF Held, Safe
<1>2. /\ \A w \in Works \ {Work} : L.work[w] = live.work[w]
      /\ L.work[Work].items[call.item] = it
      /\ \A i \in Items \ {call.item} : L.work[Work].items[i] = live.work[Work].items[i]
  BY PutItemFields DEF Held, Safe
<1>3. L.work[Work].snap = live.work[Work].snap
  BY <1>1 DEF PutItem, Held, Safe, Typed, TypeOK, LedgerType, WorkType
<1>4. \A w \in Works, i \in Items :
         LET a == live.work[w].items[i]
             b == L.work[w].items[i]
         IN  /\ b.sub = a.sub /\ b.group = a.group /\ b.before = a.before
             /\ \A m \in Mems : Wrote(head, w, i, b, m) => Wrote(head, w, i, a, m)
  BY <1>1, <1>2 DEF Item, Op, Wrote
<1>5. AllKnown(disk, live)
  BY DEF Linear, Lines
<1>6. AllKnown(disk, L)
  <2>1. \A w \in Works : L.work[w].snap = live.work[w].snap
    BY <1>2, <1>3
  <2>2. QED
    BY <1>4, <1>5, <2>1 DEF AllKnown
<1>7. \A w \in Works, i \in Items : Range(L.work[w].items[i].group) \subseteq Mems
  <2>1. \A w \in Works, i \in Items : Range(live.work[w].items[i].group) \subseteq Mems
    BY LedgerItem, GroupType DEF Held, Safe, Typed, TypeOK
  <2>2. QED
    BY <1>4, <2>1
<1>8. Follows(L)
  BY <1>4, <1>6, <1>7 DEF Follows
<1>9. disk' \in {disk, L} /\ live' \in {disk', L} /\ (call' # Idle => call'.req = call.req /\ live' = L)
  BY DEF Save
<1>10. Lines(disk, head, disk)' /\ Lines(disk, head, live)'
  BY <1>8, <1>9, Followed DEF Linear
<1>11. NoStale'
  BY DEF Save, NoStale
<1>12. BeforeAlike'
  <2>1. SUFFICES ASSUME call' # Idle, disk' = disk, NEW i \in Written(L.work[Work])
                 PROVE  disk.work[Work].items[i].before = L.work[Work].items[i].before
    <3>1. CASE call' = Idle
      BY <3>1 DEF BeforeAlike, Idle, ExecPlaces, ItemPlaces
    <3>2. CASE call' # Idle
      <4>1. Work' = Work /\ live' = L
        BY <1>9, <3>2 DEF Work
      <4>2. CASE disk' = L
        BY <4>1, <4>2 DEF BeforeAlike
      <4>3. CASE disk' = disk
        BY <3>2, <4>1, <4>3 DEF BeforeAlike
      <4>4. QED
        BY <1>9, <4>2, <4>3
    <3>3. QED
      BY <3>1, <3>2
  <2>2. call.item \in Written(live.work[Work])
    BY <1>1 DEF Held, Safe, Typed, Placed, HandHeld, Written, Item
  <2>3. i \in Written(live.work[Work])
    BY <1>2, <2>2 DEF Written
  <2>4. disk.work[Work].items[i].before = live.work[Work].items[i].before
    BY <2>3 DEF Linear, BeforeAlike, ExecPlaces
  <2>5. QED
    BY <1>1, <1>4, <2>1, <2>4 DEF Written
<1>13. QED
  BY <1>10, <1>11, <1>12 DEF Linear

\* Giving up on the item in hand.
LEMMA ToBlockLinear ==
    ASSUME Held, Linear, call.at \in ItemPlaces, call' = Goto("block"),
           UNCHANGED << head, disk, live, sent >>
    PROVE  Linear'
<1>1. call # Idle
  BY DEF Idle, ItemPlaces
<1>2. /\ Goto("block").req = call.req /\ ~Goto("block").stale
  BY <1>1, GotoFields, CallFields DEF Held, Safe, Places, Linear, NoStale
<1>3. QED
  BY <1>1, <1>2, Calm DEF ExecPlaces, NoStale

LEMMA ConfirmLinear ==
    ASSUME Held, Linear, Advance, Confirm
    PROVE  Linear'
<1> DEFINE it == [Item EXCEPT !.marked = @ \cup {Member}]
           c == NextMember
<1>1. call # Idle /\ call.at = "confirm" /\ call.at \in ItemPlaces \ {"block"}
      /\ UNCHANGED << head, sent >> /\ ~call.stale
  BY DEF Confirm, Idle, ItemPlaces, Linear, NoStale
<1>2. Item \in ItemType /\ Member \in Mems /\ call.item \in Items /\ call.k \in Nat
  BY <1>1, InHandType, InFlight DEF Held, Safe, Typed, Placed, HandHeld
<1>3. CASE call' = Goto("block") /\ UNCHANGED << disk, live >>
  BY <1>1, <1>3, ToBlockLinear
<1>4. CASE Applied(Work, call.item, Item, Member) = "yes" /\ Save(Marked, NextMember, Goto("block"))
  <2>1. /\ it \in ItemType /\ it.sub = Item.sub /\ it.group = Item.group
        /\ it.before = Item.before /\ it.st = Item.st /\ it.marked = Item.marked \cup {Member}
    BY <1>2 DEF ItemType
  <2>2. it.st \in Unsure
    BY <1>1, <2>1, HandUnsure
  <2>3. head[Member] = Op
    BY <1>4 DEF Applied, Op
  <2>4. Save(PutItem(it), c, Goto("block"))
    BY <1>4 DEF Marked
  <2>5. c.req = call.req /\ ~c.stale /\ Goto("block").req = call.req /\ ~Goto("block").stale
    BY <1>1, <1>2, NextMemberFields, GotoFields, CallFields DEF Held, Safe, Places
  <2> HIDE DEF it, c
  <2>6. QED
    BY <1>1, <2>1, <2>2, <2>3, <2>4, <2>5, ItemLinear
<1>5. QED
  BY <1>3, <1>4 DEF Confirm

LEMMA SettleLinear ==
    ASSUME Held, Linear, Advance, Settle
    PROVE  Linear'
<1> DEFINE it == [Item EXCEPT !.st = "saved", !.applied = "yes"]
           c == NextItem
<1>1. call # Idle /\ call.at \in ItemPlaces /\ UNCHANGED << head, sent >> /\ ~call.stale
  BY DEF Settle, Idle, ItemPlaces, Linear, NoStale
<1>2. Item \in ItemType
  BY <1>1, InHandType DEF Held, Safe
<1>3. CASE call' = Goto("block") /\ UNCHANGED << disk, live >>
  BY <1>1, <1>3, ToBlockLinear
<1>4. CASE Save(PutItem(it), c, Goto("block"))
  <2>1. /\ it \in ItemType /\ it.sub = Item.sub /\ it.group = Item.group
        /\ it.before = Item.before /\ it.st = "saved" /\ it.marked = Item.marked
    BY <1>2 DEF ItemType, Outcomes, Settled
  <2>2. c.req = call.req /\ ~c.stale /\ Goto("block").req = call.req /\ ~Goto("block").stale
    BY <1>1, LeaveItem, GotoFields, CallFields DEF Held, Safe, Places
  <2> HIDE DEF it, c
  <2>3. QED
    BY <1>1, <1>4, <2>1, <2>2, ItemLinear
<1>5. QED
  BY <1>3, <1>4 DEF Settle

LEMMA BlockLinear ==
    ASSUME Held, Linear, Advance, Block
    PROVE  Linear'
<1> DEFINE seen == GroupApplied(Work, call.item, Item)
           it == [Item EXCEPT !.st = "recovery_required", !.applied = seen]
           c == NextItem
<1>1. call # Idle /\ call.at \in ItemPlaces /\ UNCHANGED << head, sent >> /\ ~call.stale
  BY DEF Block, Idle, ItemPlaces, Linear, NoStale
<1>2. Item \in ItemType /\ seen \in {"yes", "no", "unknown"}
  BY <1>1, InHandType DEF Held, Safe, GroupApplied
<1>3. Save(PutItem(it), c, Raise("io"))
  BY DEF Block
<1> HIDE DEF seen
<1>4. /\ it \in ItemType /\ it.sub = Item.sub /\ it.group = Item.group
      /\ it.before = Item.before /\ it.st \in Unsure /\ it.marked = Item.marked
  BY <1>2 DEF ItemType, Outcomes, Unsure
<1>5. c.req = call.req /\ ~c.stale
  BY <1>1, LeaveItem, CallFields DEF Held, Safe
<1>6. Raise("io") # Idle => Raise("io").req = call.req /\ ~Raise("io").stale
  BY <1>1, RaiseFields, CallFields DEF Held, Safe
<1> HIDE DEF it, c
<1>7. QED
  BY <1>1, <1>3, <1>4, <1>5, <1>6, ItemLinear

\* A head is replaced: the group in hand is the first to replace it, and what
\* it writes is what no other one refers to.
LEMMA ReplacedLines ==
    ASSUME Held, Linear, call.at = "rename", head' = [head EXCEPT ![Member] = Op],
           NEW L, L \in {disk, live}
    PROVE  Lines(disk, head', L)
<1>1. call # Idle /\ call.at \in ItemPlaces /\ call.at \in ExecPlaces
  BY DEF Idle, ItemPlaces, ExecPlaces
<1>2. Work \in Works /\ call.item \in Items /\ Item \in ItemType /\ Member \in Mems
  BY <1>1, InHandType, InFlight DEF Held, Safe
<1>3. head[Member] = Item.before[Member]
  BY <1>1 DEF Held, Safe, Steps, Ready, Linear, NoStale
<1>4. /\ head \in [Mems -> Heads]
      /\ \A w \in Works, i \in Items : /\ L.work[w].items[i].sub \in 0..Limit
                                       /\ Range(L.work[w].items[i].group) \subseteq Mems
  <2>1. head \in [Mems -> Heads] /\ L \in LedgerType
    BY DEF Held, Safe, Typed, TypeOK
  <2>2. QED
    BY <2>1, LedgerItem, GroupType
<1>5. head'[Member] = Op /\ \A m \in Mems \ {Member} : head'[m] = head[m]
  BY <1>2, <1>4
<1>6. /\ AllKnown(disk, L) /\ Past(head, L) /\ Single(head, L)
  BY DEF Linear, Lines
<1> DEFINE mine == L.work[Work].items[call.item]
<1>7. mine.sub = Item.sub /\ mine.before = Item.before
  <2>1. call.item \in Written(live.work[Work])
    BY <1>1, <1>2 DEF Held, Safe, Typed, Placed, HandHeld, Written, Item
  <2>2. /\ disk.work[Work].items[call.item].sub = Item.sub
        /\ disk.work[Work].items[call.item].before = Item.before
    BY <1>1, <2>1 DEF Held, Safe, Steps, Alike, Linear, BeforeAlike, Item
  <2>3. QED
    BY <2>2 DEF Item
<1>8. \A w \in Works, i \in Items : L.work[w].items[i].before[Member] # Op
  <2>1. disk.work[Work].items[call.item].st # "saved"
    BY <1>1 DEF Held, Rest, Position, HandOpen, Undone, Unsure
  <2>2. Item.sub \in 0..Limit
    BY <1>2 DEF ItemType
  <2>3. ~Known(disk, Op)
    BY <1>2, <2>1, <2>2 DEF Known, Op
  <2>4. QED
    BY <1>2, <1>6, <2>3 DEF AllKnown
<1>9. ASSUME NEW w \in Works, NEW i \in Items, NEW m \in Mems,
             Wrote(head', w, i, L.work[w].items[i], m)
      PROVE  \/ Wrote(head, w, i, L.work[w].items[i], m)
             \/ m = Member /\ w = Work /\ i = call.item
  BY <1>4, <1>5, <1>9 DEF Wrote, Op
<1> HIDE DEF mine
<1>10. Past(head', L)
  <2> SUFFICES ASSUME NEW w \in Works, NEW i \in Items, NEW m \in Range(L.work[w].items[i].group),
                      Wrote(head', w, i, L.work[w].items[i], m)
               PROVE  head'[m] # L.work[w].items[i].before[m]
    BY DEF Past
  <2>1. m \in Mems
    BY <1>4
  <2>2. CASE m = Member
    BY <1>5, <1>8, <2>2
  <2>3. CASE m # Member
    BY <1>5, <1>6, <1>9, <2>1, <2>3 DEF Past
  <2>4. QED
    BY <2>2, <2>3
<1>11. Single(head', L)
  <2> SUFFICES ASSUME NEW p \in Works \X Items, NEW q \in Works \X Items, p # q,
                      NEW m \in Range(L.work[p[1]].items[p[2]].group)
                                \cap Range(L.work[q[1]].items[q[2]].group),
                      Wrote(head', p[1], p[2], L.work[p[1]].items[p[2]], m),
                      Wrote(head', q[1], q[2], L.work[q[1]].items[q[2]], m)
               PROVE  L.work[p[1]].items[p[2]].before[m] # L.work[q[1]].items[q[2]].before[m]
    BY DEF Single
  <2> DEFINE a == L.work[p[1]].items[p[2]]
             b == L.work[q[1]].items[q[2]]
  <2>1. /\ p[1] \in Works /\ p[2] \in Items /\ q[1] \in Works /\ q[2] \in Items
        /\ p = <<p[1], p[2]>> /\ q = <<q[1], q[2]>>
    OBVIOUS
  <2>2. m \in Mems
    BY <1>4, <2>1
  <2>3. /\ Wrote(head, p[1], p[2], a, m) \/ (m = Member /\ p[1] = Work /\ p[2] = call.item)
        /\ Wrote(head, q[1], q[2], b, m) \/ (m = Member /\ q[1] = Work /\ q[2] = call.item)
    BY <1>9, <2>1, <2>2
  <2>4. /\ m = Member /\ p[1] = Work /\ p[2] = call.item => a.before[m] = head[m]
        /\ m = Member /\ q[1] = Work /\ q[2] = call.item => b.before[m] = head[m]
    BY <1>3, <1>7 DEF mine
  <2>5. /\ Wrote(head, p[1], p[2], a, m) => head[m] # a.before[m]
        /\ Wrote(head, q[1], q[2], b, m) => head[m] # b.before[m]
    BY <1>6, <2>1 DEF Past
  <2>6. Wrote(head, p[1], p[2], a, m) /\ Wrote(head, q[1], q[2], b, m) => a.before[m] # b.before[m]
    BY <1>6, <2>1 DEF Single
  <2>7. ~(p[1] = Work /\ p[2] = call.item /\ q[1] = Work /\ q[2] = call.item)
    BY <2>1
  <2>8. QED
    BY <2>3, <2>4, <2>5, <2>6, <2>7
<1>12. QED
  BY <1>6, <1>10, <1>11 DEF Lines

LEMMA RenameLinear ==
    ASSUME Held, Linear, Rename
    PROVE  Linear'
<1>1. /\ call # Idle /\ call.at = "rename" /\ call.at \in ItemPlaces
      /\ UNCHANGED << disk, live, sent >> /\ ~call.stale
  BY DEF Rename, Idle, ItemPlaces, Linear, NoStale
<1>2. PICK place \in {"confirm", "block"} : call' = [Goto(place) EXCEPT !.stale = FALSE]
  BY DEF Rename
<1>3. PICK g \in StepType \ {Idle} : g = Goto(place)
  BY <1>1, GotoFields DEF Held, Safe, Places
<1>4. g.req = call.req /\ g.at = place
  BY <1>1, <1>3, GotoFields DEF Held, Safe, Places
<1>5. call'.req = call.req /\ call'.at = place /\ ~call'.stale
  BY <1>2, <1>3, <1>4 DEF StepType, Idle
<1>6. CASE head' = head
  BY <1>1, <1>5, <1>6, Calm DEF NoStale, ExecPlaces
<1>7. CASE head' = [head EXCEPT ![Member] = Op]
  <2>1. Lines(disk, head', disk) /\ Lines(disk, head', live)
    BY <1>1, <1>7, ReplacedLines
  <2>2. BeforeAlike'
    BY <1>1, <1>5 DEF Linear, BeforeAlike, ExecPlaces, Work
  <2>3. QED
    BY <1>1, <1>5, <2>1, <2>2 DEF Linear, NoStale
<1>8. QED
  BY <1>6, <1>7 DEF Rename

-----------------------------------------------------------------------------
LEMMA LinearNext == Held /\ Linear /\ [Next]_vars /\ edits' = edits => Linear'
<1> SUFFICES ASSUME Held, Linear, [Next]_vars, edits' = edits PROVE Linear'
  OBVIOUS
<1>1. Advance
  BY RestNext
<1>2. CASE \/ \E r \in Requests, t \in Tools, w \in Works : Send(r, t, w)
           \/ Crash
  BY <1>2, OutsideLinear
<1>3. ASSUME NEW r \in Requests, Deliver(r)
      PROVE  Linear'
  BY <1>3, OutsideLinear, PrepareLinear, BeginSubmitLinear, CancelLinear DEF Deliver
<1>4. CASE SaveCharge \/ CompileRefuses \/ CompileAll \/ CompileStops \/ Publish
  BY <1>1, <1>4, SavesLinear, StillLinear, CompileLinear
<1>5. CASE \/ Verify \/ Select \/ Guard \/ Apply \/ Replace \/ Rename \/ Confirm
           \/ Settle \/ Block
  BY <1>1, <1>5, StillLinear, RenameLinear, ConfirmLinear, SettleLinear, BlockLinear
<1>6. CASE Finish \/ Reply \/ Fail \/ Answer
  BY <1>1, <1>6, EndsLinear, StillLinear, SavesLinear
<1>7. ASSUME NEW m \in Mems, NEW v \in ExtRevs \cup {Absent}, ExternalEdit(m, v)
      PROVE  FALSE
  BY <1>7 DEF ExternalEdit, Held, Safe, Typed, TypeOK
<1>8. CASE UNCHANGED vars
  <2>1. UNCHANGED << head, disk, live, call, sent >>
    BY <1>8 DEF vars
  <2>2. QED
    BY <2>1 DEF Linear, BeforeAlike, NoStale, Work
<1>9. QED
  BY <1>2, <1>3, <1>4, <1>5, <1>6, <1>7, <1>8 DEF Next, Service

LEMMA AlwaysStraight == Spec => []Straight
<1>1. Init => Straight
  BY TypedInit, SafeInit, HeldInit, LinearInit DEF Straight, Held, Safe
<1>2. Straight /\ [Next]_vars => Straight'
  <2> SUFFICES ASSUME Straight, [Next]_vars PROVE Straight'
    OBVIOUS
  <2>1. Held'
    BY SafeNext, RestNext DEF Straight, Held
  <2>2. edits' = 0 => edits = 0 /\ edits' = edits
    <3>1. edits \in Nat
      BY BoundsAssumption DEF Straight, Held, Safe, Typed, TypeOK
    <3>2. edits' \in {edits, edits + 1}
      BY DEF Next, vars, Service, Deliver, Send, ExternalEdit, Crash, PrepareNew, PrepareRefresh,
             BeginSubmit, BeginResume, Cancel, SaveCharge, CompileRefuses, CompileAll, CompileStops,
             Publish, Verify, Select, Guard, Apply, Replace, Rename, Confirm, Settle, Block, Finish,
             Reply, Fail, Answer
    <3>3. QED
      BY <3>1, <3>2
  <2>3. edits' = 0 => Linear'
    BY <2>2, LinearNext DEF Straight
  <2>4. QED
    BY <2>1, <2>3 DEF Straight
<1>3. QED
  BY <1>1, <1>2, PTL DEF Spec

\* As long as no person has edited a file, works that were prepared on the
\* same head do not fork it: of two saved groups that share a memory, no two
\* replaced the same revision (write_frozen_unlocked compares the head, and
\* the Vault lock is held from that comparison to the rename).
THEOREM OneLine == Spec => [](edits = 0 => NoFork)
<1>1. Straight => (edits = 0 => NoFork)
  <2> SUFFICES ASSUME Held, Linear,
                      NEW p \in Works \X Items, NEW q \in Works \X Items, p # q,
                      disk.work[p[1]].items[p[2]].st = "saved",
                      disk.work[q[1]].items[q[2]].st = "saved",
                      NEW m \in Range(disk.work[p[1]].items[p[2]].group)
                                \cap Range(disk.work[q[1]].items[q[2]].group)
               PROVE  disk.work[p[1]].items[p[2]].before[m] # disk.work[q[1]].items[q[2]].before[m]
    BY DEF Straight, NoFork
  <2>1. p[1] \in Works /\ p[2] \in Items /\ q[1] \in Works /\ q[2] \in Items
    OBVIOUS
  <2>2. /\ ItemWhole(disk.work[p[1]].items[p[2]], hist)
        /\ ItemWhole(disk.work[q[1]].items[q[2]], hist)
    BY <2>1 DEF Held, Safe, Ledgers, Sound, Whole
  <2>3. /\ Wrote(head, p[1], p[2], disk.work[p[1]].items[p[2]], m)
        /\ Wrote(head, q[1], q[2], disk.work[q[1]].items[q[2]], m)
    BY <2>2 DEF ItemWhole, Wrote
  <2>4. QED
    BY <2>3 DEF Linear, Lines, Single
<1>2. QED
  BY <1>1, AlwaysStraight, PTL
=============================================================================
