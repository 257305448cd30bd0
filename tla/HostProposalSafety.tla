------------------------- MODULE HostProposalSafety -------------------------
(* What one work of an agent may change, as theorems on HostProposal.  A     *)
(* plan is right from its compilation on: what it says is about the revision *)
(* that it was compiled from, so neither later writes nor edits touch it.    *)
EXTENDS HostProposal, FiniteSetTheorems, TLAPS

-----------------------------------------------------------------------------

IsWork(w) ==
    w = [targets |-> w.targets, fields |-> w.fields, fragments |-> w.fragments, guard |-> w.guard,
         policy |-> w.policy, used |-> w.used, items |-> w.items, removed |-> w.removed,
         status |-> w.status, terminal |-> w.terminal]

IsEntry(e) ==
    e = [action |-> e.action, status |-> e.status, mems |-> e.mems, refs |-> e.refs, plan |-> e.plan]

Changes(p) == ToSet(p.changes)

Said(p) == "user" \in Roles({b \in p.quotes : Quoted(b)})

(* What a plan of action a is, from its compilation on. *)

\* What a patch takes out, a merge or a compaction was shown.
PlanRead(a, p) ==
    \A c \in Changes(p) : c.before # None =>
        \A f \in FragmentsOf(c.before.body) :
            \/ a \in {"MERGE", "COMPACT"}
            \/ a = "patch" /\ Positions(c.before.body, f) \cap p.ranges # {}
            => << c.memory, c.before, f >> \in shown

PlanKeeps(a, p) ==
    a = "patch" => \A c \in Changes(p) : p.ranges # {} => p.ranges # 1..Len(c.before.body)

PlanSaid(p) ==
    \A c \in Changes(p) :
        /\ c.before # None /\ c.after.merged_into = None
        /\ \/ c.before.validity # c.after.validity
           \/ c.before.status \in {"completed", "cancelled"} /\ c.after.status = "active"
        => Said(p)

PlanSense(a, p) ==
    \A c \in Changes(p) : c.after.validity = "valid" /\ a # "COMPACT" =>
        /\ Actionable(c.after) => c.after.status # None
        /\ c.after.completed_at # None => c.after.status = "completed"
        /\ c.after.due_date # None /\ (c.before = None \/ c.before.due_date # c.after.due_date) =>
            (\E b \in p.quotes : Day(b) = c.after.due_date) \/ a = "MERGE"

PlanMerges(a, p) ==
    a = "MERGE" /\ Changes(p) # {} =>
        LET survivor == CHOOSE c \in Changes(p) : c.after.merged_into = None
            befores == {c.before : c \in Changes(p)} IN
        /\ UNION {m.scopes : m \in befores} \subseteq survivor.after.scopes
        /\ (\E m \in befores : m.explicit) => survivor.after.explicit
        /\ (\E n \in Scalars : \E m \in befores : m[n] # survivor.after[n]) => Said(p)
        /\ \A c \in Changes(p) \ {survivor} : c.after.merged_into = survivor.memory

\* What it changes, at most once each: no alias, and it makes none but of its own survivor.
Retired(c, p) ==
    /\ c.after.validity = "retracted" /\ c.after.merged_into \in Mems \ {c.memory}
    /\ \E d \in Changes(p) : d.memory = c.after.merged_into /\ d.after.merged_into = None

PlanChanges(p) ==
    /\ \A c \in Changes(p) :
        /\ c.memory \in Mems \ W.native
        /\ c.before # None => c.before.merged_into = None
        /\ IsHead(c.after) /\ (c.after.merged_into = None \/ Retired(c, p))
    /\ \A c, d \in Changes(p) : c.memory = d.memory => c = d

PlanRight(a, p) ==
    /\ PlanRead(a, p) /\ PlanKeeps(a, p) /\ PlanSaid(p) /\ PlanSense(a, p) /\ PlanMerges(a, p)
    /\ PlanChanges(p)

Live == {"prepared", "recovery_required", "saved"}

EntryRight(e) ==
    /\ IsEntry(e) /\ PlanRight(e.action, e.plan) /\ ChangedBy(e.plan) \subseteq e.mems
    /\ Changes(e.plan) # {} => e.status \in Live
    /\ e.status = "not_recorded" => W.purpose # "explicit"

Entered(items) == \A i \in DOMAIN items : EntryRight(items[i])

Disjoint(items) ==
    \A i, j \in DOMAIN items : i # j => ChangedBy(items[i].plan) \cap ChangedBy(items[j].plan) = {}

Whole(items) ==
    DOMAIN items # {} => DOMAIN W.sources \ W.covered \subseteq UNION {items[i].refs : i \in DOMAIN items}

ItemsRight(items) == Entered(items) /\ Disjoint(items) /\ Whole(items)

\* What was read is what was there, and until something is written it still is.
ReadOf(targets, fragments) ==
    /\ DOMAIN targets = Mems /\ DOMAIN fragments = Mems
    /\ \A m \in Mems :
        /\ targets[m] # None => IsHead(targets[m])
        /\ \A f \in fragments[m] : << m, targets[m], f >> \in shown
        /\ fresh /\ targets[m] # None => targets[m] = mem[m]

WorkRight(w) ==
    /\ IsWork(w) /\ ReadOf(w.targets, w.fragments) /\ ItemsRight(w.items)
    /\ w.status = "completed" => DOMAIN w.items # {}

Heads == DOMAIN mem = Mems /\ \A m \in Mems : mem[m] # None => IsHead(mem[m])

Inv ==
    /\ world \in DOMAIN Worlds /\ edits \in Nat
    /\ Heads /\ AliasesStay /\ RefreshHelps
    /\ work # None => WorkRight(work)

-----------------------------------------------------------------------------
(* Plans in general. *)

LEMMA PlanFields ==
    ASSUME NEW c, NEW q, NEW r, NEW m, NEW s
    PROVE  LET p == Plan(c, q, r, m, s) IN
           /\ p.changes = c /\ p.quotes = q /\ p.mems = m /\ p.ranges = s
           /\ p.refs = r \cup {b.source : b \in q}
BY DEF Plan

LEMMA Singly == ASSUME NEW c PROVE ToSet(<< c >>) = {c}
BY DEF ToSet

LEMMA None0 == ToSet(<< >>) = {}
BY DEF ToSet

LEMMA WorldSame == ASSUME UNCHANGED world PROVE W' = W
BY DEF W

LEMMA SaidSame == ASSUME NEW p, UNCHANGED world, Said(p) PROVE Said(p)'
<1>1. W' = W
  BY WorldSame
<1>2. \A b : Quoted(b) => Quoted(b)'
  BY <1>1 DEF Quoted, Occurrences
<1>3. PICK b \in {b \in p.quotes : Quoted(b)} : Role(b.source) = "user"
  BY DEF Said, Roles
<1>4. Role(b.source)' = "user" /\ b \in {k \in p.quotes : Quoted(k)'}
  BY <1>1, <1>2, <1>3 DEF Role
<1>5. QED
  BY <1>4 DEF Said, Roles

LEMMA PlanSame ==
    ASSUME NEW a, NEW p, UNCHANGED world, shown \subseteq shown', PlanRight(a, p)
    PROVE  PlanRight(a, p)'
<1>1. W' = W
  BY WorldSame
<1>2. PlanRead(a, p)'
  BY DEF PlanRight, PlanRead
<1>3. PlanKeeps(a, p)'
  BY DEF PlanRight, PlanKeeps
<1>4. PlanSaid(p)' /\ PlanMerges(a, p)'
  BY SaidSame DEF PlanRight, PlanSaid, PlanMerges
<1>5. PlanSense(a, p)'
  <2>1. \A b : Day(b)' = Day(b)
    BY <1>1 DEF Day
  <2>2. QED
    BY <2>1 DEF PlanRight, PlanSense
<1>6. PlanChanges(p)'
  BY <1>1 DEF PlanRight, PlanChanges, Retired
<1>7. QED
  BY <1>2, <1>3, <1>4, <1>5, <1>6 DEF PlanRight

\* A plan that changes nothing.
LEMMA IdleRight == ASSUME NEW a, NEW p, Changes(p) = {} PROVE PlanRight(a, p)
BY DEF PlanRight, PlanRead, PlanKeeps, PlanSaid, PlanSense, PlanMerges, PlanChanges

\* The user said it, if all of its quotes are quotes and one of them is the user's.
LEMMA Saying ==
    ASSUME NEW p, NEW q \in SUBSET p.quotes, \A b \in q : Quoted(b), "user" \in Roles(q)
    PROVE  Said(p)
BY DEF Said, Roles

LEMMA WithFields ==
    ASSUME NEW v, NEW f, DOMAIN f \subseteq Proposable, IsHead(v)
    PROVE  LET n == With(v, f) IN
           /\ IsHead(n) /\ n.validity = v.validity /\ n.merged_into = v.merged_into
           /\ \A k \in DOMAIN Blank : n[k] = IF k \in DOMAIN f THEN f[k] ELSE v[k]
BY DEF With, Proposable, IsHead, Blank

-----------------------------------------------------------------------------
(* compile_item: what each action becomes is right. *)

\* A plan of one change, which is right.
OneChange(a, p, m, x, y) ==
    /\ p.changes = << Change(m, x, y) >> /\ a # "MERGE"
    /\ x # None => x.merged_into = None
    /\ IsHead(y) /\ y.merged_into = None
    /\ x # None => \A f \in FragmentsOf(x.body) :
            a = "COMPACT" \/ (a = "patch" /\ Positions(x.body, f) \cap p.ranges # {})
            => << m, x, f >> \in shown
    /\ a = "patch" /\ p.ranges # {} => p.ranges # 1..Len(x.body)
    /\ x # None /\ (x.validity # y.validity
                    \/ (x.status \in {"completed", "cancelled"} /\ y.status = "active")) => Said(p)
    /\ y.validity = "valid" /\ a # "COMPACT" =>
            /\ Actionable(y) => y.status # None
            /\ y.completed_at # None => y.status = "completed"
            /\ y.due_date # None /\ (x = None \/ x.due_date # y.due_date) =>
                    \E b \in p.quotes : Day(b) = y.due_date

LEMMA OneRight ==
    ASSUME NEW a, NEW p, NEW m \in Mems \ W.native, NEW x, NEW y, OneChange(a, p, m, x, y)
    PROVE  PlanRight(a, p) /\ ChangedBy(p) = {m}
<1> USE DEF OneChange
<1>1. PICK c : c = Change(m, x, y)
  OBVIOUS
<1>2. c.memory = m /\ c.before = x /\ c.after = y
  BY <1>1 DEF Change
<1>3. Changes(p) = {c}
  BY <1>1, Singly DEF Changes
<1>4. ChangedBy(p) = {m}
  BY <1>2, <1>3 DEF ChangedBy, Changes
<1>5. PlanRead(a, p) /\ PlanKeeps(a, p)
  BY <1>2, <1>3 DEF PlanRead, PlanKeeps
<1>6. PlanSaid(p) /\ PlanMerges(a, p)
  BY <1>2, <1>3 DEF PlanSaid, PlanMerges
<1>7. PlanSense(a, p)
  BY <1>2, <1>3 DEF PlanSense
<1>8. PlanChanges(p)
  BY <1>2, <1>3 DEF PlanChanges
<1>9. QED
  BY <1>4, <1>5, <1>6, <1>7, <1>8 DEF PlanRight

LEMMA TargetKnown ==
    ASSUME WorkRight(work), NEW m \in Mems, Target(m, TRUE)
    PROVE  /\ work.targets[m] # None /\ IsHead(work.targets[m]) /\ m \notin W.native
           /\ work.targets[m].merged_into = None
           /\ \A f \in work.fragments[m] : << m, work.targets[m], f >> \in shown
BY DEF WorkRight, ReadOf, Target, WritableTarget

LEMMA EvidenceSaid ==
    ASSUME NEW q, NEW assertion, Evidence(q, TRUE, assertion)
    PROVE  (\A b \in q : Quoted(b)) /\ "user" \in Roles(q)
BY DEF Evidence

LEMMA EvidenceQuoted ==
    ASSUME NEW q, NEW user, NEW assertion, Evidence(q, user, assertion)
    PROVE  \A b \in q : Quoted(b)
BY DEF Evidence

\* A due date is on a day that one of the quotes names.
LEMMA DueNamed ==
    ASSUME NEW item, NEW fields, NEW quotes, NEW user, FieldBasis(item, fields, quotes, user),
           "due_date" \in DOMAIN fields, fields["due_date"] # None
    PROVE  \E b \in quotes \cup BasisQuotes(item) : Day(b) = fields["due_date"]
<1>1. PICK b \in SelectedFor(item, "due_date", quotes) : Day(b) = fields["due_date"]
  BY DEF FieldBasis
<1>2. b \in quotes \cup BasisQuotes(item)
  BY <1>1 DEF SelectedFor, BasisQuotes
<1>3. QED
  BY <1>1, <1>2

LEMMA CreateRight ==
    ASSUME NEW i \in Mems \ W.native, NEW item, WellFormed(item), CreateAdmitted(item)
    PROVE  PlanRight("CREATE", CreatePlan(i, item)) /\ ChangedBy(CreatePlan(i, item)) = {i}
<1> DEFINE p == CreatePlan(i, item)
<1>1. PICK w : w = With(Blank, item.fields)
  OBVIOUS
<1>2. /\ IsHead(w) /\ w.merged_into = None
      /\ w.due_date = IF "due_date" \in DOMAIN item.fields THEN item.fields["due_date"] ELSE None
  <2>1. IsHead(Blank) /\ Blank.merged_into = None /\ Blank.due_date = None /\ "due_date" \in DOMAIN Blank
    BY DEF IsHead, Blank
  <2>2. DOMAIN item.fields \subseteq Proposable
    BY DEF WellFormed
  <2>3. QED
    BY <1>1, <2>1, <2>2, WithFields
<1>3. PICK y : y = NewMemory(item)
  OBVIOUS
<1>4. /\ IsHead(y) /\ y.merged_into = None /\ y.due_date = w.due_date
  BY <1>1, <1>2, <1>3 DEF NewMemory, IsHead, Blank
<1>5. p.changes = << Change(i, None, y) >> /\ p.quotes = item.evidence \cup BasisQuotes(item)
  BY <1>3, PlanFields DEF CreatePlan
<1>6. /\ Actionable(y) => y.status # None
      /\ y.completed_at # None => y.status = "completed"
  BY <1>3 DEF CreateAdmitted, TaskState
<1>7. y.due_date # None => \E b \in p.quotes : Day(b) = y.due_date
  <2>1. FieldBasis(item, item.fields, item.evidence, FALSE)
    BY DEF CreateAdmitted
  <2>2. ASSUME "due_date" \in DOMAIN item.fields, item.fields["due_date"] # None
        PROVE  \E b \in p.quotes : Day(b) = item.fields["due_date"]
    <3>1. \E b \in item.evidence \cup BasisQuotes(item) : Day(b) = item.fields["due_date"]
      BY <2>1, <2>2, DueNamed
    <3>2. QED
      BY <1>5, <3>1
  <2>3. QED
    BY <1>2, <1>4, <2>2
<1> HIDE DEF p
<1>8. OneChange("CREATE", p, i, None, y)
  BY <1>4, <1>5, <1>6, <1>7 DEF OneChange
<1>9. QED
  BY <1>8, OneRight DEF p

LEMMA RetractRight ==
    ASSUME WorkRight(work), NEW item, WellFormed(item), item.target \in Mems, RetractAdmitted(item)
    PROVE  PlanRight("retract_memory", RetractPlan(item)) /\ ChangedBy(RetractPlan(item)) = {item.target}
<1> DEFINE p == RetractPlan(item)
           m == item.target
           x == work.targets[m]
<1>1. x # None /\ IsHead(x) /\ m \notin W.native /\ x.merged_into = None
  BY TargetKnown DEF RetractAdmitted
<1>2. PICK y : y = [x EXCEPT !.body = << >>, !.validity = "retracted"]
  OBVIOUS
<1>3. IsHead(y) /\ y.merged_into = None /\ y.validity = "retracted"
  BY <1>1, <1>2 DEF IsHead, Blank
<1>4. p.changes = << Change(m, x, y) >> /\ p.quotes = item.evidence
  BY <1>2, PlanFields DEF RetractPlan
<1>5. Said(p)
  BY <1>4, EvidenceSaid, Saying DEF RetractAdmitted
<1> HIDE DEF p, x, m
<1>6. m \in Mems
  BY DEF m
<1>7. PlanRight("retract_memory", p) /\ ChangedBy(p) = {m}
  <2>1. m \in Mems \ W.native
    BY <1>1, <1>6
  <2>2. y.validity # "valid"
    BY <1>3
  <2>3. PICK a : a = "retract_memory"
    OBVIOUS
  <2>4. a # "MERGE" /\ a # "patch" /\ a # "COMPACT"
    BY <2>3
  <2>5. OneChange(a, p, m, x, y)
    BY <1>1, <1>3, <1>4, <1>5, <2>2, <2>4 DEF OneChange
  <2>6. QED
    BY <2>1, <2>3, <2>5, OneRight
<1>8. QED
  BY <1>7 DEF p, m

LEMMA WithDue ==
    ASSUME NEW v, NEW f, DOMAIN f \subseteq Proposable, IsHead(v)
    PROVE  /\ With(v, f).due_date = IF "due_date" \in DOMAIN f THEN f["due_date"] ELSE v.due_date
           /\ With(v, f).status = IF "status" \in DOMAIN f THEN f["status"] ELSE v.status
<1>1. "due_date" \in DOMAIN Blank /\ "status" \in DOMAIN Blank
  BY DEF Blank
<1>2. QED
  BY <1>1, WithFields

LEMMA RestoreRight ==
    ASSUME WorkRight(work), NEW item, WellFormed(item), item.action = "restore", RestoreAdmitted(item)
    PROVE  PlanRight("restore", RestorePlan(item)) /\ ChangedBy(RestorePlan(item)) = {item.target}
<1> DEFINE p == RestorePlan(item)
           m == item.target
           x == work.targets[m]
<1>0. m \in Mems /\ DOMAIN item.fields \subseteq Proposable /\ DOMAIN item.basis = {}
  BY DEF WellFormed
<1>1. x # None /\ IsHead(x) /\ m \notin W.native /\ x.merged_into = None
  BY <1>0, TargetKnown DEF RestoreAdmitted
<1>2. PICK w : w = With(x, item.fields)
  OBVIOUS
<1>3. /\ IsHead(w) /\ w.merged_into = None
      /\ w.due_date = IF "due_date" \in DOMAIN item.fields THEN item.fields["due_date"] ELSE x.due_date
  BY <1>0, <1>1, <1>2, WithFields, WithDue
<1>4. PICK y : y = [w EXCEPT !.body = item.body, !.validity = "valid"]
  OBVIOUS
<1>5. IsHead(y) /\ y.merged_into = None /\ y.due_date = w.due_date
  BY <1>3, <1>4 DEF IsHead, Blank
<1>6. y = RestoreValue(item)
  BY <1>2, <1>4 DEF RestoreValue
<1>7. p.changes = << Change(m, x, y) >> /\ p.quotes = item.evidence
  BY <1>6, PlanFields DEF RestorePlan
<1>8. Said(p)
  BY <1>7, EvidenceSaid, Saying DEF RestoreAdmitted
<1>9. /\ Actionable(y) => y.status # None
      /\ y.completed_at # None => y.status = "completed"
  BY <1>6 DEF RestoreAdmitted, TaskState
<1>10. y.due_date # None /\ x.due_date # y.due_date => \E b \in p.quotes : Day(b) = y.due_date
  <2>1. FieldBasis(item, item.fields, item.evidence, TRUE)
    BY DEF RestoreAdmitted
  <2>2. BasisQuotes(item) = {}
    BY <1>0 DEF BasisQuotes
  <2>3. "due_date" \in DOMAIN item.fields /\ item.fields["due_date"] # None =>
            \E b \in item.evidence \cup BasisQuotes(item) : Day(b) = item.fields["due_date"]
    BY <2>1, DueNamed
  <2>4. QED
    BY <1>3, <1>5, <1>7, <2>2, <2>3
<1> HIDE DEF p, x, m
<1>11. PICK a : a = "restore"
  OBVIOUS
<1>12. a # "MERGE" /\ a # "patch" /\ a # "COMPACT"
  BY <1>11
<1>13. m \in Mems \ W.native
  BY <1>0, <1>1 DEF m
<1>14. OneChange(a, p, m, x, y)
  BY <1>1, <1>5, <1>7, <1>8, <1>9, <1>10, <1>12 DEF OneChange
<1>15. QED
  BY <1>11, <1>13, <1>14, OneRight DEF p, m

LEMMA CompactRight ==
    ASSUME WorkRight(work), NEW item, WellFormed(item), item.target \in Mems, CompactAdmitted(item)
    PROVE  PlanRight("COMPACT", CompactPlan(item)) /\ ChangedBy(CompactPlan(item)) = {item.target}
<1> DEFINE p == CompactPlan(item)
           m == item.target
           x == work.targets[m]
<1>1. /\ x # None /\ IsHead(x) /\ m \notin W.native /\ x.merged_into = None
      /\ \A f \in work.fragments[m] : << m, x, f >> \in shown
  BY TargetKnown DEF CompactAdmitted
<1>2. \A f \in FragmentsOf(x.body) : << m, x, f >> \in shown
  BY <1>1 DEF CompactAdmitted, FullyRead
<1>3. PICK y : y = [x EXCEPT !.body = item.body]
  OBVIOUS
<1>4. IsHead(y) /\ y.merged_into = None /\ y.validity = x.validity /\ y.status = x.status
  BY <1>1, <1>3 DEF IsHead, Blank
<1>5. p.changes = << Change(m, x, y) >>
  BY <1>3, PlanFields DEF CompactPlan
<1> HIDE DEF p, x, m
<1>6. m \in Mems \ W.native
  BY <1>1 DEF m
<1>7. PICK a : a = "COMPACT"
  OBVIOUS
<1>8. a # "MERGE" /\ a # "patch"
  BY <1>7
<1>9. ~(x.validity # y.validity \/ (x.status \in {"completed", "cancelled"} /\ y.status = "active"))
  BY <1>4
<1>10. OneChange(a, p, m, x, y)
  BY <1>1, <1>2, <1>4, <1>5, <1>7, <1>8, <1>9 DEF OneChange
<1>11. QED
  BY <1>6, <1>7, <1>10, OneRight DEF p, m

\* What a patch takes out of a body lies in fragments that were read.
LEMMA ReplacedRead ==
    ASSUME NEW item, WellFormed(item), NEW body, NEW read, NEW f \in FragmentsOf(body),
           \A k \in Edits(item) : item.patches[k].fragment \in read,
           Positions(body, f) \cap Replaced(item, body) # {}
    PROVE  f \in read
<1>1. PICK n : n \in Positions(body, f) /\ n \in Replaced(item, body)
  OBVIOUS
<1>2. PICK k \in Edits(item) : n \in Anchors(item.patches[k], body)
  BY <1>1 DEF Replaced
<1>3. PICK g : g = item.patches[k].fragment
  OBVIOUS
<1>4. n \in Positions(body, g)
  BY <1>2, <1>3 DEF Anchors
<1>5. g \in Nat /\ g \in read
  BY <1>2, <1>3 DEF WellFormed, Edits
<1>6. f \in Int
  BY DEF FragmentsOf
<1>7. f - 1 = g - 1
  BY <1>1, <1>4 DEF Positions
<1>8. QED
  BY <1>5, <1>6, <1>7

LEMMA PatchKeepsPart ==
    ASSUME NEW item, NEW m, PartOnly(item, m), Replaced(item, work.targets[m].body) # {}
    PROVE  Replaced(item, work.targets[m].body) # 1..Len(work.targets[m].body)
<1>1. PICK r : r = Replaced(item, work.targets[m].body)
  OBVIOUS
<1>2. PICK n : n = 1..Len(work.targets[m].body)
  OBVIOUS
<1>3. work.removed[m] \subseteq n /\ (work.removed[m] \cup r # {} => work.removed[m] \cup r # n)
  BY <1>1, <1>2 DEF PartOnly, RemovedRanges
<1>4. r # {} /\ r # n
  BY <1>1, <1>3
<1>5. QED
  BY <1>1, <1>2, <1>4

LEMMA PatchesQuoted ==
    ASSUME NEW item, PatchAdmitted(item)
    PROVE  \A b \in UpdateQuotes(item) : Quoted(b)
<1>1. \A b \in item.evidence : Quoted(b)
  BY EvidenceQuoted DEF PatchAdmitted
<1>2. ASSUME NEW b \in PatchQuotes(item) PROVE Quoted(b)
  <2>1. PICK k \in 1..Len(item.patches) : b \in item.patches[k].evidence
    BY <1>2 DEF PatchQuotes
  <2>2. item.patches # << >>
    BY <2>1
  <2>3. Evidence(item.patches[k].evidence, item.patches[k].op = "retract", item.assertion)
    BY <2>1, <2>2 DEF PatchAdmitted, PatchBody
  <2>4. QED
    BY <2>1, <2>3 DEF Evidence
<1>3. ASSUME NEW b \in BasisQuotes(item) PROVE Quoted(b)
  <2>1. PICK n \in DOMAIN item.basis : b \in item.basis[n]
    BY <1>3 DEF BasisQuotes
  <2>2. FieldBasis(item, PatchFields(item, item.target), UpdateQuotes(item), FALSE)
    BY DEF PatchAdmitted
  <2>3. Evidence(item.basis[n], FALSE, item.assertion)
    BY <2>1, <2>2 DEF FieldBasis
  <2>4. QED
    BY <2>1, <2>3 DEF Evidence
<1>4. QED
  BY <1>1, <1>2, <1>3 DEF UpdateQuotes

LEMMA PatchedFields ==
    ASSUME NEW item, NEW m, "due_date" \in DOMAIN item.fields
    PROVE  /\ "due_date" \in DOMAIN PatchFields(item, m)
           /\ PatchFields(item, m)["due_date"] = item.fields["due_date"]
BY DEF PatchFields, With

LEMMA PatchRight ==
    ASSUME WorkRight(work), NEW item, WellFormed(item), item.action = "patch", PatchAdmitted(item)
    PROVE  PlanRight("patch", PatchPlan(item)) /\ ChangedBy(PatchPlan(item)) = {item.target}
<1> DEFINE p == PatchPlan(item)
           m == item.target
           x == work.targets[m]
<1>0. m \in Mems /\ DOMAIN item.fields \subseteq Proposable
  BY DEF WellFormed
<1>1. /\ x # None /\ IsHead(x) /\ m \notin W.native /\ x.merged_into = None /\ x.validity = "valid"
      /\ \A f \in work.fragments[m] : << m, x, f >> \in shown
  BY <1>0, TargetKnown DEF PatchAdmitted
<1>2. PICK w : w = With(x, item.fields)
  OBVIOUS
<1>3. /\ IsHead(w) /\ w.merged_into = None /\ w.validity = "valid"
      /\ w.due_date = IF "due_date" \in DOMAIN item.fields THEN item.fields["due_date"] ELSE x.due_date
  BY <1>0, <1>1, <1>2, WithFields, WithDue
<1>4. PICK y : y = IF item.patches = << >> THEN w ELSE [w EXCEPT !.body = PatchedBody(item, x.body)]
  OBVIOUS
<1>5. IsHead(y) /\ y.merged_into = None /\ y.validity = "valid" /\ y.due_date = w.due_date
  BY <1>3, <1>4 DEF IsHead, Blank
<1>6. y = PatchValue(item, m)
  BY <1>2, <1>4 DEF PatchValue
<1>7. /\ p.changes = << Change(m, x, y) >> /\ p.ranges = Replaced(item, x.body)
      /\ p.quotes = UpdateQuotes(item)
  BY <1>6, PlanFields DEF PatchPlan
<1>8. TaskState(y, x, PatchFields(item, m), item.transition, UpdateQuotes(item))
  BY <1>6 DEF PatchAdmitted
<1>9. /\ Actionable(y) => y.status # None
      /\ y.completed_at # None => y.status = "completed"
  BY <1>8 DEF TaskState
<1>10. x.status \in {"completed", "cancelled"} /\ y.status = "active" => Said(p)
  <2>1. SUFFICES ASSUME "user" \in Roles(UpdateQuotes(item)) PROVE Said(p)
    BY <1>1, <1>8 DEF TaskState
  <2>2. QED
    BY <1>7, <2>1, PatchesQuoted, Saying
<1>11. y.due_date # None /\ x.due_date # y.due_date => \E b \in p.quotes : Day(b) = y.due_date
  <2>1. FieldBasis(item, PatchFields(item, m), UpdateQuotes(item), FALSE)
    BY DEF PatchAdmitted
  <2>2. ASSUME "due_date" \in DOMAIN item.fields, item.fields["due_date"] # None
        PROVE  \E b \in p.quotes : Day(b) = item.fields["due_date"]
    <3>1. \E b \in UpdateQuotes(item) \cup BasisQuotes(item) : Day(b) = PatchFields(item, m)["due_date"]
      BY <2>1, <2>2, PatchedFields, DueNamed
    <3>2. BasisQuotes(item) \subseteq UpdateQuotes(item)
      BY DEF UpdateQuotes
    <3>3. QED
      BY <1>7, <2>2, <3>1, <3>2, PatchedFields
  <2>3. QED
    BY <1>3, <1>5, <2>2
<1>12. \A f \in FragmentsOf(x.body) : Positions(x.body, f) \cap p.ranges # {} => << m, x, f >> \in shown
  <2>1. SUFFICES ASSUME NEW f \in FragmentsOf(x.body), Positions(x.body, f) \cap p.ranges # {}
                 PROVE  f \in work.fragments[m]
    BY <1>1
  <2>2. item.patches # << >>
    <3>1. SUFFICES ASSUME item.patches = << >> PROVE Replaced(item, x.body) = {}
      BY <1>7, <2>1
    <3>2. QED
      BY <3>1 DEF Replaced, Edits
  <2>3. \A k \in Edits(item) : item.patches[k].fragment \in work.fragments[m]
    BY <2>2 DEF PatchAdmitted, PatchBody, Anchored
  <2>4. QED
    BY <1>7, <2>1, <2>3, ReplacedRead
<1>13. p.ranges # {} => p.ranges # 1..Len(x.body)
  <2>1. ASSUME item.patches # << >> PROVE PartOnly(item, m)
    BY <2>1 DEF PatchAdmitted, PatchBody
  <2>2. item.patches = << >> => Replaced(item, x.body) = {}
    BY DEF Replaced, Edits
  <2>3. QED
    BY <1>7, <2>1, <2>2, PatchKeepsPart
<1> HIDE DEF p, x, m
<1>14. PICK a : a = "patch"
  OBVIOUS
<1>15. a # "MERGE" /\ a # "COMPACT"
  BY <1>14
<1>16. OneChange(a, p, m, x, y)
  BY <1>1, <1>5, <1>7, <1>9, <1>10, <1>11, <1>12, <1>13, <1>15 DEF OneChange
<1>17. m \in Mems \ W.native
  BY <1>0, <1>1 DEF m
<1>18. QED
  BY <1>14, <1>16, <1>17, OneRight DEF p, m

LEMMA HeadAndRest ==
    ASSUME NEW S, NEW a \in S, NEW b \in Seq(S)
    PROVE  LET s == << a >> \o b IN
           /\ Len(s) = Len(b) + 1 /\ s[1] = a /\ \A k \in 1..Len(b) : s[k + 1] = b[k]
           /\ ToSet(s) = {a} \cup ToSet(b)
<1> DEFINE s == << a >> \o b
<1>1. Len(s) = Len(b) + 1 /\ s[1] = a /\ \A k \in 1..Len(b) : s[k + 1] = b[k]
  OBVIOUS
<1>2. \A k \in 2..Len(s) : k - 1 \in 1..Len(b) /\ s[k] = b[k - 1]
  OBVIOUS
<1>3. DOMAIN s = 1..Len(s) /\ DOMAIN b = 1..Len(b) /\ Len(b) \in Nat
  OBVIOUS
<1> HIDE DEF s
<1>4. ASSUME NEW x \in ToSet(s) PROVE x = a \/ x \in ToSet(b)
  BY <1>1, <1>2, <1>3, <1>4 DEF ToSet
<1>5. a \in ToSet(s)
  BY <1>1, <1>3 DEF ToSet
<1>6. ASSUME NEW x \in ToSet(b) PROVE x \in ToSet(s)
  <2>1. PICK k \in 1..Len(b) : x = b[k]
    BY <1>3, <1>6 DEF ToSet
  <2>2. k + 1 \in DOMAIN s /\ s[k + 1] = x
    BY <1>1, <1>3, <2>1
  <2>3. QED
    BY <2>2 DEF ToSet
<1>7. QED
  BY <1>1, <1>4, <1>5, <1>6 DEF s

LEMMA ImageFinite ==
    ASSUME NEW f, IsFiniteSet(DOMAIN f)
    PROVE  IsFiniteSet({f[x] : x \in DOMAIN f})
<1>1. PICK g : g = [x \in DOMAIN f |-> f[x]]
  OBVIOUS
<1>2. g \in Surjection(DOMAIN f, {f[x] : x \in DOMAIN f})
  BY <1>1 DEF Surjection
<1>3. QED
  BY <1>2, FS_Surjection DEF ExistsSurjection

\* A set that holds two elements does not have one.
LEMMA TwoInside ==
    ASSUME NEW S, IsFiniteSet(S), NEW x \in S, NEW y \in S, x # y
    PROVE  Cardinality(S) > 1
<1>1. Cardinality({x, y}) = 2 /\ IsFiniteSet({x, y})
  <2>1. IsFiniteSet({x}) /\ Cardinality({x}) = 1
    BY FS_Singleton
  <2>2. {x, y} = {x} \cup {y} /\ y \notin {x}
    OBVIOUS
  <2>3. QED
    BY <2>1, <2>2, FS_AddElement
<1>2. {x, y} \subseteq S
  OBVIOUS
<1>3. Cardinality({x, y}) <= Cardinality(S) /\ Cardinality(S) \in Nat
  BY <1>2, FS_Subset, FS_CardinalityType
<1>4. QED
  BY <1>1, <1>3

(* A merge, as the set of what it changes. *)
Merged(item) == ToSet(item.duplicates)

LEMMA MergeShape ==
    ASSUME NEW item, WellFormed(item), item.action = "MERGE", MergeAdmitted(item)
    PROVE  /\ item.target \in Mems /\ Merged(item) \subseteq Mems \ {item.target}
           /\ ToSet(Participants(item)) = {item.target} \cup Merged(item)
           /\ IsFiniteSet(ToSet(Participants(item)))
           /\ Changes(MergePlan(item)) =
                {Change(item.target, work.targets[item.target], MergedValue(item))} \cup
                {Change(m, work.targets[m], RetiredInto(m, item.target)) : m \in Merged(item)}
<1> DEFINE t == item.target
           d == item.duplicates
           s == Participants(item)
           P == [k \in 1..Len(s) |->
                    LET m == s[k] IN
                    Change(m, work.targets[m], IF k = 1 THEN MergedValue(item) ELSE RetiredInto(m, t))]
           C(m) == Change(m, work.targets[m], RetiredInto(m, t))
           c == Change(t, work.targets[t], MergedValue(item))
<1>1. t \in Mems /\ d \in Seq(Mems)
  BY DEF WellFormed
<1>2. /\ Len(s) = Len(d) + 1 /\ s[1] = t /\ \A k \in 1..Len(d) : s[k + 1] = d[k]
      /\ ToSet(s) = {t} \cup ToSet(d) /\ Len(d) \in Nat /\ s \in Seq(Mems) /\ DOMAIN s = 1..Len(s)
  BY <1>1, HeadAndRest DEF Participants
<1>3. \A j, k \in DOMAIN s : s[j] = s[k] => j = k
  BY DEF MergeAdmitted, IsInjective
<1>4. ToSet(d) = {d[k] : k \in 1..Len(d)}
  BY <1>1 DEF ToSet
<1>5. ToSet(d) \subseteq Mems \ {t}
  <2>1. SUFFICES ASSUME NEW k \in 1..Len(d) PROVE d[k] \in Mems /\ d[k] # t
    BY <1>4
  <2>2. 1 \in DOMAIN s /\ k + 1 \in DOMAIN s /\ k + 1 # 1
    BY <1>2
  <2>3. QED
    BY <1>1, <1>2, <1>3, <2>2
<1>6. IsFiniteSet(ToSet(s))
  <2>1. IsFiniteSet(1..Len(s))
    BY <1>2, FS_Interval
  <2>2. ToSet(s) = {s[k] : k \in 1..Len(s)}
    BY <1>2 DEF ToSet
  <2>3. QED
    BY <1>2, <2>1, <2>2, ImageFinite
<1>7. Changes(MergePlan(item)) = {P[k] : k \in 1..Len(s)}
  <2>1. MergePlan(item).changes = P
    BY PlanFields DEF MergePlan
  <2>2. QED
    BY <2>1 DEF Changes, ToSet
<1>8. \A k \in 1..Len(s) : P[k] = IF k = 1 THEN c ELSE C(s[k])
  BY <1>2
<1> HIDE DEF P, C, c, s, d, t
<1>9. {P[k] : k \in 1..Len(s)} = {c} \cup {C(m) : m \in ToSet(d)}
  <2>1. 1 \in 1..Len(s) /\ P[1] = c
    BY <1>2, <1>8
  <2>2. ASSUME NEW k \in 1..Len(d) PROVE k + 1 \in 1..Len(s) /\ P[k + 1] = C(d[k])
    BY <1>2, <1>8
  <2>3. ASSUME NEW k \in 1..Len(s), k # 1 PROVE k - 1 \in 1..Len(d) /\ P[k] = C(d[k - 1])
    <3>1. k - 1 \in 1..Len(d) /\ (k - 1) + 1 = k
      BY <1>2, <2>3
    <3>2. QED
      BY <1>2, <1>8, <2>3, <3>1
  <2>4. QED
    BY <1>4, <2>1, <2>2, <2>3
<1>10. QED
  BY <1>1, <1>2, <1>5, <1>6, <1>7, <1>9 DEF C, c, s, d, t, Merged

\* The survivor: its scopes and mark are everyone's, and where single values differ the user said which.
LEMMA SurvivorKnown ==
    ASSUME NEW item, MergeAdmitted(item), IsFiniteSet(ToSet(Participants(item))),
           NEW y, y = MergedValue(item), item.target \in ToSet(Participants(item)),
           work.targets[item.target].merged_into = None, work.targets[item.target].validity = "valid"
    PROVE  /\ IsHead(y) /\ y.merged_into = None /\ y.validity = "valid"
           /\ \A m \in ToSet(Participants(item)) : work.targets[m].scopes \subseteq y.scopes
           /\ y.explicit = (TRUE \in Values(item, "explicit"))
           /\ \A n \in Scalars, m \in ToSet(Participants(item)) :
                work.targets[m][n] # y[n] => n \in Conflicts(item)
<1>1. PICK C : C = Conflicts(item)
  OBVIOUS
<1>2. C \subseteq Scalars
  BY <1>1 DEF Conflicts
<1>3. /\ "scopes" \notin C /\ "explicit" \notin C /\ "validity" \notin C /\ "merged_into" \notin C
      /\ "body" \notin C /\ \A n \in Scalars : n \in DOMAIN Blank
      /\ \A n \in Scalars : n \notin {"scopes", "body", "explicit"}
  BY <1>2 DEF Scalars, Nullable, Blank
<1>4. /\ "scopes" \in DOMAIN Blank /\ "explicit" \in DOMAIN Blank /\ "validity" \in DOMAIN Blank
      /\ "merged_into" \in DOMAIN Blank
  BY DEF Blank
<1>5. /\ DOMAIN y = DOMAIN Blank
      /\ \A n \in DOMAIN Blank \ (C \cup {"scopes", "body", "explicit"}) : y[n] = work.targets[item.target][n]
      /\ y["scopes"] = UNION Values(item, "scopes") /\ y["explicit"] = (TRUE \in Values(item, "explicit"))
  BY <1>1, <1>3, <1>4 DEF MergedValue
<1>6. IsHead(y) /\ y.merged_into = None /\ y.validity = "valid"
  BY <1>3, <1>4, <1>5 DEF IsHead
<1>7. ASSUME NEW m \in ToSet(Participants(item)) PROVE work.targets[m].scopes \subseteq y.scopes
  BY <1>5 DEF Values
<1>8. ASSUME NEW n \in Scalars, NEW m \in ToSet(Participants(item)), work.targets[m][n] # y[n]
      PROVE  n \in C
  <2>1. SUFFICES ASSUME n \notin C PROVE FALSE
    OBVIOUS
  <2>2. y[n] = work.targets[item.target][n]
    BY <1>3, <1>5, <2>1
  <2>3. IsFiniteSet(Values(item, n))
    <3>1. PICK f : f = [k \in ToSet(Participants(item)) |-> work.targets[k][n]]
      OBVIOUS
    <3>2. DOMAIN f = ToSet(Participants(item)) /\ {f[k] : k \in DOMAIN f} = Values(item, n)
      BY <3>1 DEF Values
    <3>3. QED
      BY <3>2, ImageFinite
  <2>4. work.targets[m][n] \in Values(item, n) /\ work.targets[item.target][n] \in Values(item, n)
    BY DEF Values
  <2>5. Cardinality(Values(item, n)) > 1
    BY <1>8, <2>2, <2>3, <2>4, TwoInside
  <2>6. QED
    BY <1>1, <2>1, <2>5 DEF Conflicts
<1>9. QED
  BY <1>1, <1>5, <1>6, <1>7, <1>8

LEMMA ConflictSaid ==
    ASSUME NEW item, MergeAdmitted(item), Conflicts(item) # {}, NEW p, p.quotes = MergeQuotes(item)
    PROVE  Said(p)
<1>1. PICK r \in item.resolutions : Evidence(r.evidence, TRUE, None)
  BY DEF MergeAdmitted, Resolutions
<1>2. r.evidence \in SUBSET p.quotes
  BY DEF MergeQuotes
<1>3. (\A b \in r.evidence : Quoted(b)) /\ "user" \in Roles(r.evidence)
  BY <1>1, EvidenceSaid
<1>4. QED
  BY <1>2, <1>3, Saying

LEMMA MergeRight ==
    ASSUME WorkRight(work), NEW item, WellFormed(item), item.action = "MERGE", MergeAdmitted(item), None \notin Mems
    PROVE  /\ PlanRight("MERGE", MergePlan(item))
           /\ ChangedBy(MergePlan(item)) = ToSet(Participants(item))
<1> DEFINE p == MergePlan(item)
           t == item.target
           all == ToSet(Participants(item))
           d == Merged(item)
           T == work.targets
<1>1. /\ t \in Mems /\ d \subseteq Mems \ {t} /\ all = {t} \cup d /\ IsFiniteSet(all)
      /\ Changes(p) = {Change(t, T[t], MergedValue(item))} \cup
                      {Change(m, T[m], RetiredInto(m, t)) : m \in d}
  BY MergeShape
<1>2. p.quotes = MergeQuotes(item)
  <2>1. MergePlan(item).quotes = MergeQuotes(item)
    BY PlanFields DEF MergePlan
  <2>2. QED
    BY <2>1
<1>3. ASSUME NEW m \in all
      PROVE  /\ m \in Mems \ W.native /\ T[m] # None /\ IsHead(T[m]) /\ T[m].merged_into = None
             /\ T[m].validity = "valid" /\ \A f \in FragmentsOf(T[m].body) : << m, T[m], f >> \in shown
  <2>1. Target(m, TRUE) /\ FullyRead(m) /\ T[m].validity = "valid"
    BY DEF MergeAdmitted
  <2>2. m \in Mems
    BY <1>1
  <2>3. QED
    BY <2>1, <2>2, TargetKnown DEF FullyRead
<1>4. PICK y : y = MergedValue(item)
  OBVIOUS
<1>5. /\ IsHead(y) /\ y.merged_into = None /\ y.validity = "valid"
      /\ \A m \in all : T[m].scopes \subseteq y.scopes
      /\ y.explicit = (TRUE \in Values(item, "explicit"))
      /\ \A n \in Scalars, m \in all : T[m][n] # y[n] => n \in Conflicts(item)
  BY <1>1, <1>3, <1>4, SurvivorKnown
<1>6. TaskState(y, None, [n \in {} |-> None], "normal", MergeQuotes(item))
  BY <1>4 DEF MergeAdmitted
<1>7. \A n \in Scalars, m \in all : T[m][n] # y[n] => Said(p)
  BY <1>2, <1>5, ConflictSaid
<1>8. ASSUME NEW m \in d
      PROVE  LET r == RetiredInto(m, t) IN IsHead(r) /\ r.validity = "retracted" /\ r.merged_into = t
  <2>1. PICK v : v = T[m]
    OBVIOUS
  <2>2. PICK r : r = [v EXCEPT !.body = << >>, !.validity = "retracted", !.merged_into = t]
    OBVIOUS
  <2>3. IsHead(v)
    BY <1>1, <1>3, <2>1
  <2>4. IsHead(r) /\ r.validity = "retracted" /\ r.merged_into = t
    BY <2>2, <2>3 DEF IsHead, Blank
  <2>5. RetiredInto(m, t) = r
    BY <2>1, <2>2 DEF RetiredInto
  <2>6. QED
    BY <2>4, <2>5
<1>9. PICK s : s = Change(t, T[t], y)
  OBVIOUS
<1>10. s.memory = t /\ s.before = T[t] /\ s.after = y
  BY <1>9 DEF Change
<1>11. \A c \in Changes(p) : c = s \/ \E m \in d : /\ c.memory = m /\ c.before = T[m]
                                                 /\ c.after = RetiredInto(m, t)
                                                 /\ c = Change(m, T[m], RetiredInto(m, t))
  BY <1>1, <1>4, <1>9 DEF Change
<1>12. s \in Changes(p) /\ \A m \in d : Change(m, T[m], RetiredInto(m, t)) \in Changes(p)
  BY <1>1, <1>4, <1>9
<1>13. ChangedBy(p) = all
  <2>1. \A c \in Changes(p) : c.memory \in all
    BY <1>1, <1>10, <1>11
  <2>2. \A m \in d : Change(m, T[m], RetiredInto(m, t)).memory = m
    BY DEF Change
  <2>3. QED
    BY <1>1, <1>10, <1>12, <2>1, <2>2 DEF ChangedBy, Changes
<1> HIDE DEF p, t, all, d, T
<1>14. t # None /\ t \in all /\ d \subseteq all
  BY <1>1
<1>15. \A c \in Changes(p) : /\ c.memory \in all /\ c.before = T[c.memory] /\ IsHead(c.after)
                             /\ c.after.merged_into = None => c = s
                             /\ c # s => /\ c.memory # t /\ c.after.merged_into = t
                                         /\ c.after.validity = "retracted"
  BY <1>1, <1>5, <1>8, <1>10, <1>11, <1>14
<1>16. PlanRead("MERGE", p)
  BY <1>3, <1>15 DEF PlanRead
<1>17. PlanKeeps("MERGE", p)
  BY DEF PlanKeeps
<1>18. PlanSaid(p)
  <2>1. SUFFICES ASSUME NEW c \in Changes(p), c.before # None, c.after.merged_into = None,
                        \/ c.before.validity # c.after.validity
                        \/ c.before.status \in {"completed", "cancelled"} /\ c.after.status = "active"
                 PROVE  Said(p)
    BY DEF PlanSaid
  <2>2. c.before = T[t] /\ c.after = y
    BY <1>10, <1>15, <2>1
  <2>3. T[t].status # y.status
    BY <1>3, <1>5, <1>14, <2>1, <2>2
  <2>4. "status" \in Scalars
    BY DEF Scalars
  <2>5. QED
    BY <1>7, <1>14, <2>3, <2>4
<1>19. PlanSense("MERGE", p)
  <2>1. SUFFICES ASSUME NEW c \in Changes(p), c.after.validity = "valid"
                 PROVE  /\ Actionable(c.after) => c.after.status # None
                        /\ c.after.completed_at # None => c.after.status = "completed"
    BY DEF PlanSense
  <2>2. c.after = y
    BY <1>10, <1>15, <2>1
  <2>3. QED
    BY <1>6, <2>2 DEF TaskState
<1>20. PlanMerges("MERGE", p)
  <2>1. (CHOOSE c \in Changes(p) : c.after.merged_into = None) = s
    BY <1>5, <1>10, <1>12, <1>15
  <2>2. PICK B : B = {c.before : c \in Changes(p)}
    OBVIOUS
  <2>3. \A b \in B : \E m \in all : b = T[m]
    BY <1>15, <2>2
  <2>4. UNION {m.scopes : m \in B} \subseteq y.scopes
    BY <1>5, <2>3
  <2>5. (\E m \in B : m.explicit) => y.explicit
    <3>1. SUFFICES ASSUME NEW m \in all, T[m].explicit PROVE y.explicit
      BY <2>3
    <3>2. T[m].explicit = TRUE
      BY <3>1
    <3>3. TRUE \in Values(item, "explicit")
      BY <3>2 DEF Values, all, T
    <3>4. QED
      BY <1>5, <3>3
  <2>6. (\E n \in Scalars : \E m \in B : m[n] # y[n]) => Said(p)
    BY <1>7, <2>3
  <2>7. \A c \in Changes(p) \ {s} : c.after.merged_into = s.memory
    BY <1>10, <1>15
  <2>8. QED
    BY <1>10, <2>1, <2>2, <2>4, <2>5, <2>6, <2>7 DEF PlanMerges
<1>21. PlanChanges(p)
  <2>1. \A c \in Changes(p) : c.memory \in Mems \ W.native /\ (c.before # None => c.before.merged_into = None)
    BY <1>3, <1>15
  <2>2. \A c \in Changes(p) : c.after.merged_into = None \/ Retired(c, p)
    BY <1>1, <1>5, <1>10, <1>12, <1>15 DEF Retired
  <2>3. \A c, e \in Changes(p) : c.memory = e.memory => c = e
    BY <1>10, <1>11, <1>15
  <2>4. QED
    BY <1>15, <2>1, <2>2, <2>3 DEF PlanChanges
<1>22. QED
  BY <1>13, <1>16, <1>17, <1>18, <1>19, <1>20, <1>21 DEF PlanRight, p, all

\* What compile_item makes of an admitted item.
LEMMA CompiledRight ==
    ASSUME WorkRight(work), None \notin Mems, NEW i \in Mems \ W.native, NEW item, WellFormed(item),
           Admitted(item)
    PROVE  LET p == Compiled(i, item) IN
           /\ PlanRight(item.action, p)
           /\ ChangedBy(p) \subseteq IF item.action = "DEFERRED" THEN {} ELSE p.mems
           /\ ChangedBy(p) # {} => StatusOf(item.action) = "prepared"
<1> DEFINE p == Compiled(i, item)
           Right == /\ PlanRight(item.action, p)
                    /\ ChangedBy(p) \subseteq IF item.action = "DEFERRED" THEN {} ELSE p.mems
                    /\ ChangedBy(p) # {} => StatusOf(item.action) = "prepared"
<1>1. ASSUME item.action \in {"CREATE", "patch", "retract_memory", "restore", "MERGE", "COMPACT"}
      PROVE  StatusOf(item.action) = "prepared" /\ item.action # "DEFERRED"
  BY <1>1 DEF StatusOf
<1>2. item.action \notin {"CREATE", "NO_MEMORY", "DEFERRED"} => item.target \in Mems
  BY DEF WellFormed
<1>3. CASE item.action = "CREATE"
  <2>1. p = CreatePlan(i, item) /\ CreateAdmitted(item)
    BY <1>3 DEF Compiled, Admitted
  <2>2. CreatePlan(i, item).mems = {i}
    BY PlanFields DEF CreatePlan
  <2>3. QED
    BY <1>1, <1>3, <2>1, <2>2, CreateRight
<1>4. CASE item.action = "patch"
  <2>1. p = PatchPlan(item) /\ PatchAdmitted(item)
    BY <1>4 DEF Compiled, Admitted
  <2>2. PatchPlan(item).mems = {item.target}
    BY PlanFields DEF PatchPlan
  <2>3. QED
    BY <1>1, <1>4, <2>1, <2>2, PatchRight
<1>5. CASE item.action = "retract_memory"
  <2>1. p = RetractPlan(item) /\ RetractAdmitted(item)
    BY <1>5 DEF Compiled, Admitted
  <2>2. RetractPlan(item).mems = {item.target}
    BY PlanFields DEF RetractPlan
  <2>3. QED
    BY <1>1, <1>2, <1>5, <2>1, <2>2, RetractRight
<1>6. CASE item.action = "restore"
  <2>1. p = RestorePlan(item) /\ RestoreAdmitted(item)
    BY <1>6 DEF Compiled, Admitted
  <2>2. RestorePlan(item).mems = {item.target}
    BY PlanFields DEF RestorePlan
  <2>3. QED
    BY <1>1, <1>6, <2>1, <2>2, RestoreRight
<1>7. CASE item.action = "MERGE"
  <2>1. p = MergePlan(item) /\ MergeAdmitted(item)
    BY <1>7 DEF Compiled, Admitted
  <2>2. MergePlan(item).mems = ToSet(Participants(item))
    BY PlanFields DEF MergePlan
  <2>3. QED
    BY <1>1, <1>7, <2>1, <2>2, MergeRight
<1>8. CASE item.action = "COMPACT"
  <2>1. p = CompactPlan(item) /\ CompactAdmitted(item)
    BY <1>8 DEF Compiled, Admitted
  <2>2. CompactPlan(item).mems = {item.target}
    BY PlanFields DEF CompactPlan
  <2>3. QED
    BY <1>1, <1>2, <1>8, <2>1, <2>2, CompactRight
<1>9. CASE item.action \notin {"CREATE", "patch", "retract_memory", "restore", "MERGE", "COMPACT"}
  <2>1. p.changes = << >>
    <3>1. PICK q : q = Plan(<< >>, item.evidence, {}, {item.target}, {})
      OBVIOUS
    <3>2. PICK r : r = Plan(<< >>, {}, item.refs, {}, {})
      OBVIOUS
    <3>3. q.changes = << >> /\ r.changes = << >>
      BY <3>1, <3>2, PlanFields
    <3>4. p = q \/ p = r
      BY <1>9, <3>1, <3>2 DEF Compiled
    <3>5. QED
      BY <3>3, <3>4
  <2>2. Changes(p) = {} /\ ChangedBy(p) = {}
    BY <2>1, None0 DEF Changes, ChangedBy
  <2>3. QED
    BY <2>2, IdleRight
<1>10. QED
  BY <1>3, <1>4, <1>5, <1>6, <1>7, <1>8, <1>9

LEMMA EntryFields ==
    ASSUME NEW item, NEW s, NEW m, NEW r, NEW p
    PROVE  LET e == Entry(item, s, m, r, p) IN
           IsEntry(e) /\ e.action = item.action /\ e.status = s /\ e.mems = m /\ e.refs = r /\ e.plan = p
BY DEF Entry, IsEntry

LEMMA NothingPlanned == Changes(NoPlan) = {} /\ ChangedBy(NoPlan) = {}
BY PlanFields, None0 DEF NoPlan, Changes, ChangedBy

\* An item that is refused.
LEMMA RefusedEntry ==
    ASSUME NEW e, IsEntry(e), e.plan = NoPlan, e.status # "not_recorded"
    PROVE  EntryRight(e) /\ ChangedBy(e.plan) = {}
BY NothingPlanned, IdleRight DEF EntryRight

LEMMA AcceptedEntry ==
    ASSUME WorkRight(work), None \notin Mems, NEW i \in Mems \ W.native, NEW item, WellFormed(item),
           Admitted(item), NEW e, NEW p, p = Compiled(i, item),
           e = Entry(item, StatusOf(item.action), IF item.action = "DEFERRED" THEN {} ELSE p.mems, p.refs, p)
    PROVE  EntryRight(e)
<1>1. IsEntry(e) /\ e.action = item.action /\ e.status = StatusOf(item.action) /\ e.plan = p
      /\ e.mems = IF item.action = "DEFERRED" THEN {} ELSE p.mems
  BY EntryFields
<1>2. /\ PlanRight(item.action, p)
      /\ ChangedBy(p) \subseteq e.mems
      /\ ChangedBy(p) # {} => StatusOf(item.action) = "prepared"
  BY <1>1, CompiledRight
<1>3. Changes(p) # {} => ChangedBy(p) # {}
  BY DEF Changes, ChangedBy
<1>4. e.status = "not_recorded" => W.purpose # "explicit"
  <2>1. SUFFICES ASSUME StatusOf(item.action) = "not_recorded" PROVE item.action = "NO_MEMORY"
    BY <1>1 DEF Admitted, NoMemoryAdmitted
  <2>2. QED
    BY <2>1 DEF StatusOf
<1>5. QED
  BY <1>1, <1>2, <1>3, <1>4 DEF EntryRight, Live

\* What a submission's items become.
LEMMA ProposedEntries ==
    ASSUME WorkRight(work), None \notin Mems, NEW offer, DOMAIN offer.items \subseteq Mems \ W.native,
           \A i \in DOMAIN offer.items : WellFormed(offer.items[i]),
           NEW new, new = Proposed(offer)
    PROVE  /\ DOMAIN new = DOMAIN offer.items
           /\ \A i \in DOMAIN new : EntryRight(new[i]) /\ CoveredBy(offer, i) \subseteq new[i].refs
           /\ \A i \in DOMAIN new : ChangedBy(new[i].plan) # {} =>
                /\ Accepted(offer, i) /\ new[i].plan = Compiled(i, offer.items[i])
                /\ \A j \in DOMAIN new : i # j /\ ChangedBy(new[j].plan) # {} =>
                        ChangedBy(new[i].plan) \cap ChangedBy(new[j].plan) = {}
<1> DEFINE accepted == {i \in DOMAIN offer.items : Accepted(offer, i)}
           tangled == Tangled(offer, accepted)
           P(i) == Compiled(i, offer.items[i])
           E(i) == IF i \notin accepted THEN Entry(offer.items[i], "invalid", {}, CoveredBy(offer, i), NoPlan)
                   ELSE Entry(offer.items[i], IF tangled THEN "invalid" ELSE StatusOf(offer.items[i].action),
                              IF offer.items[i].action = "DEFERRED" THEN {} ELSE P(i).mems, P(i).refs,
                              IF tangled THEN NoPlan ELSE P(i))
<1>1. DOMAIN new = DOMAIN offer.items /\ \A i \in DOMAIN offer.items : new[i] = E(i)
  BY DEF Proposed, Entries
<1>2. ASSUME NEW i \in DOMAIN new, i \notin accepted
      PROVE  /\ EntryRight(new[i]) /\ CoveredBy(offer, i) \subseteq new[i].refs
             /\ ChangedBy(new[i].plan) = {}
  <2>1. PICK e : e = new[i]
    OBVIOUS
  <2>2. e = Entry(offer.items[i], "invalid", {}, CoveredBy(offer, i), NoPlan)
    BY <1>1, <1>2, <2>1
  <2>3. IsEntry(e) /\ e.plan = NoPlan /\ e.status = "invalid" /\ e.refs = CoveredBy(offer, i)
    BY <2>2, EntryFields
  <2>4. QED
    BY <2>1, <2>3, RefusedEntry
<1>3. ASSUME NEW i \in accepted PROVE CoveredBy(offer, i) \subseteq P(i).refs
  BY DEF Accepted
<1>4. ASSUME NEW i \in accepted, tangled
      PROVE  /\ EntryRight(new[i]) /\ CoveredBy(offer, i) \subseteq new[i].refs
             /\ ChangedBy(new[i].plan) = {}
  <2>1. PICK e : e = new[i]
    OBVIOUS
  <2>2. PICK m : e = Entry(offer.items[i], "invalid", m, P(i).refs, NoPlan)
    BY <1>1, <1>4, <2>1
  <2>3. IsEntry(e) /\ e.plan = NoPlan /\ e.status = "invalid" /\ e.refs = P(i).refs
    BY <2>2, EntryFields
  <2>4. QED
    BY <1>3, <2>1, <2>3, RefusedEntry
<1>5. ASSUME NEW i \in accepted, ~tangled
      PROVE  /\ EntryRight(new[i]) /\ CoveredBy(offer, i) \subseteq new[i].refs
             /\ new[i].plan = P(i)
  <2>1. PICK e : e = new[i]
    OBVIOUS
  <2>2. PICK p : p = P(i)
    OBVIOUS
  <2>3. e = Entry(offer.items[i], StatusOf(offer.items[i].action),
                  IF offer.items[i].action = "DEFERRED" THEN {} ELSE p.mems, p.refs, p)
    BY <1>1, <1>5, <2>1, <2>2
  <2>4. e.plan = p /\ e.refs = p.refs
    BY <2>3, EntryFields
  <2>5. i \in Mems \ W.native /\ WellFormed(offer.items[i]) /\ Admitted(offer.items[i])
    BY DEF Accepted
  <2>6. EntryRight(e)
    BY <2>2, <2>3, <2>5, AcceptedEntry
  <2>7. QED
    BY <1>3, <2>1, <2>2, <2>4, <2>6
<1>6. ASSUME NEW i \in DOMAIN new, ChangedBy(new[i].plan) # {} PROVE i \in accepted /\ ~tangled
  BY <1>2, <1>4, <1>6
<1>7. ASSUME NEW i \in accepted, NEW j \in accepted, i # j, ~tangled
      PROVE  ChangedBy(P(i)) \cap ChangedBy(P(j)) = {}
  BY <1>7 DEF Tangled
<1> HIDE DEF tangled, E, P
<1>8. \A i \in DOMAIN new : i \in DOMAIN offer.items
  BY <1>1
<1>9. \A i \in DOMAIN new : EntryRight(new[i]) /\ CoveredBy(offer, i) \subseteq new[i].refs
  BY <1>2, <1>4, <1>5
<1>10. ASSUME NEW i \in DOMAIN new, ChangedBy(new[i].plan) # {}
       PROVE  /\ Accepted(offer, i) /\ new[i].plan = P(i)
              /\ \A j \in DOMAIN new : i # j /\ ChangedBy(new[j].plan) # {} =>
                        ChangedBy(new[i].plan) \cap ChangedBy(new[j].plan) = {}
  <2>1. i \in accepted /\ ~tangled
    BY <1>6, <1>10
  <2>2. new[i].plan = P(i) /\ Accepted(offer, i)
    BY <1>5, <2>1
  <2>3. ASSUME NEW j \in DOMAIN new, i # j, ChangedBy(new[j].plan) # {}
        PROVE  ChangedBy(new[i].plan) \cap ChangedBy(new[j].plan) = {}
    <3>1. j \in accepted
      BY <1>6, <2>3
    <3>2. new[j].plan = P(j)
      BY <1>5, <2>1, <3>1
    <3>3. QED
      BY <1>7, <2>1, <2>2, <2>3, <3>1, <3>2
  <2>4. QED
    BY <2>2, <2>3
<1>11. QED
  BY <1>1, <1>9, <1>10 DEF P

\* What an item of the work has changed, it has settled.
LEMMA ChangedSettled ==
    ASSUME WorkRight(work), ~Recovery, NEW offer, NEW i, Accepted(offer, i), NEW j \in DOMAIN work.items
    PROVE  ChangedBy(Compiled(i, offer.items[i])) \cap ChangedBy(work.items[j].plan) = {}
<1>1. EntryRight(work.items[j])
  BY DEF WorkRight, ItemsRight, Entered
<1>2. CASE Changes(work.items[j].plan) = {}
  BY <1>2 DEF ChangedBy, Changes
<1>3. CASE Changes(work.items[j].plan) # {}
  <2>1. work.items[j].status \in Statuses
    BY DEF Statuses
  <2>2. work.items[j].status \in Settled
    BY <1>1, <1>3, <2>1 DEF EntryRight, Live, Recovery, Settled
  <2>3. work.items[j].mems \subseteq SettledMems(offer, i)
    BY <2>2 DEF SettledMems
  <2>4. ChangedBy(work.items[j].plan) \subseteq work.items[j].mems
    BY <1>1 DEF EntryRight
  <2>5. ChangedBy(Compiled(i, offer.items[i])) \cap SettledMems(offer, i) = {}
    BY DEF Accepted
  <2>6. QED
    BY <2>3, <2>4, <2>5
<1>4. QED
  BY <1>2, <1>3

LEMMA ProposedRight ==
    ASSUME WorkRight(work), ~Recovery, None \notin Mems, NEW offer, DOMAIN offer.items \subseteq Mems \ W.native,
           \A i \in DOMAIN offer.items : WellFormed(offer.items[i]),
           CoverageHolds(offer), Focus = {} \/ DOMAIN offer.items = Focus
    PROVE  ItemsRight(Renewed(work.items, Proposed(offer)))
<1>1. PICK new : new = Proposed(offer)
  OBVIOUS
<1>2. PICK old : old = work.items
  OBVIOUS
<1>3. PICK all : all = Renewed(old, new)
  OBVIOUS
<1>4. /\ DOMAIN all = DOMAIN new \cup DOMAIN old
      /\ \A i \in DOMAIN new : all[i] = new[i]
      /\ \A i \in DOMAIN old \ DOMAIN new : all[i] = old[i]
  BY <1>3 DEF Renewed
<1>5. ItemsRight(old)
  BY <1>2 DEF WorkRight
<1>6. /\ DOMAIN new = DOMAIN offer.items
      /\ \A i \in DOMAIN new : EntryRight(new[i]) /\ CoveredBy(offer, i) \subseteq new[i].refs
      /\ \A i \in DOMAIN new : ChangedBy(new[i].plan) # {} =>
                /\ Accepted(offer, i) /\ new[i].plan = Compiled(i, offer.items[i])
                /\ \A j \in DOMAIN new : i # j /\ ChangedBy(new[j].plan) # {} =>
                        ChangedBy(new[i].plan) \cap ChangedBy(new[j].plan) = {}
  BY <1>1, ProposedEntries
<1>7. Entered(all)
  BY <1>4, <1>5, <1>6 DEF Entered, ItemsRight
<1>8. ASSUME NEW i \in DOMAIN new, NEW j \in DOMAIN old
      PROVE  ChangedBy(new[i].plan) \cap ChangedBy(old[j].plan) = {}
  <2>1. CASE ChangedBy(new[i].plan) = {}
    BY <2>1
  <2>2. CASE ChangedBy(new[i].plan) # {}
    <3>1. Accepted(offer, i) /\ new[i].plan = Compiled(i, offer.items[i])
      BY <1>6, <2>2
    <3>2. QED
      BY <1>2, <3>1, ChangedSettled
  <2>3. QED
    BY <2>1, <2>2
<1>9. Disjoint(all)
  <2>1. SUFFICES ASSUME NEW i \in DOMAIN all, NEW j \in DOMAIN all, i # j
                 PROVE  ChangedBy(all[i].plan) \cap ChangedBy(all[j].plan) = {}
    BY DEF Disjoint
  <2>2. CASE i \in DOMAIN new /\ j \in DOMAIN new
    BY <1>4, <1>6, <2>1, <2>2
  <2>3. CASE i \in DOMAIN new /\ j \notin DOMAIN new
    BY <1>4, <1>8, <2>3
  <2>4. CASE i \notin DOMAIN new /\ j \in DOMAIN new
    BY <1>4, <1>8, <2>4
  <2>5. CASE i \notin DOMAIN new /\ j \notin DOMAIN new
    BY <1>4, <1>5, <2>1, <2>5 DEF ItemsRight, Disjoint
  <2>6. QED
    BY <2>2, <2>3, <2>4, <2>5
<1>10. Whole(all)
  <2>1. SUFFICES ASSUME NEW s \in DOMAIN W.sources \ W.covered, DOMAIN all # {}
                 PROVE  \E i \in DOMAIN all : s \in all[i].refs
    BY DEF Whole
  <2>2. CASE s \in Expected
    <3>1. offer.coverage[s] # {} /\ offer.coverage[s] \subseteq DOMAIN offer.items /\ s \in DOMAIN offer.coverage
      BY <2>2 DEF CoverageHolds
    <3>2. PICK i \in DOMAIN new : i \in offer.coverage[s]
      BY <1>6, <3>1
    <3>3. s \in CoveredBy(offer, i)
      BY <3>1, <3>2 DEF CoveredBy
    <3>4. QED
      BY <1>4, <1>6, <3>2, <3>3
  <2>3. CASE s \notin Expected
    <3>1. Focus # {} /\ \A i \in Focus : s \notin old[i].refs
      BY <1>2, <2>3 DEF Expected
    <3>2. DOMAIN new = Focus /\ Focus \subseteq DOMAIN old
      BY <1>2, <1>6, <3>1 DEF Focus
    <3>3. PICK i \in DOMAIN old : s \in old[i].refs
      BY <1>5, <3>1, <3>2 DEF ItemsRight, Whole
    <3>4. i \in DOMAIN old \ DOMAIN new
      BY <3>1, <3>2, <3>3
    <3>5. QED
      BY <1>4, <3>3, <3>4
  <2>4. QED
    BY <2>2, <2>3
<1>11. QED
  BY <1>1, <1>2, <1>3, <1>7, <1>9, <1>10 DEF ItemsRight

-----------------------------------------------------------------------------
(* What the calls leave of a work. *)

\* n is the work w but for its status, what was used of it and what is fixed at its start.
SameWork(n, w) ==
    IsWork(n) /\ n.targets = w.targets /\ n.fragments = w.fragments /\ n.items = w.items

LEMMA WithUsed ==
    ASSUME NEW w, IsWork(w), NEW u, NEW n, n = [w EXCEPT !.used = u]
    PROVE  SameWork(n, w)
BY DEF SameWork, IsWork

LEMMA DerivedSame ==
    ASSUME NEW w, IsWork(w)
    PROVE  SameWork(Derived(w), w) /\ (Derived(w).status = "completed" => DOMAIN w.items # {})
<1> DEFINE statuses == {w.items[i].status : i \in DOMAIN w.items}
           partly == IF PartlyDone(statuses) THEN "partial" ELSE "submitted"
           rest == IF PartlyDone(statuses) THEN "partial" ELSE IF w.used = 3 THEN "failed" ELSE "pending"
<1>1. PICK a : a = [w EXCEPT !.status = "completed", !.terminal = TRUE]
  OBVIOUS
<1>2. PICK b : b = [w EXCEPT !.status = partly]
  OBVIOUS
<1>3. PICK c : c = [w EXCEPT !.terminal = w.terminal \/ w.used = 3, !.status = rest]
  OBVIOUS
<1> HIDE DEF partly, rest
<1>4. SameWork(a, w) /\ SameWork(b, w) /\ b.status = partly
  BY <1>1, <1>2 DEF SameWork, IsWork
<1>5. SameWork(c, w) /\ c.status = rest
  BY <1>3 DEF SameWork, IsWork
<1>6. b.status # "completed" /\ c.status # "completed"
  BY <1>4, <1>5 DEF partly, rest
<1>7. CASE statuses # {} /\ statuses \subseteq {"saved", "unchanged", "not_recorded"}
  <2>1. Derived(w) = a \/ Derived(w) = b
    BY <1>1, <1>2, <1>7 DEF Derived, partly
  <2>2. DOMAIN w.items # {}
    BY <1>7
  <2>3. QED
    BY <1>4, <2>1, <2>2
<1>8. CASE ~(statuses # {} /\ statuses \subseteq {"saved", "unchanged", "not_recorded"})
  <2>1. Derived(w) = b \/ Derived(w) = c
    BY <1>2, <1>3, <1>8 DEF Derived, partly, rest
  <2>2. QED
    BY <1>4, <1>5, <1>6, <2>1
<1>9. QED
  BY <1>7, <1>8

LEMMA AfterErrorSame ==
    ASSUME NEW w, IsWork(w) PROVE SameWork(AfterError(w), w) /\ AfterError(w).status # "completed"
<1>1. PICK s : s = IF PartlyDone({w.items[i].status : i \in DOMAIN w.items}) THEN "partial"
                   ELSE IF w.used = 3 THEN "failed" ELSE "pending"
  OBVIOUS
<1>2. PICK c : c = [w EXCEPT !.terminal = w.terminal \/ w.used = 3, !.status = s]
  OBVIOUS
<1>3. SameWork(c, w) /\ c.status = s
  BY <1>2 DEF SameWork, IsWork
<1>4. AfterError(w) = c
  BY <1>1, <1>2 DEF AfterError
<1>5. s # "completed"
  BY <1>1
<1>6. QED
  BY <1>3, <1>4, <1>5

LEMMA ChargedSame == ASSUME IsWork(work) PROVE SameWork(Charged, work)
BY WithUsed DEF Charged

-----------------------------------------------------------------------------
(* What a call writes. *)

LEMMA WrittenRows ==
    ASSUME NEW n, ItemsRight(n.items), NEW h, h = Written(n)
    PROVE  /\ DOMAIN h = Mems
           /\ \A i \in ToWrite(n) : \A c \in Changes(n.items[i].plan) : c.memory \in Mems /\ h[c.memory] = c.after
           /\ \A m \in Mems : \/ h[m] = mem[m] /\ \A i \in ToWrite(n) : m \notin ChangedBy(n.items[i].plan)
                              \/ \E i \in ToWrite(n) : \E c \in Changes(n.items[i].plan) : c.memory = m
<1> DEFINE all == UNION {ToSet(n.items[i].plan.changes) : i \in ToWrite(n)}
           writes(m) == {c \in all : c.memory = m}
<1>1. DOMAIN h = Mems /\ \A m \in Mems : h[m] = IF writes(m) = {} THEN mem[m] ELSE (CHOOSE c \in writes(m) : TRUE).after
  BY DEF Written
<1>2. ToWrite(n) \subseteq DOMAIN n.items
  BY DEF ToWrite
<1>3. \A c : c \in all <=> \E i \in ToWrite(n) : c \in Changes(n.items[i].plan)
  BY DEF Changes
<1>4. \A i \in ToWrite(n) : PlanChanges(n.items[i].plan)
  BY <1>2 DEF ItemsRight, Entered, EntryRight, PlanRight
<1>5. ASSUME NEW c \in all, NEW d \in all, c.memory = d.memory PROVE c = d
  <2>1. PICK i \in ToWrite(n) : c \in Changes(n.items[i].plan)
    BY <1>3
  <2>2. PICK j \in ToWrite(n) : d \in Changes(n.items[j].plan)
    BY <1>3
  <2>3. c.memory \in ChangedBy(n.items[i].plan) /\ d.memory \in ChangedBy(n.items[j].plan)
    BY <2>1, <2>2 DEF ChangedBy, Changes
  <2>4. i = j
    BY <1>2, <1>5, <2>3 DEF ItemsRight, Disjoint
  <2>5. QED
    BY <1>4, <1>5, <2>1, <2>2, <2>4 DEF PlanChanges
<1>6. ASSUME NEW i \in ToWrite(n), NEW c \in Changes(n.items[i].plan)
      PROVE  c.memory \in Mems /\ h[c.memory] = c.after
  <2>1. c \in all /\ c.memory \in Mems
    BY <1>3, <1>4 DEF PlanChanges
  <2>2. writes(c.memory) = {c}
    BY <1>5, <2>1
  <2>3. (CHOOSE d \in writes(c.memory) : TRUE) = c
    BY <2>2
  <2>4. QED
    BY <1>1, <2>1, <2>2, <2>3
<1>7. ASSUME NEW m \in Mems
      PROVE  \/ h[m] = mem[m] /\ \A i \in ToWrite(n) : m \notin ChangedBy(n.items[i].plan)
             \/ \E i \in ToWrite(n) : \E c \in Changes(n.items[i].plan) : c.memory = m
  <2>1. CASE writes(m) = {}
    <3>1. \A i \in ToWrite(n) : m \notin ChangedBy(n.items[i].plan)
      BY <1>3, <2>1 DEF ChangedBy, Changes
    <3>2. QED
      BY <1>1, <2>1, <3>1
  <2>2. CASE writes(m) # {}
    BY <1>3, <2>2
  <2>3. QED
    BY <2>1, <2>2
<1>8. QED
  BY <1>1, <1>6, <1>7

\* Heads stay heads, aliases stay aliases, and what is native stays as it is.
LEMMA WrittenRight ==
    ASSUME NEW n, ItemsRight(n.items), None \notin Mems, Heads, AliasesOf(mem), W.native \subseteq Mems,
           NEW h, h = Written(n)
    PROVE  /\ DOMAIN h = Mems /\ \A m \in Mems : h[m] # None => IsHead(h[m])
           /\ AliasesOf(h)
           /\ \A m \in W.native : h[m] = mem[m]
<1>1. /\ DOMAIN h = Mems
      /\ \A i \in ToWrite(n) : \A c \in Changes(n.items[i].plan) : c.memory \in Mems /\ h[c.memory] = c.after
      /\ \A m \in Mems : \/ h[m] = mem[m] /\ \A i \in ToWrite(n) : m \notin ChangedBy(n.items[i].plan)
                         \/ \E i \in ToWrite(n) : \E c \in Changes(n.items[i].plan) : c.memory = m
  BY WrittenRows
<1>2. \A i \in ToWrite(n) : PlanChanges(n.items[i].plan)
  BY DEF ToWrite, ItemsRight, Entered, EntryRight, PlanRight
<1>3. \A i \in ToWrite(n) : \A c \in Changes(n.items[i].plan) :
        c.memory \notin W.native /\ IsHead(c.after) /\ (c.after.merged_into = None \/ Retired(c, n.items[i].plan))
  BY <1>2 DEF PlanChanges
<1>4. \A m \in Mems : h[m] # None => IsHead(h[m])
  BY <1>1, <1>3 DEF Heads
<1>5. \A m \in W.native : h[m] = mem[m]
  BY <1>1, <1>3
<1>6. ASSUME NEW m \in Mems, h[m] # None, h[m].merged_into # None
      PROVE  LET other == h[m].merged_into IN
             /\ other \in Mems \ {m} /\ h[m].validity = "retracted"
             /\ h[other] # None => h[other].merged_into # m
  <2>1. CASE \E i \in ToWrite(n) : \E c \in Changes(n.items[i].plan) : c.memory = m
    <3>0. PICK i \in ToWrite(n) : \E c \in Changes(n.items[i].plan) : c.memory = m
      BY <2>1
    <3>1. PICK c \in Changes(n.items[i].plan) : c.memory = m
      BY <3>0
    <3>2. h[m] = c.after
      BY <1>1, <3>1
    <3>3. Retired(c, n.items[i].plan)
      BY <1>3, <1>6, <3>1, <3>2
    <3>4. PICK d \in Changes(n.items[i].plan) : d.memory = c.after.merged_into /\ d.after.merged_into = None
      BY <3>3 DEF Retired
    <3>5. h[c.after.merged_into] = d.after
      BY <1>1, <3>4
    <3>6. c.after.validity = "retracted" /\ c.after.merged_into \in Mems \ {m}
      BY <3>1, <3>3 DEF Retired
    <3>7. QED
      BY <3>2, <3>4, <3>5, <3>6
  <2>2. CASE h[m] = mem[m] /\ \A i \in ToWrite(n) : m \notin ChangedBy(n.items[i].plan)
    <3>1. PICK o : o = h[m].merged_into
      OBVIOUS
    <3>2. o \in Mems \ {m} /\ h[m].validity = "retracted" /\ (mem[o] # None => mem[o].merged_into # m)
      BY <1>6, <2>2, <3>1 DEF AliasesOf
    <3>3. ASSUME NEW i \in ToWrite(n), NEW c \in Changes(n.items[i].plan), c.memory = o
          PROVE  h[o].merged_into # m
      <4>1. h[o] = c.after
        BY <1>1, <3>3
      <4>2. ASSUME Retired(c, n.items[i].plan), c.after.merged_into = m PROVE FALSE
        <5>1. m \in ChangedBy(n.items[i].plan)
          BY <4>2 DEF Retired, ChangedBy, Changes
        <5>2. QED
          BY <2>2, <5>1
      <4>3. QED
        BY <1>3, <4>1, <4>2
    <3>4. h[o] # None => h[o].merged_into # m
      BY <1>1, <3>2, <3>3
    <3>5. QED
      BY <3>1, <3>2, <3>4
  <2>3. QED
    BY <1>1, <2>1, <2>2
<1>7. QED
  BY <1>1, <1>4, <1>5, <1>6 DEF AliasesOf

LEMMA StatusOnly ==
    ASSUME NEW e, EntryRight(e), NEW s, NEW n, n = [e EXCEPT !.status = s],
           s \in Live \/ (Changes(e.plan) = {} /\ s # "not_recorded")
    PROVE  EntryRight(n) /\ n.plan = e.plan /\ n.refs = e.refs
<1>1. IsEntry(n) /\ n.plan = e.plan /\ n.refs = e.refs /\ n.mems = e.mems /\ n.action = e.action /\ n.status = s
  BY DEF EntryRight, IsEntry
<1>2. s # "not_recorded"
  BY DEF Live
<1>3. QED
  BY <1>1, <1>2 DEF EntryRight

\* Items of which only the status is another, or the plan gone.
LEMMA ItemsKept ==
    ASSUME NEW old, ItemsRight(old), NEW new, DOMAIN new = DOMAIN old,
           \A i \in DOMAIN old : /\ EntryRight(new[i]) /\ new[i].refs = old[i].refs
                                 /\ ChangedBy(new[i].plan) \subseteq ChangedBy(old[i].plan)
    PROVE  ItemsRight(new)
<1>1. Entered(new)
  BY DEF Entered
<1>2. Disjoint(new)
  <2>1. SUFFICES ASSUME NEW i \in DOMAIN old, NEW j \in DOMAIN old, i # j
                 PROVE  ChangedBy(new[i].plan) \cap ChangedBy(new[j].plan) = {}
    BY DEF Disjoint
  <2>2. ChangedBy(old[i].plan) \cap ChangedBy(old[j].plan) = {}
    BY <2>1 DEF ItemsRight, Disjoint
  <2>3. QED
    BY <2>2
<1>3. Whole(new)
  BY DEF ItemsRight, Whole
<1>4. QED
  BY <1>1, <1>2, <1>3 DEF ItemsRight

LEMMA ExecutedItems ==
    ASSUME NEW n, IsWork(n), ItemsRight(n.items)
    PROVE  LET r == Executed(n) IN
           /\ IsWork(r) /\ r.targets = n.targets /\ r.fragments = n.fragments /\ ItemsRight(r.items)
           /\ r.status = "completed" => DOMAIN r.items # {}
<1>1. PICK old : old = n.items
  OBVIOUS
<1>2. PICK new : new = [i \in DOMAIN old |->
            IF i \in ToWrite(n) THEN [old[i] EXCEPT !.status = "saved"]
            ELSE IF old[i].status = "prepared" THEN [old[i] EXCEPT !.status = "recovery_required"]
            ELSE old[i]]
  OBVIOUS
<1>3. PICK removed : removed = [m \in Mems |->
            n.removed[m] \cup UNION {IF m \in n.items[i].mems THEN n.items[i].plan.ranges ELSE {} : i \in ToWrite(n)}]
  OBVIOUS
<1>4. PICK k : k = [n EXCEPT !.items = new, !.removed = removed]
  OBVIOUS
<1>5. Executed(n) = Derived(k)
  BY <1>1, <1>2, <1>3, <1>4 DEF Executed
<1>6. IsWork(k) /\ k.targets = n.targets /\ k.fragments = n.fragments /\ k.items = new
  BY <1>4 DEF IsWork
<1>7. ASSUME NEW i \in DOMAIN old
      PROVE  EntryRight(new[i]) /\ new[i].plan = old[i].plan /\ new[i].refs = old[i].refs
  <2>1. EntryRight(old[i])
    BY <1>1 DEF ItemsRight, Entered
  <2>2. "saved" \in Live /\ "recovery_required" \in Live
    BY DEF Live
  <2>3. PICK a : a = [old[i] EXCEPT !.status = "saved"]
    OBVIOUS
  <2>4. PICK b : b = [old[i] EXCEPT !.status = "recovery_required"]
    OBVIOUS
  <2>5. new[i] \in {a, b, old[i]}
    BY <1>2, <2>3, <2>4
  <2>6. EntryRight(a) /\ a.plan = old[i].plan /\ a.refs = old[i].refs
    BY <2>1, <2>2, <2>3, StatusOnly
  <2>7. EntryRight(b) /\ b.plan = old[i].plan /\ b.refs = old[i].refs
    BY <2>1, <2>2, <2>4, StatusOnly
  <2>8. QED
    BY <2>1, <2>5, <2>6, <2>7
<1>8. DOMAIN new = DOMAIN old
  BY <1>2
<1>9. ItemsRight(new)
  BY <1>1, <1>7, <1>8, ItemsKept
<1>10. QED
  BY <1>5, <1>6, <1>9, DerivedSame DEF SameWork

-----------------------------------------------------------------------------
(* Every step keeps the invariant, and leaves native memories to their owner. *)

NativeLeft == \A m \in W.native : mem'[m] # mem[m] => edits' # edits

LEMMA WorldRight ==
    ASSUME WorldsRight, world \in DOMAIN Worlds
    PROVE  /\ None \notin Mems /\ W.native \subseteq Mems
           /\ \A m \in DOMAIN W.edited : \A head \in W.edited[m] :
                head # None => IsHead(head) /\ head.merged_into = None
           /\ \A refs \in W.reads : refs \in Seq(Mems)
           /\ \A offer \in W.offers :
                /\ DOMAIN offer.items \subseteq Mems \ W.native
                /\ \A i \in DOMAIN offer.items : WellFormed(offer.items[i])
BY DEF WorldsRight, W

LEMMA EntrySame ==
    ASSUME NEW e, UNCHANGED world, shown \subseteq shown', EntryRight(e) PROVE EntryRight(e)'
<1>1. W' = W
  BY WorldSame
<1>2. PICK a : a = e.action
  OBVIOUS
<1>3. PICK p : p = e.plan
  OBVIOUS
<1>4. PlanRight(a, p)'
  BY <1>2, <1>3, PlanSame DEF EntryRight
<1>5. QED
  BY <1>1, <1>2, <1>3, <1>4 DEF EntryRight

LEMMA ItemsSame ==
    ASSUME NEW items, UNCHANGED world, shown \subseteq shown', ItemsRight(items) PROVE ItemsRight(items)'
<1>1. W' = W
  BY WorldSame
<1>2. Entered(items)'
  <2>1. SUFFICES ASSUME NEW i \in DOMAIN items PROVE EntryRight(items[i])'
    BY DEF Entered
  <2>2. PICK e : e = items[i]
    OBVIOUS
  <2>3. EntryRight(e)'
    BY <2>2, EntrySame DEF ItemsRight, Entered
  <2>4. QED
    BY <2>2, <2>3
<1>3. QED
  BY <1>1, <1>2 DEF ItemsRight, Disjoint, Whole

\* A work goes on with what it has read and with items that are right.
LEMMA Carried ==
    ASSUME WorkRight(work), UNCHANGED world, shown \subseteq shown', fresh' => fresh /\ mem' = mem,
           NEW n, work' = n, IsWork(n), n.targets = work.targets, n.fragments = work.fragments,
           ItemsRight(n.items), n.status = "completed" => DOMAIN n.items # {}
    PROVE  WorkRight(work)'
<1>1. PICK items : items = n.items
  OBVIOUS
<1>2. ItemsRight(items)'
  BY <1>1, ItemsSame
<1>3. PICK t : t = n.targets
  OBVIOUS
<1>4. PICK f : f = n.fragments
  OBVIOUS
<1>5. ReadOf(t, f)
  BY <1>3, <1>4 DEF WorkRight
<1>6. ReadOf(t, f)'
  BY <1>5 DEF ReadOf
<1>7. QED
  BY <1>1, <1>2, <1>3, <1>4, <1>6 DEF WorkRight, IsWork

LEMMA WorkKept ==
    ASSUME WorkRight(work), UNCHANGED << world, work >>, shown \subseteq shown', fresh' => fresh /\ mem' = mem
    PROVE  WorkRight(work)'
<1>1. PICK n : n = work
  OBVIOUS
<1>2. /\ IsWork(n) /\ ItemsRight(n.items)
      /\ n.status = "completed" => DOMAIN n.items # {}
  BY <1>1 DEF WorkRight
<1>3. QED
  BY <1>1, <1>2, Carried

LEMMA RefusedByWorkKeeps == ASSUME Inv, RefusedByWork PROVE Inv' /\ NativeLeft
<1> USE DEF RefusedByWork, outside
<1>1. W' = W
  BY WorldSame
<1>2. WorkRight(work)'
  BY WorkKept DEF Inv
<1>3. RefreshHelps'
  BY DEF Inv, RefreshHelps, Told
<1>4. AliasesStay' /\ Heads'
  BY DEF Inv, AliasesStay, AliasesOf, Heads
<1>5. QED
  BY <1>2, <1>3, <1>4 DEF Inv, NativeLeft

LEMMA ConfigureKeeps == ASSUME Inv, Configure PROVE Inv' /\ NativeLeft
<1> USE DEF Configure
<1>1. work # None => WorkRight(work)'
  BY WorkKept DEF Inv
<1>2. AliasesStay' /\ Heads' /\ RefreshHelps'
  BY DEF Inv, AliasesStay, AliasesOf, Heads, RefreshHelps
<1>3. QED
  BY <1>1, <1>2 DEF Inv, NativeLeft

LEMMA EditOutsideKeeps ==
    ASSUME Inv, WorldsRight, NEW m \in Mems, EditOutside(m) PROVE Inv' /\ NativeLeft
<1>1. PICK head \in W.edited[m] : mem' = [mem EXCEPT ![m] = head]
  BY DEF EditOutside
<1>2. (head # None => IsHead(head) /\ head.merged_into = None) /\ None \notin Mems
  BY WorldRight DEF Inv, EditOutside
<1>3. DOMAIN mem = Mems /\ \A k \in Mems : mem'[k] = IF k = m THEN head ELSE mem[k]
  BY <1>1 DEF Inv, Heads
<1>4. Heads'
  BY <1>1, <1>2, <1>3 DEF Inv, Heads
<1>5. AliasesStay'
  <2>1. SUFFICES ASSUME NEW k \in Mems, mem'[k] # None, mem'[k].merged_into # None
                 PROVE  LET other == mem'[k].merged_into IN
                        /\ other \in Mems \ {k} /\ mem'[k].validity = "retracted"
                        /\ mem'[other] # None => mem'[other].merged_into # k
    BY DEF AliasesStay, AliasesOf
  <2>2. k # m /\ mem'[k] = mem[k]
    BY <1>2, <1>3, <2>1
  <2>3. LET other == mem[k].merged_into IN
        /\ other \in Mems \ {k} /\ mem[k].validity = "retracted"
        /\ mem[other] # None => mem[other].merged_into # k
    BY <2>1, <2>2 DEF Inv, AliasesStay, AliasesOf
  <2>4. QED
    BY <1>2, <1>3, <2>2, <2>3
<1>6. work # None => WorkRight(work)'
  BY WorkKept DEF Inv, EditOutside
<1>7. QED
  BY <1>4, <1>5, <1>6 DEF Inv, EditOutside, NativeLeft, RefreshHelps

LEMMA ExecuteKeeps ==
    ASSUME Inv, WorldsRight, work # None, NEW n, IsWork(n), n.targets = work.targets,
           n.fragments = work.fragments, ItemsRight(n.items), Execute(n),
           UNCHANGED << world, edits, shown, vain >>
    PROVE  Inv' /\ NativeLeft
<1>1. PICK h : h = Written(n)
  OBVIOUS
<1>2. mem' = h
  BY <1>1 DEF Execute
<1>3. /\ DOMAIN h = Mems /\ \A m \in Mems : h[m] # None => IsHead(h[m])
      /\ AliasesOf(h)
      /\ \A m \in W.native : h[m] = mem[m]
  BY <1>1, WorldRight, WrittenRight DEF Inv, AliasesStay
<1>4. PICK r : r = Executed(n)
  OBVIOUS
<1>5. /\ IsWork(r) /\ r.targets = work.targets /\ r.fragments = work.fragments /\ ItemsRight(r.items)
      /\ r.status = "completed" => DOMAIN r.items # {}
  BY <1>4, ExecutedItems
<1>6. WorkRight(work)'
  BY <1>4, <1>5, Carried DEF Execute, Inv
<1>7. Heads' /\ AliasesStay'
  BY <1>2, <1>3 DEF Heads, AliasesStay, AliasesOf
<1>8. QED
  BY <1>2, <1>3, <1>6, <1>7 DEF Inv, NativeLeft, RefreshHelps

LEMMA Snapped ==
    ASSUME Inv, NEW w, IsWork(w), ItemsRight(w.items), w.status = "completed" => DOMAIN w.items # {},
           work' = Snapshot(w), UNCHANGED << mem, world, shown >>
    PROVE  WorkRight(work)'
<1>1. PICK t : t = [m \in Mems |-> IF m \in W.asked THEN mem[m] ELSE None]
  OBVIOUS
<1>2. PICK f : f = [m \in Mems |-> {}]
  OBVIOUS
<1>3. PICK n : n = [w EXCEPT !.targets = t, !.fields = {}, !.fragments = f, !.guard = NativeGuard]
  OBVIOUS
<1>4. work' = n
  BY <1>1, <1>2, <1>3 DEF Snapshot
<1>5. IsWork(n) /\ n.targets = t /\ n.fragments = f /\ n.items = w.items /\ n.status = w.status
  BY <1>3 DEF IsWork
<1>6. ReadOf(t, f)'
  BY <1>1, <1>2 DEF ReadOf, Inv, Heads
<1>7. PICK items : items = w.items
  OBVIOUS
<1>8. ItemsRight(items)'
  BY <1>7, ItemsSame
<1>9. QED
  BY <1>4, <1>5, <1>6, <1>7, <1>8 DEF WorkRight, IsWork

LEMMA PrepareKeeps == ASSUME Inv, Prepare PROVE Inv' /\ NativeLeft
<1>1. PICK w : w = NewWork
  OBVIOUS
<1>2. IsWork(w) /\ DOMAIN w.items = {} /\ w.status = "pending"
  BY <1>1 DEF NewWork, IsWork
<1>3. ItemsRight(w.items)
  BY <1>2 DEF ItemsRight, Entered, Disjoint, Whole
<1>4. WorkRight(work)'
  BY <1>1, <1>2, <1>3, Snapped DEF Prepare, outside
<1>5. AliasesStay' /\ Heads' /\ RefreshHelps'
  BY DEF Inv, AliasesStay, AliasesOf, Heads, RefreshHelps, Prepare, outside
<1>6. QED
  BY <1>4, <1>5 DEF Inv, NativeLeft, Prepare, outside

LEMMA RefreshKeeps == ASSUME Inv, Refresh PROVE Inv' /\ NativeLeft
<1>1. PICK w : w = work
  OBVIOUS
<1>2. /\ IsWork(w) /\ ItemsRight(w.items)
      /\ w.status = "completed" => DOMAIN w.items # {}
  BY <1>1 DEF Inv, WorkRight, Refresh
<1>3. WorkRight(work)'
  BY <1>1, <1>2, Snapped DEF Refresh, outside
<1>4. AliasesStay' /\ Heads' /\ RefreshHelps'
  BY DEF Inv, AliasesStay, AliasesOf, Heads, RefreshHelps, Refresh, outside
<1>5. QED
  BY <1>3, <1>4 DEF Inv, NativeLeft, Refresh, outside

LEMMA PageRead ==
    ASSUME WorkRight(work), UNCHANGED << mem, world, fresh >>, NEW page,
           work' = [work EXCEPT !.fields = work'.fields,
                    !.fragments = [m \in Mems |-> work.fragments[m] \cup {r[2] : r \in {q \in page : q[1] = m}}]],
           shown' = shown \cup {<< r[1], work.targets[r[1]], r[2] >> : r \in page}
    PROVE  WorkRight(work)'
<1>1. PICK w : w = work
  OBVIOUS
<1>2. PICK g : g = [m \in Mems |-> w.fragments[m] \cup {r[2] : r \in {q \in page : q[1] = m}}]
  OBVIOUS
<1>3. PICK n : n = [w EXCEPT !.fields = work'.fields, !.fragments = g]
  OBVIOUS
<1>4. work' = n
  BY <1>1, <1>2, <1>3
<1>5. /\ IsWork(w) /\ ItemsRight(w.items)
      /\ w.status = "completed" => DOMAIN w.items # {}
  BY <1>1 DEF WorkRight
<1>6. IsWork(n) /\ n.targets = w.targets /\ n.fragments = g /\ n.items = w.items /\ n.status = w.status
  BY <1>3, <1>5 DEF IsWork
<1>7. PICK items : items = w.items
  OBVIOUS
<1>8. ItemsRight(items)'
  BY <1>5, <1>7, ItemsSame
<1>9. PICK t : t = w.targets
  OBVIOUS
<1>10. ReadOf(t, w.fragments)
  BY <1>1, <1>9 DEF WorkRight
<1>11. ReadOf(t, g)'
  <2>1. ASSUME NEW m \in Mems, NEW f \in g[m] PROVE << m, t[m], f >> \in shown'
    <3>1. CASE f \in w.fragments[m]
      BY <1>10, <3>1 DEF ReadOf
    <3>2. CASE f \notin w.fragments[m]
      <4>1. PICK r \in page : r[1] = m /\ f = r[2]
        BY <1>2, <2>1, <3>2
      <4>2. << r[1], work.targets[r[1]], r[2] >> \in shown'
        OBVIOUS
      <4>3. QED
        BY <1>1, <1>9, <4>1, <4>2
    <3>3. QED
      BY <3>1, <3>2
  <2>2. DOMAIN g = Mems
    BY <1>2
  <2>3. QED
    BY <1>10, <2>1, <2>2 DEF ReadOf
<1>12. QED
  BY <1>4, <1>5, <1>6, <1>7, <1>8, <1>9, <1>11 DEF WorkRight, IsWork

LEMMA ReadTargetsKeeps ==
    ASSUME Inv, WorldsRight, NEW refs \in W.reads, NEW offset, ReadTargets(refs, offset)
    PROVE  Inv' /\ NativeLeft
<1>1. WorkRight(work) /\ UNCHANGED << mem, world, fresh, edits >>
  BY DEF ReadTargets, outside, Inv
<1>2. ToSet(refs) \subseteq Mems
  <2>1. refs \in Seq(Mems)
    BY WorldRight DEF Inv
  <2>2. QED
    BY <2>1 DEF ToSet
<1>3. WorkRight(work)' /\ RefreshHelps'
  <2>1. CASE HeadMoved(refs)
    <3>1. PICK m \in ToSet(refs) : mem[m] # work.targets[m] /\ work.targets[m] # None
      BY <2>1 DEF HeadMoved, ReadTargets
    <3>2. ~fresh
      BY <1>1, <1>2, <3>1 DEF WorkRight, ReadOf
    <3>3. UNCHANGED << work, shown >> /\ vain' = vain
      BY <2>1, <3>2 DEF ReadTargets, Told
    <3>4. QED
      BY <1>1, <3>3, WorkKept DEF Inv, RefreshHelps
  <2>2. CASE ~HeadMoved(refs)
    <3>1. PICK page : page = Page(Rows(refs), offset)
      OBVIOUS
    <3>2. PICK fields : fields = work.fields \cup ToSet(refs)
      OBVIOUS
    <3>3. PICK g : g = [m \in Mems |-> work.fragments[m] \cup {r[2] : r \in {q \in page : q[1] = m}}]
      OBVIOUS
    <3>4. /\ work' = [work EXCEPT !.fields = fields, !.fragments = g]
          /\ shown' = shown \cup {<< r[1], work.targets[r[1]], r[2] >> : r \in page} /\ vain' = vain
      BY <2>2, <3>1, <3>2, <3>3 DEF ReadTargets
    <3>5. PICK w : w = work
      OBVIOUS
    <3>6. PICK n : n = [w EXCEPT !.fields = fields, !.fragments = g]
      OBVIOUS
    <3>7. n.fields = fields
      BY <1>1, <3>5, <3>6 DEF WorkRight, IsWork
    <3>8. work' = [work EXCEPT !.fields = work'.fields, !.fragments = g]
      BY <3>4, <3>5, <3>6, <3>7
    <3>9. WorkRight(work)'
      BY <1>1, <3>3, <3>4, <3>8, PageRead
    <3>10. QED
      BY <3>4, <3>9 DEF Inv, RefreshHelps
  <2>3. QED
    BY <2>1, <2>2
<1>4. AliasesStay' /\ Heads'
  BY <1>1 DEF Inv, AliasesStay, AliasesOf, Heads
<1>5. QED
  BY <1>1, <1>3, <1>4 DEF Inv, NativeLeft

\* A call that fails leaves the work as it was, but for its charge.
LEMMA Failed ==
    ASSUME Inv, NEW w, IsWork(w), w.targets = work.targets, w.fragments = work.fragments, ItemsRight(w.items),
           work # None, work' = AfterError(w), vain' \subseteq vain \cup {"policy", "native"},
           UNCHANGED << mem, fresh, world, edits, shown >>
    PROVE  Inv' /\ NativeLeft
<1>1. PICK n : n = AfterError(w)
  OBVIOUS
<1>2. SameWork(n, w) /\ n.status # "completed"
  BY <1>1, AfterErrorSame
<1>3. IsWork(n) /\ n.targets = work.targets /\ n.fragments = work.fragments /\ n.items = w.items
  BY <1>2 DEF SameWork
<1>4. WorkRight(work)'
  BY <1>1, <1>2, <1>3, Carried DEF Inv
<1>5. AliasesStay' /\ Heads' /\ RefreshHelps'
  BY DEF Inv, AliasesStay, AliasesOf, Heads, RefreshHelps
<1>6. QED
  BY <1>4, <1>5 DEF Inv, NativeLeft

LEMMA RefuseKeeps ==
    ASSUME Inv, work # None, NEW cause \in {None, "policy"}, Refuse(cause), UNCHANGED << world, edits, shown >>
    PROVE  Inv' /\ NativeLeft
<1>1. PICK w : w = Charged
  OBVIOUS
<1>2. /\ IsWork(w) /\ ItemsRight(w.items) /\ w.targets = work.targets /\ w.fragments = work.fragments
  BY <1>1, ChargedSame DEF Inv, WorkRight, SameWork
<1>3. vain' \subseteq vain \cup {"policy", "native"}
  BY DEF Refuse, Told
<1>4. QED
  BY <1>1, <1>2, <1>3, Failed DEF Refuse

LEMMA SubmitKeeps ==
    ASSUME Inv, WorldsRight, NEW offer \in W.offers, Submit(offer) PROVE Inv' /\ NativeLeft
<1>1. /\ work # None /\ WorkRight(work) /\ ~Recovery
      /\ UNCHANGED << world, edits, shown >>
  BY DEF Submit, Inv
<1>2. /\ None \notin Mems /\ DOMAIN offer.items \subseteq Mems \ W.native
      /\ \A i \in DOMAIN offer.items : WellFormed(offer.items[i])
  BY WorldRight DEF Inv
<1>3. CASE work.policy # config
  <2>1. Refuse("policy")
    BY <1>3 DEF Submit
  <2>2. QED
    BY <1>1, <2>1, RefuseKeeps
<1>4. CASE work.policy = config /\ ((Focus # {} /\ DOMAIN offer.items # Focus) \/ ~CoverageHolds(offer))
  <2>1. Refuse(None)
    BY <1>4 DEF Submit
  <2>2. QED
    BY <1>1, <2>1, RefuseKeeps
<1>5. CASE /\ work.policy = config
           /\ ~((Focus # {} /\ DOMAIN offer.items # Focus) \/ ~CoverageHolds(offer))
  <2>1. PICK items : items = Renewed(work.items, Proposed(offer))
    OBVIOUS
  <2>2. ItemsRight(items)
    BY <1>1, <1>2, <1>5, <2>1, ProposedRight
  <2>3. PICK w : w = Charged
    OBVIOUS
  <2>4. SameWork(w, work)
    BY <1>1, <2>3, ChargedSame DEF WorkRight
  <2>5. PICK n : n = [w EXCEPT !.items = items]
    OBVIOUS
  <2>6. IsWork(n) /\ n.targets = work.targets /\ n.fragments = work.fragments /\ n.items = items
    BY <2>4, <2>5 DEF SameWork, IsWork
  <2>7. n = [Charged EXCEPT !.items = Renewed(@, Proposed(offer))]
    <3>1. Charged.items = work.items
      BY <2>3, <2>4 DEF SameWork
    <3>2. QED
      BY <2>1, <2>3, <2>5, <3>1
  <2>8. IF GuardCurrent THEN Execute(n) /\ UNCHANGED vain
        ELSE work' = AfterError(n) /\ Told("native", fresh) /\ UNCHANGED << mem, fresh >>
    BY <1>5, <2>7 DEF Submit
  <2>9. CASE GuardCurrent
    BY <1>1, <2>2, <2>6, <2>8, <2>9, ExecuteKeeps
  <2>10. CASE ~GuardCurrent
    <3>1. vain' \subseteq vain \cup {"policy", "native"}
      BY <2>8, <2>10 DEF Told
    <3>2. QED
      BY <1>1, <2>2, <2>6, <2>8, <2>10, <3>1, Failed
  <2>11. QED
    BY <2>9, <2>10
<1>6. QED
  BY <1>3, <1>4, <1>5

LEMMA ResumeKeeps == ASSUME Inv, WorldsRight, Resume PROVE Inv' /\ NativeLeft
<1>1. /\ work # None /\ WorkRight(work)
      /\ UNCHANGED << world, edits, shown >>
  BY DEF Resume, Inv
<1>2. CASE GuardCurrent
  <2>1. PICK n : n = work
    OBVIOUS
  <2>2. IsWork(n) /\ n.targets = work.targets /\ n.fragments = work.fragments /\ ItemsRight(n.items)
    BY <1>1, <2>1 DEF WorkRight
  <2>3. Execute(n) /\ UNCHANGED vain
    BY <1>2, <2>1 DEF Resume
  <2>4. QED
    BY <1>1, <2>2, <2>3, ExecuteKeeps
<1>3. CASE ~GuardCurrent
  <2>1. UNCHANGED << work, mem, fresh >> /\ vain' \subseteq vain \cup {"policy", "native"}
    BY <1>3 DEF Resume, Told
  <2>2. WorkRight(work)'
    BY <1>1, <2>1, WorkKept
  <2>3. AliasesStay' /\ Heads' /\ RefreshHelps'
    BY <2>1 DEF Inv, AliasesStay, AliasesOf, Heads, RefreshHelps
  <2>4. QED
    BY <1>1, <2>1, <2>2, <2>3 DEF Inv, NativeLeft
<1>4. QED
  BY <1>2, <1>3

LEMMA CancelKeeps == ASSUME Inv, Cancel PROVE Inv' /\ NativeLeft
<1> DEFINE unsure == {i \in DOMAIN work.items : Uncertain(i)}
<1>1. /\ WorkRight(work) /\ UNCHANGED << world, edits, shown, mem, fresh, vain >>
  BY DEF Cancel, Inv, outside
<1>2. PICK old : old = work.items
  OBVIOUS
<1>3. ItemsRight(old)
  BY <1>1, <1>2 DEF WorkRight
<1>4. PICK new : new = [i \in DOMAIN old |->
            IF i \in unsure THEN [old[i] EXCEPT !.status = "recovery_required"]
            ELSE IF old[i].status \in Settled THEN old[i]
            ELSE [old[i] EXCEPT !.status = "cancelled", !.plan = NoPlan]]
  OBVIOUS
<1>5. PICK s : s = IF "saved" \in Statuses THEN "partial" ELSE IF unsure # {} THEN "submitted" ELSE "cancelled"
  OBVIOUS
<1>6. PICK t : t = (unsure = {})
  OBVIOUS
<1>7. PICK w : w = work
  OBVIOUS
<1>8. PICK n : n = [w EXCEPT !.items = new, !.terminal = t, !.status = s]
  OBVIOUS
<1>9. work' = n
  BY <1>2, <1>4, <1>5, <1>6, <1>7, <1>8 DEF Cancel
<1>10. IsWork(n) /\ n.targets = w.targets /\ n.fragments = w.fragments /\ n.items = new /\ n.status = s
  BY <1>1, <1>7, <1>8 DEF WorkRight, IsWork
<1>11. ASSUME NEW i \in DOMAIN old
       PROVE  /\ EntryRight(new[i]) /\ new[i].refs = old[i].refs
              /\ ChangedBy(new[i].plan) \subseteq ChangedBy(old[i].plan)
  <2>1. EntryRight(old[i])
    BY <1>3 DEF ItemsRight, Entered
  <2>2. PICK a : a = [old[i] EXCEPT !.status = "recovery_required"]
    OBVIOUS
  <2>3. PICK b : b = [old[i] EXCEPT !.status = "cancelled", !.plan = NoPlan]
    OBVIOUS
  <2>4. new[i] \in {a, b, old[i]}
    BY <1>4, <2>2, <2>3
  <2>5. "recovery_required" \in Live
    BY DEF Live
  <2>6. EntryRight(a) /\ a.refs = old[i].refs /\ a.plan = old[i].plan
    BY <2>1, <2>2, <2>5, StatusOnly
  <2>7. IsEntry(b) /\ b.plan = NoPlan /\ b.status = "cancelled" /\ b.refs = old[i].refs
    BY <2>1, <2>3 DEF EntryRight, IsEntry
  <2>8. EntryRight(b) /\ ChangedBy(b.plan) = {}
    BY <2>7, RefusedEntry
  <2>9. QED
    BY <2>1, <2>4, <2>6, <2>7, <2>8
<1>12. ItemsRight(new)
  BY <1>3, <1>4, <1>11, ItemsKept
<1>13. s # "completed"
  BY <1>5
<1>14. WorkRight(work)'
  BY <1>1, <1>7, <1>9, <1>10, <1>12, <1>13, Carried
<1>15. AliasesStay' /\ Heads' /\ RefreshHelps'
  BY <1>1 DEF Inv, AliasesStay, AliasesOf, Heads, RefreshHelps
<1>16. QED
  BY <1>1, <1>14, <1>15 DEF Inv, NativeLeft

LEMMA StutterKeeps == ASSUME Inv, UNCHANGED vars PROVE Inv' /\ NativeLeft
<1> USE DEF vars
<1>1. work # None => WorkRight(work)'
  BY WorkKept DEF Inv
<1>2. AliasesStay' /\ Heads' /\ RefreshHelps'
  BY DEF Inv, AliasesStay, AliasesOf, Heads, RefreshHelps
<1>3. QED
  BY <1>1, <1>2 DEF Inv, NativeLeft

LEMMA StepKeeps == ASSUME Inv, WorldsRight, [Next]_vars PROVE Inv' /\ NativeLeft
<1>1. CASE Prepare
  BY <1>1, PrepareKeeps
<1>2. CASE RefusedByWork
  BY <1>2, RefusedByWorkKeeps
<1>3. CASE Refresh
  BY <1>3, RefreshKeeps
<1>4. CASE Resume
  BY <1>4, ResumeKeeps
<1>5. CASE Cancel
  BY <1>5, CancelKeeps
<1>6. CASE Configure
  BY <1>6, ConfigureKeeps
<1>7. ASSUME NEW refs \in W.reads, NEW offset, ReadTargets(refs, offset) PROVE Inv' /\ NativeLeft
  BY <1>7, ReadTargetsKeeps
<1>8. ASSUME NEW offer \in W.offers, Submit(offer) PROVE Inv' /\ NativeLeft
  BY <1>8, SubmitKeeps
<1>9. ASSUME NEW m \in Mems, EditOutside(m) PROVE Inv' /\ NativeLeft
  BY <1>9, EditOutsideKeeps
<1>10. CASE UNCHANGED vars
  BY <1>10, StutterKeeps
<1>11. QED
  BY <1>1, <1>2, <1>3, <1>4, <1>5, <1>6, <1>7, <1>8, <1>9, <1>10 DEF Next

LEMMA Begin == ASSUME WorldsRight, Init PROVE Inv
<1>1. W.mem = mem /\ world \in DOMAIN Worlds
  BY DEF Init, W
<1>2. Heads /\ AliasesStay
  BY <1>1 DEF WorldsRight, W, Heads, AliasesStay
<1>3. QED
  BY <1>1, <1>2 DEF Inv, Init, RefreshHelps

\* What the invariant says of what was saved.
LEMMA InvMeans ==
    ASSUME Inv, work # None
    PROVE  /\ ReadFirst /\ MergeLosesNothing /\ UserDecides /\ ActionsMakeSense
           /\ OncePerMemory /\ PatchesKeepSome /\ CompleteIsWhole
<1>1. ASSUME NEW i \in SavedItems
      PROVE  LET e == work.items[i] IN
             /\ PlanRead(e.action, e.plan) /\ PlanKeeps(e.action, e.plan) /\ PlanSaid(e.plan)
             /\ PlanSense(e.action, e.plan) /\ PlanMerges(e.action, e.plan)
  BY DEF SavedItems, Inv, WorkRight, ItemsRight, Entered, EntryRight, PlanRight
<1>2. \A i : SavedChanges(i) = Changes(work.items[i].plan)
  BY DEF SavedChanges, Changes
<1>3. \A i : UserSaid(i) <=> Said(work.items[i].plan)
  BY DEF UserSaid, Said
<1>4. ReadFirst
  BY <1>1, <1>2 DEF ReadFirst, PlanRead
<1>5. MergeLosesNothing
  <2>1. SUFFICES ASSUME NEW i \in SavedItems, work.items[i].action = "MERGE"
                 PROVE  LET changes == SavedChanges(i)
                            survivor == CHOOSE c \in changes : c.after.merged_into = None
                            befores == {c.before : c \in changes} IN
                        /\ UNION {m.scopes : m \in befores} \subseteq survivor.after.scopes
                        /\ (\E m \in befores : m.explicit) => survivor.after.explicit
                        /\ (\E n \in Scalars : \E m \in befores : m[n] # survivor.after[n]) => UserSaid(i)
                        /\ \A c \in changes \ {survivor} : c.after.merged_into = survivor.memory
    BY DEF MergeLosesNothing
  <2>2. PICK p : p = work.items[i].plan
    OBVIOUS
  <2>3. SavedChanges(i) = Changes(p) /\ (UserSaid(i) <=> Said(p)) /\ PlanMerges("MERGE", p)
    BY <1>1, <1>2, <1>3, <2>1, <2>2
  <2>4. CASE Changes(p) = {}
    BY <2>3, <2>4
  <2>5. CASE Changes(p) # {}
    BY <2>3, <2>5 DEF PlanMerges
  <2>6. QED
    BY <2>4, <2>5
<1>6. UserDecides
  BY <1>1, <1>2, <1>3 DEF UserDecides, PlanSaid
<1>7. ActionsMakeSense
  BY <1>1, <1>2 DEF ActionsMakeSense, PlanSense
<1>8. OncePerMemory
  BY DEF OncePerMemory, SavedItems, Inv, WorkRight, ItemsRight, Disjoint
<1>9. PatchesKeepSome
  BY <1>1, <1>2 DEF PatchesKeepSome, PlanKeeps
<1>10. CompleteIsWhole
  BY DEF CompleteIsWhole, Inv, WorkRight, ItemsRight, Whole, Entered, EntryRight
<1>11. QED
  BY <1>4, <1>5, <1>6, <1>7, <1>8, <1>9, <1>10

(* Whatever the agent offers in whatever order, what a work writes is what  *)
(* was read, what the user said and what the work was asked (compile_item,  *)
(* HostMemory._submit and _execute).                                        *)
THEOREM ProposalRight == ASSUME WorldsRight PROVE Spec => ProposalKept
<1>1. Init => Inv
  BY Begin
<1>2. Inv /\ [Next]_vars => Inv' /\ NativeLeft
  BY StepKeeps
<1>3. Spec => []Inv
  BY <1>1, <1>2, PTL DEF Spec
<1>4. Inv => /\ work # None =>
                 /\ ReadFirst /\ MergeLosesNothing /\ UserDecides /\ ActionsMakeSense
                 /\ OncePerMemory /\ PatchesKeepSome /\ CompleteIsWhole
             /\ AliasesStay /\ RefreshHelps
  BY InvMeans DEF Inv
<1>5. Spec => [][NativeLeft]_vars
  BY <1>2, <1>3, PTL DEF Spec
<1>6. QED
  BY <1>3, <1>4, <1>5, PTL DEF ProposalKept, NativeIsRead, NativeLeft
=============================================================================
