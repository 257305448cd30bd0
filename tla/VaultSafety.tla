----------------------------- MODULE VaultSafety -----------------------------
(* The inductive invariant of VaultMutations and what follows from it.  It   *)
(* has four layers: what everything is (Typed); the transaction of a         *)
(* compaction against its staged copies and the heads (Transacted); the      *)
(* receipts of commits against the heads (Receipted); what Forget relies on  *)
(* (Cleared).                                                                *)
EXTENDS VaultMutations, TLAPS

-----------------------------------------------------------------------------
(* The first layer. *)

\* Every revision there ever was.
Known == Person \cup written

\* What marks a revision that the program wrote.
Marks == Ops \cup Updates \cup Retractions \cup {Short(m) : m \in Mems}

Statuses == {"prepared", "applied"} \cup Terminal

Receipt(w) ==
    /\ works[w] = [st |-> works[w].st, base |-> works[w].base, guard |-> works[w].guard,
                   issues |-> works[w].issues, index |-> works[w].index,
                   settled |-> works[w].settled]
    /\ works[w].st \in [OpsIn(w) -> Statuses]
    /\ OpsIn(w) \subseteq Ops /\ DOMAIN works[w].base \subseteq OpsIn(w)
    /\ works[w].issues \in BOOLEAN /\ works[w].settled \in BOOLEAN
    /\ works[w].index \in {"dirty", "current"}

\* A journal of one of the requests R for the memory m, of a revision in B.
Plans(R, B, m) == {NoPlan} \cup [req : {q \in R : Wants[q] = m}, base : B]

\* Places of a compaction, each with the phase of the journal there.
PhaseAt == [staged |-> "none", histories |-> "staged", replacements |-> "histories",
            removed |-> "replacements", index |-> "sources_removed",
            committed |-> "committed", clear |-> "none"]

Working == hold.op = "compact" /\ hold.at \in Transacting

\* A request under way: its journal is there.
Asking(op) == hold.op = op /\ hold.at \in {"archive", "write", "settle"}

Held ==
    /\ hold = [op |-> hold.op, on |-> hold.on, at |-> hold.at, item |-> hold.item]
    /\ hold = Free \/ (hold.op \in Sections /\ hold.at # "free")
    /\ hold.op = "commit" => hold.on \in Works
    /\ hold.op = "update" => hold.on \in Updates /\ asked[hold.on] # Absent
    /\ hold.op = "retract" => hold.on \in Retractions /\ asked[hold.on] # Absent
    /\ hold.op = "forget" => hold.on \in Mems
    /\ Working => hold.on = staged
    /\ Asking("update") => upd[Wants[hold.on]] # NoPlan
    /\ Asking("retract") => ret[Wants[hold.on]] # NoPlan

FilesTyped ==
    /\ head \in [Mems -> Known \cup {Absent}]
    /\ \A e \in archive : e[1] \in Mems /\ e[3] \in {"writer", "compactor"}
    /\ stale \in BOOLEAN /\ faults \in 0..MaxFaults /\ edits \in 0..MaxEdits
    /\ touched \subseteq Mems /\ written \subseteq Marks

CommitTyped == DOMAIN works = Works /\ \A w \in Works : Receipt(w)

CompactionTyped ==
    /\ journal = [phase |-> journal.phase, of |-> journal.of]
    /\ journal.phase \in Phases /\ journal.of \subseteq Mems \X Known
    /\ staged \subseteq Mems \X Known
    /\ DOMAIN chosen \subseteq Mems /\ \A m \in DOMAIN chosen : chosen[m] \in Known

ExplicitTyped ==
    /\ asked \in [Updates \cup Retractions -> Known \cup {Absent}]
    /\ DOMAIN upd = Mems /\ \A m \in Mems : upd[m] \in Plans(Updates, Known, m)
    /\ DOMAIN ret = Mems /\ \A m \in Mems : ret[m] \in Plans(Retractions, Known \ Retired, m)

GhostsTyped == had \subseteq Mems \X Known /\ forgetting \subseteq Mems /\ forgotten \subseteq Mems

Typed == FilesTyped /\ Held /\ CommitTyped /\ CompactionTyped /\ ExplicitTyped /\ GhostsTyped

-----------------------------------------------------------------------------
(* The second layer. *)

\* Nothing was decided yet about what an earlier section left behind.
Early == hold = Free \/ hold.at \in {"recover", "restore", "unarchive"}

InHand(m, r) == << m, r, "compactor" >> \in archive

\* The journal is of the staged copies, one of a memory.
Journalled ==
    /\ journal.phase = "none" => journal.of = {}
    /\ journal.phase # "none" => journal.of = staged /\ staged # {}
    /\ \A s, t \in staged : s[1] = t[1] => s = t
    /\ journal.phase = "committed" =>
        \A s \in staged : InHand(s[1], s[2]) /\ Short(s[1]) \in written

\* Only recovery and compaction meet a transaction, each at its phases.
Phased ==
    /\ ~Early /\ ~Working => staged = {} /\ journal.phase = "none"
    /\ hold.at \in {"restore", "unarchive"} => journal.phase \notin {"none", "committed"}
    /\ Working => staged # {} /\ chosen = << >> /\ journal.phase = PhaseAt[hold.at]
    /\ Working /\ hold.at \in {"replacements", "removed", "index", "committed"} =>
        \A s \in staged : InHand(s[1], s[2])
    /\ Working /\ hold.at \in {"removed", "index", "committed"} =>
        \A s \in staged : Short(s[1]) \in written

\* A staged memory holds its source or the replacement, but for a person; the
\* replacement is new, and once it is written back it is nowhere.
Shadowed ==
    /\ \A s \in staged :
        /\ head[s[1]] \in {s[2], Short(s[1])} \/ s[1] \in touched
        /\ s[2] # Short(s[1]) /\ << s[1], Short(s[1]) >> \notin had
        /\ hold.at = "unarchive" => head[s[1]] # Short(s[1]) /\ (head[s[1]] = s[2] \/ s[1] \in touched)
    /\ \A m \in DOMAIN chosen : Short(m) \notin written

Transacted == Journalled /\ Phased /\ Shadowed

-----------------------------------------------------------------------------
(* The third layer. *)

\* An operation of another receipt is carried over when it is over, and a frozen
\* one has the revision it was frozen against.
Frozen1(w) ==
    \A o \in OpsIn(w) :
        /\ works[w].st[o] \notin {"settled", "cancelled"} => o \in Own(w)
        /\ works[w].st[o] = "prepared" => o \in DOMAIN works[w].base
        /\ o \in DOMAIN works[w].base =>
            /\ Plan[o].act = "CREATE" => works[w].base[o] = Absent
            /\ Plan[o].act = "UPDATE" => works[w].base[o] # Absent

\* What was written is in its receipt.
OnRecord == \A o \in written \cap Ops : \E w \in Works : o \in Own(w) /\ o \in OpsIn(w)

\* A write under way: its operation is still open, and what it replaces is in
\* the history unless the scan is out of date.
AtFile ==
    hold.op = "commit" /\ hold.at \in {"write", "wrote"} =>
        LET o == hold.item  w == hold.on  m == Plan[o].mem IN
        /\ o \in OpsIn(w) /\ works[w].st[o] = "prepared" /\ Writes(o)
        /\ Retires(o) => Plan[o].into \in written
        /\ hold.at = "wrote" => o \in written /\ (head[m] = o \/ m \in touched)
        /\ hold.at = "write" /\ ~stale =>
            /\ Plan[o].act = "CREATE" => head[m] = Absent
            /\ Plan[o].act = "UPDATE" => head[m] # Absent /\ << m, head[m], "writer" >> \in archive

\* A written operation that is open is acknowledged before anything else is done.
ToReconcile(w, o) ==
    /\ head[Plan[o].mem] = o
    /\ \/ Early \/ hold.at = "reconcile"
       \/ hold.op = "commit" /\ hold.at = "wrote" /\ hold.on = w /\ hold.item = o

Acknowledged ==
    \A w \in Works : \A o \in OpsIn(w) :
        Writes(o) /\ works[w].st[o] = "prepared" /\ o \in written =>
            Plan[o].mem \in touched \/ ToReconcile(w, o)

Receipted ==
    /\ \A w \in Works : Frozen1(w)
    /\ OnRecord /\ AtFile /\ Acknowledged
    /\ ReceiptsAreTrue /\ SurvivorFirst

\* A receipt that completes another finds all of it over and keeps what was settled.
Begun(c) ==
    \/ Saved(c)
    \/ hold.op = "commit" /\ hold.on = c /\ hold.at \in {"ops", "write", "wrote"}

Inheriting ==
    \A c \in Works : Parent[c] # Absent /\ Begun(c) =>
        /\ Saved(Parent[c])
        /\ \A o \in OpsIn(Parent[c]) :
            /\ works[Parent[c]].st[o] \in Terminal
            /\ works[Parent[c]].st[o] = "settled" =>
                \/ o \in OpsIn(c) /\ works[c].st[o] = "settled"
                \/ Plan[o].mem \in forgetting

-----------------------------------------------------------------------------
(* The fourth layer. *)

\* There was a file of m once: a new one is never made under its name.
Existed(m) ==
    m \in Seeded \cup touched \/ \E o \in written \cap Ops : Plan[o].act = "CREATE" /\ Plan[o].mem = m

Existence ==
    /\ \A m \in Mems : head[m] # Absent => Existed(m)
    /\ \A e \in archive : Existed(e[1])
    /\ \A s \in staged : Existed(s[1])
    /\ \A m \in forgetting \cup forgotten : Existed(m)
    /\ Asking("update") \/ Asking("retract") => Existed(Wants[hold.on])

\* What a request is about to write over is in the history.
Requested ==
    /\ hold.op = "update" /\ hold.at = "write" /\ ~stale =>
        << Wants[hold.on], head[Wants[hold.on]], "writer" >> \in archive
    /\ hold.op = "retract" /\ hold.at = "write" =>
        << Wants[hold.on], ret[Wants[hold.on]].base, "writer" >> \in archive

\* How far Forget has come.
Deleting ==
    LET m == hold.on IN
    /\ hold.op = "forget" /\ hold.at \in {"cancel", "retraction", "update", "history"} =>
        /\ m \in forgetting /\ hold.item \in {m, Absent}
        /\ hold.item = Absent => head[m] = Absent \/ m \in touched
    /\ hold.op = "forget" /\ hold.at \in {"retraction", "update", "history"} =>
        \A w \in Works : \A o \in OpsIn(w) : Plan[o].mem = m => works[w].st[o] = "cancelled"
    /\ hold.op = "forget" /\ hold.at \in {"update", "history"} => ret[m] = NoPlan
    /\ hold.op = "forget" /\ hold.at = "history" => upd[m] = NoPlan

Cleared == Existence /\ Requested /\ Deleting /\ ForgottenStaysForgotten

Inv == Typed /\ Transacted /\ Receipted /\ Inheriting /\ Cleared /\ OriginalKept

-----------------------------------------------------------------------------
(* What a section does to the lock. *)

LEMMA Marked ==
    /\ Absent \notin Person /\ Absent \notin Marks /\ Absent \notin Mems /\ Absent \notin Works
    /\ Person \cap Marks = {}
    /\ \A m, n \in Mems : Short(m) \in Marks /\ Short(m) \notin Ops /\ (Short(m) = Short(n) => m = n)
BY FilesAssumption, PlanAssumption, OrderAssumption, RequestsAssumption, MarksAssumption
   DEF Marks, Short

LEMMA Turns ==
    ASSUME Held, NEW at, NEW item
    PROVE  /\ GoTo(at) => hold' = [op |-> hold.op, on |-> hold.on, at |-> at, item |-> hold.item]
           /\ GoWith(item, at) => hold' = [op |-> hold.op, on |-> hold.on, at |-> at, item |-> item]
           /\ hold' = [hold EXCEPT !.on = item, !.at = at] =>
                hold' = [op |-> hold.op, on |-> item, at |-> at, item |-> hold.item]
           /\ hold' = [hold EXCEPT !.op = item, !.at = at] =>
                hold' = [op |-> item, on |-> hold.on, at |-> at, item |-> hold.item]
BY DEF Held, GoTo, GoWith

\* A section that is at one place is not at another.
LEMMA NowhereElse ==
    ASSUME Held
    PROVE  /\ hold = Free <=> hold.op = "none"
           /\ hold = Free <=> hold.at = "free"
BY DEF Held, Free, Sections

-----------------------------------------------------------------------------
(* The first layer holds. *)

LEMMA InitTyped == Init => Typed
<1> SUFFICES ASSUME Init PROVE Typed
  OBVIOUS
<1> USE DEF Init
<1>1. FilesTyped
  <2>1. head \in [Mems -> Known \cup {Absent}]
    BY DEF InitFiles, Known
  <2>2. 0 \in 0..MaxFaults /\ 0 \in 0..MaxEdits
    BY FilesAssumption
  <2>3. QED
    BY <2>1, <2>2, Zenon DEF InitFiles, FilesTyped
<1>2. Held
  BY DEF InitFiles, Held, Free, Working, Asking
<1>3. CommitTyped
  <2>1. DOMAIN << >> = {} /\ << >> \in [{} -> Statuses]
    OBVIOUS
  <2>2. \A w \in Works : works[w] = NoWork
    BY DEF InitCommit
  <2>3. ASSUME NEW w \in Works PROVE Receipt(w)
    <3>1. /\ works[w].st = << >> /\ works[w].base = << >> /\ works[w].guard = {}
          /\ works[w].issues = FALSE /\ works[w].index = "current" /\ works[w].settled = FALSE
      BY <2>2 DEF NoWork
    <3>2. works[w] = [st |-> works[w].st, base |-> works[w].base, guard |-> works[w].guard,
                      issues |-> works[w].issues, index |-> works[w].index,
                      settled |-> works[w].settled]
      BY <2>2, <3>1 DEF NoWork
    <3>3. OpsIn(w) = {}
      BY <2>1, <3>1 DEF OpsIn
    <3>4. QED
      BY <2>1, <3>1, <3>2, <3>3, Zenon DEF Receipt
  <2>4. QED
    BY <2>3 DEF InitCommit, CommitTyped
<1>4. CompactionTyped
  BY DEF InitCompaction, CompactionTyped, NoJournal, Phases
<1>5. ExplicitTyped
  BY DEF InitExplicit, ExplicitTyped, Plans
<1>6. QED
  BY <1>1, <1>2, <1>3, <1>4, <1>5 DEF Typed, GhostsTyped

\* What stays keeps its type, for what is known only grows.
LEMMA StillTyped ==
    ASSUME Typed, written \subseteq written'
    PROVE  /\ Known \subseteq Known'
           /\ UNCHANGED works => CommitTyped'
           /\ UNCHANGED compaction => CompactionTyped'
           /\ UNCHANGED explicit => ExplicitTyped'
           /\ UNCHANGED << had, forgetting, forgotten >> => GhostsTyped'
<1>1. Known \subseteq Known'
  BY DEF Known
<1>2. UNCHANGED works => CommitTyped'
  BY DEF Typed, CommitTyped, Receipt, OpsIn
<1>3. UNCHANGED compaction => CompactionTyped'
  BY <1>1 DEF Typed, CompactionTyped, compaction
<1>4. UNCHANGED explicit => ExplicitTyped'
  BY <1>1 DEF Typed, ExplicitTyped, explicit, Plans
<1>5. UNCHANGED << had, forgetting, forgotten >> => GhostsTyped'
  BY <1>1 DEF Typed, GhostsTyped
<1>6. QED
  BY <1>1, <1>2, <1>3, <1>4, <1>5

LEMMA RecallTyped ==
    ASSUME Typed, written \subseteq written', Recall, UNCHANGED << forgetting, forgotten >>
    PROVE  GhostsTyped'
<1>1. Known \subseteq Known'
  BY StillTyped
<1>2. \A m \in Mems : head[m] # Absent => head[m] \in Known
  BY DEF Typed, FilesTyped
<1>3. had' \subseteq Mems \X Known'
  BY <1>1, <1>2 DEF Recall, Typed, GhostsTyped
<1>4. QED
  BY <1>3 DEF Typed, GhostsTyped

LEMMA FreeHeld == hold' = Free => Held'
BY DEF Held, Free, Working, Asking

LEMMA EnterTyped == Typed /\ EnterSection => Typed'
<1> SUFFICES ASSUME Typed, EnterSection PROVE Typed'
  OBVIOUS
<1>1. FilesTyped'
  BY DEF EnterSection, Typed, FilesTyped, trace, Known
<1>2. Held'
  BY DEF EnterSection, Typed, Held, Enter, Sections, Working, Transacting, Asking, explicit, Free
<1>3. CommitTyped' /\ CompactionTyped' /\ ExplicitTyped' /\ GhostsTyped'
  BY StillTyped DEF EnterSection, commit, ghosts
<1>4. QED
  BY <1>1, <1>2, <1>3 DEF Typed

LEMMA SourceTyped ==
    ASSUME CompactionTyped, NEW m \in Sources
    PROVE  << m, SourceOf(m) >> \in journal.of /\ m \in Mems /\ SourceOf(m) \in Known
<1>1. PICK s \in journal.of : s[1] = m
  BY DEF Sources
<1>2. \E r \in {t[2] : t \in {u \in journal.of : u[1] = m}} : TRUE
  BY <1>1
<1>3. SourceOf(m) \in {t[2] : t \in {u \in journal.of : u[1] = m}}
  BY <1>2 DEF SourceOf
<1>4. PICK t \in journal.of : t[1] = m /\ SourceOf(m) = t[2]
  BY <1>3
<1>5. t = << t[1], t[2] >> /\ t[1] \in Mems /\ t[2] \in Known
  BY DEF CompactionTyped
<1>6. QED
  BY <1>4, <1>5

LEMMA RecoveryTyped == Typed /\ Recovery /\ UNCHANGED << commit, explicit, ghosts >> => Typed'
<1> SUFFICES ASSUME Typed, Recovery, UNCHANGED << commit, explicit, ghosts >> PROVE Typed'
  OBVIOUS
<1>1. UNCHANGED << stale, trace, written, asked, upd, ret, works, had, forgetting, forgotten >>
  BY DEF Recovery, Nothing, Complete, Unjournal, RollBack, Restore, Restored, Unarchive, Unarchived,
         commit, explicit, ghosts
<1>2. CommitTyped' /\ ExplicitTyped' /\ GhostsTyped' /\ Known' = Known
  BY <1>1, StillTyped DEF explicit, Known
<1>3. FilesTyped'
  <2>1. \A m \in Sources : SourceOf(m) \in Known
    BY SourceTyped DEF Typed
  <2>2. CASE Restore
    BY <1>1, <1>2, <2>1, <2>2 DEF Restore, Typed, FilesTyped, trace
  <2>3. CASE ~Restore
    BY <1>1, <1>2, <2>3 DEF Recovery, Nothing, Complete, Unjournal, RollBack, Restored, Unarchive,
         Unarchived, Typed, FilesTyped, trace
  <2>4. QED
    BY <2>2, <2>3
<1>4. Held' /\ hold.at \in {"recover", "restore", "unarchive"}
  <2>1. hold.at \in {"recover", "restore", "unarchive"}
    BY DEF Recovery, Nothing, Complete, Unjournal, RollBack, Restore, Restored, Unarchive, Unarchived
  <2>2. \/ hold' = Free \/ hold' = hold
        \/ \E at \in {"recover", "restore", "unarchive", "reconcile"} : 
              hold' = [op |-> hold.op, on |-> hold.on, at |-> at, item |-> hold.item]
    BY Turns DEF Recovery, Nothing, Complete, Unjournal, RollBack, Restore, Restored, Unarchive,
         Unarchived, Typed, Release
  <2>3. CASE hold' = Free
    BY <2>1, <2>3, FreeHeld
  <2>4. CASE hold' = hold
    BY <1>1, <2>1, <2>4 DEF Typed, Held, Working, Asking, Transacting
  <2>5. ASSUME NEW at \in {"recover", "restore", "unarchive", "reconcile"},
               hold' = [op |-> hold.op, on |-> hold.on, at |-> at, item |-> hold.item]
        PROVE  Held'
    BY <1>1, <2>1, <2>5 DEF Typed, Held, Working, Asking, Transacting, Free
  <2>6. QED
    BY <2>1, <2>2, <2>3, <2>4, <2>5
<1>5. CompactionTyped'
  BY <1>2 DEF Recovery, Nothing, Complete, Unjournal, RollBack, Restore, Restored, Unarchive,
         Unarchived, compaction, Typed, CompactionTyped, NoJournal, Phases
<1>6. QED
  BY <1>2, <1>3, <1>4, <1>5 DEF Typed

\* What an earlier section wrote is acknowledged.
LEMMA AcknowledgeEffect ==
    ASSUME CommitTyped, NEW w \in Works,
           works' = [works EXCEPT ![w].st =
              [o \in OpsIn(w) |-> IF o \in Unacknowledged(w) THEN "applied" ELSE @[o]]]
    PROVE  /\ CommitTyped'
           /\ \A v \in Works : OpsIn(v)' = OpsIn(v) /\ works'[v].base = works[v].base
           /\ \A v \in Works : \A p \in OpsIn(v) :
                works'[v].st[p] = IF v = w /\ p \in Unacknowledged(w) THEN "applied"
                                  ELSE works[v].st[p]
<1>1. Receipt(w) /\ DOMAIN works = Works
  BY DEF CommitTyped
<1>2. works'[w].st = [o \in OpsIn(w) |-> IF o \in Unacknowledged(w) THEN "applied" ELSE works[w].st[o]]
      /\ works'[w] = [st |-> works'[w].st, base |-> works[w].base, guard |-> works[w].guard, issues |-> works[w].issues,
                   index |-> works[w].index, settled |-> works[w].settled]
  BY <1>1 DEF Receipt
<1>3. "applied" \in Statuses /\ works[w].issues \in BOOLEAN
  BY <1>1 DEF Statuses, Receipt
<1>4. DOMAIN works' = Works /\ \A v \in Works : v # w => works'[v] = works[v]
  BY <1>1
<1>5. Receipt(w)' /\ OpsIn(w)' = OpsIn(w)
  <2>1. works'[w].st \in [OpsIn(w) -> Statuses]
    BY <1>1, <1>2, <1>3 DEF Receipt
  <2>2. OpsIn(w)' = OpsIn(w)
    BY <2>1 DEF OpsIn
  <2>3. QED
    BY <1>1, <1>2, <2>1, <2>2 DEF Receipt
<1>6. CommitTyped'
  BY <1>4, <1>5 DEF CommitTyped, Receipt, OpsIn
<1>7. \A v \in Works : OpsIn(v)' = OpsIn(v) /\ works'[v].base = works[v].base
  BY <1>2, <1>4, <1>5 DEF OpsIn
<1>8. \A p \in OpsIn(w) : works'[w].st[p] = IF p \in Unacknowledged(w) THEN "applied" ELSE works[w].st[p]
  BY <1>2
<1>9. QED
  BY <1>4, <1>6, <1>7, <1>8

LEMMA ReconcileTyped == Typed /\ Reconcile /\ UNCHANGED << compaction, explicit, ghosts >> => Typed'
<1> SUFFICES ASSUME Typed, Reconcile, UNCHANGED << compaction, explicit, ghosts >> PROVE Typed'
  OBVIOUS
<1>1. UNCHANGED << head, archive, trace, written, asked, upd, ret, had, forgetting, forgotten >>
  BY DEF Reconcile, UnchangedFiles, explicit, ghosts
<1>2. CompactionTyped' /\ ExplicitTyped' /\ GhostsTyped' /\ Known' = Known
  BY <1>1, StillTyped DEF explicit, Known
<1>3. FilesTyped'
  BY <1>1, <1>2 DEF Reconcile, Scan, Typed, FilesTyped, trace
<1>4. Held'
  <2>1. hold' = hold \/ hold' = [op |-> hold.op, on |-> hold.on, at |-> "begin", item |-> hold.item]
    BY Turns DEF Reconcile, Typed
  <2>2. hold.at = "reconcile" /\ UNCHANGED << asked, upd, ret, staged >>
    BY DEF Reconcile, explicit, compaction
  <2>3. QED
    BY <2>1, <2>2 DEF Typed, Held, Working, Asking, Transacting, Free
<1>5. CommitTyped'
  <2>1. CASE UNCHANGED works
    BY <2>1, StillTyped, <1>1
  <2>2. ASSUME NEW w \in Works,
               works' = [works EXCEPT ![w].st =
                  [o \in OpsIn(w) |-> IF o \in Unacknowledged(w) THEN "applied" ELSE @[o]]]
        PROVE  CommitTyped'
    BY <2>2, AcknowledgeEffect DEF Typed
  <2>3. QED
    BY <2>1, <2>2 DEF Reconcile
<1>6. QED
  BY <1>2, <1>3, <1>4, <1>5 DEF Typed

\* The save of one operation of a receipt.
LEMMA SaveOpEffect ==
    ASSUME CommitTyped, NEW w \in Works, NEW o \in OpsIn(w), NEW s \in Statuses, SaveOp(w, o, s)
    PROVE  /\ CommitTyped'
           /\ \A v \in Works : OpsIn(v)' = OpsIn(v) /\ works'[v].base = works[v].base
           /\ \A v \in Works : \A p \in OpsIn(v) :
                works'[v].st[p] = IF v = w /\ p = o THEN s ELSE works[v].st[p]
<1>1. Receipt(w) /\ DOMAIN works = Works
  BY DEF CommitTyped
<1>2. works'[w] = [st |-> works'[w].st, base |-> works[w].base, guard |-> works[w].guard,
                   issues |-> works[w].issues, index |-> works[w].index, settled |-> works[w].settled]
      /\ works'[w].st = [works[w].st EXCEPT ![o] = s]
  BY <1>1 DEF Receipt, SaveOp
<1>3. Receipt(w)' /\ OpsIn(w)' = OpsIn(w)
  BY <1>1, <1>2 DEF Receipt, OpsIn
<1>4. \A v \in Works : v # w => works'[v] = works[v]
  BY DEF SaveOp
<1>5. CommitTyped'
  BY <1>1, <1>3, <1>4 DEF CommitTyped, Receipt, OpsIn, SaveOp
<1>6. \A v \in Works : OpsIn(v)' = OpsIn(v) /\ works'[v].base = works[v].base
  BY <1>2, <1>3, <1>4 DEF OpsIn
<1>7. \A p \in OpsIn(w) : works'[w].st[p] = IF p = o THEN s ELSE works[w].st[p]
  BY <1>1, <1>2 DEF Receipt, OpsIn
<1>8. QED
  BY <1>4, <1>5, <1>6, <1>7

LEMMA OwnOps == \A w \in Works : Own(w) \subseteq Ops
BY OrderAssumption DEF Own

LEMMA OwnApart == \A v, w \in Works : \A o \in Own(v) \cap Own(w) : v = w
BY OrderAssumption DEF Own

LEMMA NothingIn == \A w : ~Saved(w) => OpsIn(w) = {}
<1>1. DOMAIN << >> = {}
  OBVIOUS
<1>2. QED
  BY <1>1 DEF Saved, NoWork, OpsIn

\* The frozen receipt.
LEMMA ApplyEffect ==
    ASSUME CommitTyped, NEW w \in Works, Apply(w)
    PROVE  /\ CommitTyped' /\ ~Saved(w) /\ OpsIn(w) = {}
           /\ OpsIn(w)' = Inherited(w) \cup Proposed(w) /\ DOMAIN works'[w].base = Proposed(w)
           /\ \A o \in OpsIn(w)' :
                works'[w].st[o] = IF o \in Inherited(w) THEN works[Parent[w]].st[o] ELSE "prepared"
           /\ \A o \in Proposed(w) : works'[w].base[o] =
                IF Writes(o) \/ Plan[o].act = "NO_CHANGE" THEN head[Plan[o].mem] ELSE Absent
           /\ \A v \in Works : v # w => works'[v] = works[v]
<1>1. PICK issues \in BOOLEAN : works' = [works EXCEPT ![w] =
          [st |-> Frozen(w),
           base |-> [o \in Proposed(w) |-> IF Writes(o) \/ Plan[o].act = "NO_CHANGE"
                                           THEN head[Plan[o].mem] ELSE Absent],
           guard |-> registry,
           issues |-> issues,
           index |-> IF \E o \in Proposed(w) : Writes(o) THEN "dirty" ELSE "current",
           settled |-> FALSE]]
  BY DEF Apply
<1>2. works'[w] = [st |-> Frozen(w),
           base |-> [o \in Proposed(w) |-> IF Writes(o) \/ Plan[o].act = "NO_CHANGE"
                                           THEN head[Plan[o].mem] ELSE Absent],
           guard |-> registry,
           issues |-> issues,
           index |-> IF \E o \in Proposed(w) : Writes(o) THEN "dirty" ELSE "current",
           settled |-> FALSE]
  BY <1>1 DEF CommitTyped
<1>3. /\ works'[w].st = Frozen(w) /\ works'[w].issues = issues /\ works'[w].settled = FALSE
      /\ works'[w].base = [o \in Proposed(w) |-> IF Writes(o) \/ Plan[o].act = "NO_CHANGE"
                                           THEN head[Plan[o].mem] ELSE Absent]
      /\ works'[w].index \in {"dirty", "current"}
      /\ works'[w] = [st |-> works'[w].st, base |-> works'[w].base, guard |-> works'[w].guard,
                      issues |-> works'[w].issues, index |-> works'[w].index,
                      settled |-> works'[w].settled]
  BY <1>2
<1>4. OpsIn(w)' = Inherited(w) \cup Proposed(w) /\ DOMAIN works'[w].base = Proposed(w)
  BY <1>3 DEF OpsIn, Frozen
<1>5. Inherited(w) \subseteq Ops /\ Proposed(w) \subseteq Ops
      /\ \A o \in Inherited(w) : works[Parent[w]].st[o] \in Statuses
  BY OrderAssumption, OwnOps DEF Inherited, Proposed, CommitTyped, Receipt, Statuses, Terminal
<1>6. Receipt(w)'
  <2>1. \A o \in Inherited(w) \cup Proposed(w) : Frozen(w)[o] \in Statuses
    BY <1>5 DEF Frozen, Statuses
  <2>2. works'[w].st \in [OpsIn(w)' -> Statuses]
    BY <1>3, <1>4, <2>1 DEF Frozen
  <2>3. QED
    BY <1>3, <1>4, <1>5, <2>2 DEF Receipt
<1>7. \A v \in Works : v # w => works'[v] = works[v]
  BY <1>1
<1>8. CommitTyped'
  BY <1>1, <1>6, <1>7 DEF CommitTyped, Receipt, OpsIn
<1>9. QED
  BY <1>3, <1>4, <1>7, <1>8, NothingIn DEF Frozen, Apply

LEMMA CancelEffect ==
    ASSUME CommitTyped, NEW w \in Works, NEW m, CancelWork(m, w)
    PROVE  /\ CommitTyped'
           /\ \A v \in Works : OpsIn(v)' = OpsIn(v) /\ works'[v].base = works[v].base
           /\ \A v \in Works : \A p \in OpsIn(v) :
                works'[v].st[p] = IF v = w /\ p \in Cancels(m, w) THEN "cancelled"
                                  ELSE works[v].st[p]
<1>1. Receipt(w) /\ DOMAIN works = Works
  BY DEF CommitTyped
<1>2. works'[w].st = [o \in OpsIn(w) |-> IF o \in Cancels(m, w) THEN "cancelled" ELSE works[w].st[o]]
      /\ works'[w] = [st |-> works'[w].st, base |-> works[w].base, guard |-> works[w].guard, issues |-> TRUE,
                   index |-> works[w].index, settled |-> works[w].settled]
  BY <1>1 DEF Receipt, CancelWork
<1>3. "cancelled" \in Statuses
  BY DEF Statuses, Terminal
<1>4. DOMAIN works' = Works /\ \A v \in Works : v # w => works'[v] = works[v]
  BY <1>1 DEF CancelWork
<1>5. Receipt(w)' /\ OpsIn(w)' = OpsIn(w)
  <2>1. works'[w].st \in [OpsIn(w) -> Statuses]
    BY <1>1, <1>2, <1>3 DEF Receipt
  <2>2. OpsIn(w)' = OpsIn(w)
    BY <2>1 DEF OpsIn
  <2>3. /\ works'[w].base = works[w].base /\ works'[w].guard = works[w].guard
        /\ works'[w].issues = TRUE /\ works'[w].index = works[w].index
        /\ works'[w].settled = works[w].settled
    BY <1>2
  <2>4. works'[w].issues \in BOOLEAN
    BY <2>3
  <2>5. QED
    BY <1>1, <1>2, <2>1, <2>2, <2>3, <2>4, Zenon DEF Receipt
<1>6. CommitTyped'
  BY <1>4, <1>5 DEF CommitTyped, Receipt, OpsIn
<1>7. \A v \in Works : OpsIn(v)' = OpsIn(v) /\ works'[v].base = works[v].base
  BY <1>2, <1>4, <1>5 DEF OpsIn
<1>8. \A p \in OpsIn(w) : works'[w].st[p] = IF p \in Cancels(m, w) THEN "cancelled" ELSE works[w].st[p]
  BY <1>2
<1>9. QED
  BY <1>4, <1>6, <1>7, <1>8

LEMMA SettleReceiptEffect ==
    ASSUME CommitTyped, NEW w \in Works, SettleReceipt(w)
    PROVE  /\ CommitTyped'
           /\ \A v \in Works : OpsIn(v)' = OpsIn(v) /\ works'[v].base = works[v].base
                               /\ works'[v].st = works[v].st
<1>1. Receipt(w) /\ DOMAIN works = Works
  BY DEF CommitTyped
<1>2. works'[w] = [st |-> works[w].st, base |-> works[w].base, guard |-> works[w].guard,
                   issues |-> works[w].issues, index |-> "current", settled |-> TRUE]
  BY <1>1 DEF Receipt, SettleReceipt
<1>3. \A v \in Works : v # w => works'[v] = works[v]
  BY <1>1 DEF SettleReceipt
<1>4. Receipt(w)'
  BY <1>1, <1>2 DEF Receipt, OpsIn
<1>5. CommitTyped'
  BY <1>1, <1>3, <1>4 DEF CommitTyped, Receipt, OpsIn, SettleReceipt
<1>6. QED
  BY <1>2, <1>3, <1>5 DEF OpsIn

\* What a commit does to the lock and to the files.
CommitFrame ==
    /\ hold.op = "commit" /\ UNCHANGED << trace, compaction, explicit, actors, forgetting, forgotten >>
    /\ \/ hold' = Free \/ hold' = hold
       \/ \E at \in {"ops", "write", "wrote"}, item \in Ops \cup {hold.item} :
            hold' = [op |-> hold.op, on |-> hold.on, at |-> at, item |-> item]
    /\ stale' \in {stale, FALSE}
    /\ \/ UNCHANGED archive
       \/ \E w \in Works : \E o \in OpsIn(w) : ArchiveBase(w, o)
    /\ \/ UNCHANGED << head, written >>
       \/ \E w \in Works : \E o \in OpsIn(w) : WriteHead(w, o) /\ ~stale /\ Replace(Plan[o].mem, o)

Committed == Committing /\ Recall /\ UNCHANGED << compaction, explicit, actors, forgetting, forgotten >>

LEMMA CommitFramed == Typed /\ Committed => CommitFrame
<1> SUFFICES ASSUME Typed, Committed PROVE CommitFrame
  OBVIOUS
<1> USE DEF UnchangedFiles, CommitFrame, Holding, AtWork, Release, Scan, Committed
<1>0. UNCHANGED << compaction, explicit, actors, forgetting, forgotten >> /\ Held
  BY DEF Typed
<1>1. ASSUME NEW w \in Works, Apply(w) \/ Resume(w) \/ Refuse(w) \/ SettleReceipt(w)
      PROVE  CommitFrame
  BY <1>0, <1>1, Turns DEF Apply, Resume, Refuse, SettleReceipt
<1>2. ASSUME NEW w \in Works, NEW o \in OpsIn(w),
             Register(w, o) \/ SettleOp(w, o) \/ Block(w, o) \/ SettleRead(w, o)
      PROVE  CommitFrame
  BY <1>0, <1>2, Turns DEF Register, SettleOp, Block, SettleRead, Pending
<1>3. ASSUME NEW w \in Works, NEW o \in OpsIn(w), ArchiveBase(w, o)
      PROVE  CommitFrame
  <2>1. o \in Ops
    BY DEF Typed, CommitTyped, Receipt
  <2>2. hold' = [op |-> hold.op, on |-> hold.on, at |-> "write", item |-> o]
    BY <1>0, <1>3, Turns DEF ArchiveBase
  <2>3. QED
    BY <1>0, <1>3, <2>1, <2>2 DEF ArchiveBase, Pending
<1>4. ASSUME NEW w \in Works, NEW o \in OpsIn(w), WriteHead(w, o)
      PROVE  CommitFrame
  BY <1>0, <1>4, Turns DEF WriteHead
<1>5. ASSUME NEW w \in Works, NEW o \in OpsIn(w), Acknowledge(w, o)
      PROVE  CommitFrame
  BY <1>0, <1>5, Turns DEF Acknowledge
<1>6. QED
  BY <1>1, <1>2, <1>3, <1>4, <1>5 DEF Committing

LEMMA CommittedTyped == Typed /\ Committed => Typed'
<1> SUFFICES ASSUME Typed, Committed PROVE Typed'
  OBVIOUS
<1>1. CommitFrame
  BY CommitFramed
<1>2. written \subseteq written'
  BY <1>1 DEF CommitFrame, Replace
<1>3. CompactionTyped' /\ ExplicitTyped' /\ GhostsTyped' /\ Known \subseteq Known'
  BY <1>2, StillTyped, RecallTyped DEF Committed
<1>4. FilesTyped'
  <2>1. head' \in [Mems -> Known' \cup {Absent}] /\ written' \subseteq Marks
    <3>1. CASE UNCHANGED << head, written >>
      BY <1>3, <3>1 DEF Typed, FilesTyped
    <3>2. ASSUME NEW w \in Works, NEW o \in OpsIn(w), Replace(Plan[o].mem, o)
          PROVE  head' \in [Mems -> Known' \cup {Absent}] /\ written' \subseteq Marks
      <4>1. o \in Ops
        BY DEF Typed, CommitTyped, Receipt
      <4>2. o \in Known' /\ o \in Marks
        BY <3>2, <4>1 DEF Replace, Known, Marks
      <4>3. QED
        BY <1>3, <3>2, <4>2 DEF Replace, Typed, FilesTyped
    <3>3. QED
      BY <1>1, <3>1, <3>2 DEF CommitFrame
  <2>2. \A e \in archive' : e[1] \in Mems /\ e[3] \in {"writer", "compactor"}
    <3>1. CASE UNCHANGED archive
      BY <3>1 DEF Typed, FilesTyped
    <3>2. ASSUME NEW w \in Works, NEW o \in OpsIn(w), ArchiveBase(w, o)
          PROVE  \A e \in archive' : e[1] \in Mems /\ e[3] \in {"writer", "compactor"}
      <4>1. Plan[o].mem \in Mems
        BY <3>2, PlanAssumption DEF ArchiveBase, Writes, Typed, CommitTyped, Receipt
      <4>2. QED
        BY <3>2, <4>1 DEF ArchiveBase, Archived, Typed, FilesTyped
    <3>3. QED
      BY <1>1, <3>1, <3>2 DEF CommitFrame
  <2>3. QED
    BY <1>1, <2>1, <2>2 DEF CommitFrame, Typed, FilesTyped, trace
<1>5. Held'
  <2>1. CASE hold' = Free
    BY <2>1, FreeHeld
  <2>2. CASE hold' # Free
    BY <1>1, <2>2 DEF CommitFrame, Typed, Held, Working, Asking, Free, explicit
  <2>3. QED
    BY <2>1, <2>2
<1>6. CommitTyped'
  <2>1. ASSUME NEW w \in Works, Apply(w) \/ Resume(w) \/ Refuse(w) \/ SettleReceipt(w)
        PROVE  CommitTyped'
    BY <1>2, <2>1, ApplyEffect, SettleReceiptEffect, StillTyped DEF Resume, Refuse, commit, Typed
  <2>2. ASSUME NEW w \in Works, NEW o \in OpsIn(w),
               \/ Register(w, o) \/ SettleOp(w, o) \/ Block(w, o) \/ SettleRead(w, o)
               \/ ArchiveBase(w, o) \/ WriteHead(w, o) \/ Acknowledge(w, o)
        PROVE  CommitTyped'
    <3>1. UNCHANGED works \/ \E s \in Statuses : SaveOp(w, o, s)
      BY <2>2 DEF Register, SettleOp, Block, SettleRead, ArchiveBase, WriteHead, Acknowledge, commit,
                  Statuses, Terminal
    <3>2. QED
      BY <1>2, <3>1, SaveOpEffect, StillTyped DEF Typed
  <2>3. QED
    BY <2>1, <2>2 DEF Committed, Committing
<1>7. QED
  BY <1>3, <1>4, <1>5, <1>6 DEF Typed

CancelledWork ==
    (\E m \in Mems, w \in Works : CancelWork(m, w))
        /\ Recall /\ UNCHANGED << compaction, explicit, actors, forgetting, forgotten >>

LEMMA CancelledWorkTyped == Typed /\ CancelledWork => Typed'
<1> SUFFICES ASSUME Typed, CancelledWork PROVE Typed'
  OBVIOUS
<1>1. PICK m \in Mems, w \in Works : CancelWork(m, w)
  BY DEF CancelledWork
<1>2. UNCHANGED << head, archive, written, trace, hold, stale >>
  BY <1>1 DEF CancelWork, UnchangedFiles
<1>3. CompactionTyped' /\ ExplicitTyped' /\ GhostsTyped' /\ Known' = Known
  BY <1>2, StillTyped, RecallTyped DEF CancelledWork, Known
<1>4. FilesTyped'
  BY <1>2, <1>3 DEF Typed, FilesTyped, trace
<1>5. Held'
  BY <1>2 DEF Typed, Held, Working, Asking, CancelledWork, explicit, compaction
<1>6. QED
  BY <1>1, <1>3, <1>4, <1>5, CancelEffect DEF Typed

\* Requests.
UpdateStep(q) ==
    \/ RefuseUpdate(q) \/ ReplayUpdate(q) \/ PlanUpdate(q)
    \/ ArchiveForUpdate(q) \/ WriteUpdate(q) \/ SettleUpdate(q)

RetractStep(q) ==
    \/ VoidRetraction(q) \/ EndRetraction(q) \/ PlanRetraction(q)
    \/ ArchiveForRetraction(q) \/ WriteRetraction(q) \/ SettleRetraction(q)

Kept == Recall /\ UNCHANGED << commit, compaction, actors, forgetting, forgotten >>

Mutated == (Mutating \/ \E m \in Mems : CancelRetraction(m) \/ CancelUpdate(m)) /\ Kept

LEMMA MutatedCases ==
    ASSUME Mutated
    PROVE  \/ \E q \in Updates : UpdateStep(q)
           \/ \E q \in Retractions : RetractStep(q)
           \/ \E m \in Mems : CancelRetraction(m) \/ CancelUpdate(m)
BY DEF Mutated, Mutating, UpdateStep, RetractStep

LEMMA UpdateTyped == ASSUME Typed, Kept, NEW q \in Updates, UpdateStep(q) PROVE Typed'
<1> DEFINE m == Wants[q]
<1>0. m \in Mems /\ q \in Updates \cup Retractions
  BY RequestsAssumption
<1>1. hold.op = "update" /\ hold.on = q /\ hold # Free /\ UNCHANGED << trace, ret, asked >>
  BY DEF UpdateStep, RefuseUpdate, ReplayUpdate, PlanUpdate, ArchiveForUpdate, WriteUpdate, SettleUpdate,
         At, Holding, explicit, Free
<1>2. written \subseteq written'
  BY DEF UpdateStep, RefuseUpdate, ReplayUpdate, PlanUpdate, ArchiveForUpdate, WriteUpdate, SettleUpdate,
         Replace
<1>3. CompactionTyped' /\ CommitTyped' /\ GhostsTyped' /\ Known \subseteq Known'
  BY <1>2, StillTyped, RecallTyped DEF Kept, commit
<1>4. asked[q] \in Known
  BY <1>0, <1>1 DEF Typed, Held, ExplicitTyped
<1>5. ExplicitTyped'
  <2>1. UNCHANGED upd \/ upd' = [upd EXCEPT ![m] = NoPlan]
        \/ upd' = [upd EXCEPT ![m] = [req |-> q, base |-> asked[q]]]
    BY DEF UpdateStep, RefuseUpdate, ReplayUpdate, PlanUpdate, ArchiveForUpdate, WriteUpdate,
           SettleUpdate, explicit
  <2>2. [req |-> q, base |-> asked[q]] \in Plans(Updates, Known', m) /\ NoPlan \in Plans(Updates, Known', m)
    BY <1>3, <1>4 DEF Plans
  <2>3. DOMAIN upd' = Mems /\ \A n \in Mems : upd'[n] \in Plans(Updates, Known', n)
    BY <1>0, <1>3, <2>1, <2>2 DEF Typed, ExplicitTyped, Plans
  <2>4. DOMAIN ret' = Mems /\ \A n \in Mems : ret'[n] \in Plans(Retractions, Known' \ Retired, n)
    BY <1>1, <1>3 DEF Typed, ExplicitTyped, Plans
  <2>5. asked' \in [Updates \cup Retractions -> Known' \cup {Absent}]
    BY <1>1, <1>3 DEF Typed, ExplicitTyped
  <2>6. QED
    BY <2>3, <2>4, <2>5 DEF ExplicitTyped
<1>6. FilesTyped'
  <2>1. q \in Marks
    BY DEF Marks
  <2>2. UNCHANGED << head, written >> \/ Replace(m, q)
    BY DEF UpdateStep, RefuseUpdate, ReplayUpdate, PlanUpdate, ArchiveForUpdate, WriteUpdate, SettleUpdate
  <2>3. head' \in [Mems -> Known' \cup {Absent}] /\ written' \subseteq Marks
    BY <1>3, <2>1, <2>2 DEF Replace, Known, Typed, FilesTyped
  <2>4. UNCHANGED archive \/ archive' = Archived(m, upd[m].base)
    BY DEF UpdateStep, RefuseUpdate, ReplayUpdate, PlanUpdate, ArchiveForUpdate, WriteUpdate, SettleUpdate
  <2>5. \A e \in archive' : e[1] \in Mems /\ e[3] \in {"writer", "compactor"}
    BY <1>0, <2>4 DEF Archived, Typed, FilesTyped
  <2>6. stale' \in BOOLEAN
    BY DEF UpdateStep, RefuseUpdate, ReplayUpdate, PlanUpdate, ArchiveForUpdate, WriteUpdate, SettleUpdate,
           Scan, Typed, FilesTyped
  <2>7. QED
    BY <1>1, <2>3, <2>5, <2>6 DEF Typed, FilesTyped, trace
<1>7. Held'
  <2>1. CASE hold' = Free
    BY <2>1, FreeHeld
  <2>2. CASE hold' # Free
    <3>1. \E at \in {"archive", "write", "settle"} :
            hold' = [op |-> hold.op, on |-> hold.on, at |-> at, item |-> hold.item]
      BY <2>2, Turns DEF UpdateStep, RefuseUpdate, ReplayUpdate, PlanUpdate, ArchiveForUpdate, WriteUpdate,
             SettleUpdate, Release, Typed
    <3>2. upd'[m] # NoPlan
      <4>1. CASE PlanUpdate(q)
        BY <1>0, <4>1, RequestsAssumption DEF PlanUpdate, Typed, ExplicitTyped, NoPlan
      <4>2. CASE ArchiveForUpdate(q) \/ WriteUpdate(q)
        BY <1>1, <4>2 DEF ArchiveForUpdate, WriteUpdate, At, Holding, Typed, Held, Asking, explicit
      <4>3. QED
        BY <2>2, <4>1, <4>2 DEF UpdateStep, RefuseUpdate, ReplayUpdate, SettleUpdate, Release
    <3>3. QED
      BY <1>1, <3>1, <3>2 DEF Typed, Held, Working, Asking, Free
  <2>3. QED
    BY <2>1, <2>2
<1>8. QED
  BY <1>3, <1>5, <1>6, <1>7 DEF Typed

LEMMA RetractTyped == ASSUME Typed, Kept, NEW q \in Retractions, RetractStep(q) PROVE Typed'
<1> DEFINE m == Wants[q]
<1>0. m \in Mems /\ q \in Updates \cup Retractions
  BY RequestsAssumption
<1>1. hold.op = "retract" /\ hold.on = q /\ hold # Free /\ UNCHANGED << trace, upd, asked >>
  BY DEF RetractStep, VoidRetraction, EndRetraction, PlanRetraction, ArchiveForRetraction, WriteRetraction,
         SettleRetraction, At, Holding, explicit, Free
<1>2. written \subseteq written'
  BY DEF RetractStep, VoidRetraction, EndRetraction, PlanRetraction, ArchiveForRetraction, WriteRetraction,
         SettleRetraction, Replace
<1>3. CompactionTyped' /\ CommitTyped' /\ GhostsTyped' /\ Known \subseteq Known'
  BY <1>2, StillTyped, RecallTyped DEF Kept, commit
<1>4. asked[q] \in Known
  BY <1>0, <1>1 DEF Typed, Held, ExplicitTyped
<1>5. ExplicitTyped'
  <2>1. UNCHANGED ret \/ ret' = [ret EXCEPT ![m] = NoPlan]
        \/ (asked[q] \notin Retired /\ ret' = [ret EXCEPT ![m] = [req |-> q, base |-> asked[q]]])
    BY DEF RetractStep, VoidRetraction, EndRetraction, PlanRetraction, ArchiveForRetraction, WriteRetraction,
           SettleRetraction, explicit, Retractable
  <2>2. /\ asked[q] \notin Retired =>
            [req |-> q, base |-> asked[q]] \in Plans(Retractions, Known' \ Retired, m)
        /\ NoPlan \in Plans(Retractions, Known' \ Retired, m)
    BY <1>3, <1>4 DEF Plans
  <2>3. DOMAIN ret' = Mems /\ \A n \in Mems : ret'[n] \in Plans(Retractions, Known' \ Retired, n)
    BY <1>0, <1>3, <2>1, <2>2 DEF Typed, ExplicitTyped, Plans
  <2>4. DOMAIN upd' = Mems /\ \A n \in Mems : upd'[n] \in Plans(Updates, Known', n)
    BY <1>1, <1>3 DEF Typed, ExplicitTyped, Plans
  <2>5. asked' \in [Updates \cup Retractions -> Known' \cup {Absent}]
    BY <1>1, <1>3 DEF Typed, ExplicitTyped
  <2>6. QED
    BY <2>3, <2>4, <2>5 DEF ExplicitTyped
<1>6. FilesTyped'
  <2>1. \A n \in Mems : ret[n] # NoPlan => ret[n].req \in Marks
    BY DEF Marks, Typed, ExplicitTyped, Plans
  <2>2. UNCHANGED << head, written >> \/ (ret[m].req \in Marks /\ Replace(m, ret[m].req))
    <3>1. CASE WriteRetraction(q)
      BY <1>0, <1>1, <2>1, <3>1 DEF WriteRetraction, At, Holding, Typed, Held, Asking
    <3>2. QED
      BY <3>1 DEF RetractStep, VoidRetraction, EndRetraction, PlanRetraction, ArchiveForRetraction,
           SettleRetraction
  <2>3. head' \in [Mems -> Known' \cup {Absent}] /\ written' \subseteq Marks
    BY <1>3, <2>2 DEF Replace, Known, Typed, FilesTyped
  <2>4. UNCHANGED archive \/ archive' = Archived(m, ret[m].base)
    BY DEF RetractStep, VoidRetraction, EndRetraction, PlanRetraction, ArchiveForRetraction, WriteRetraction,
           SettleRetraction
  <2>5. \A e \in archive' : e[1] \in Mems /\ e[3] \in {"writer", "compactor"}
    BY <1>0, <2>4 DEF Archived, Typed, FilesTyped
  <2>6. stale' \in BOOLEAN
    BY DEF RetractStep, VoidRetraction, EndRetraction, PlanRetraction, ArchiveForRetraction, WriteRetraction,
           SettleRetraction, Typed, FilesTyped
  <2>7. QED
    BY <1>1, <2>3, <2>5, <2>6 DEF Typed, FilesTyped, trace
<1>7. Held'
  <2>1. CASE hold' = Free
    BY <2>1, FreeHeld
  <2>2. CASE VoidRetraction(q)
    BY <1>1, <2>2 DEF VoidRetraction, At, Holding, Typed, Held, Working, Asking
  <2>3. CASE hold' # Free /\ ~VoidRetraction(q)
    <3>1. \E at \in {"archive", "write", "settle"} :
            hold' = [op |-> hold.op, on |-> hold.on, at |-> at, item |-> hold.item]
      BY <2>3, Turns DEF RetractStep, EndRetraction, PlanRetraction, ArchiveForRetraction,
             WriteRetraction, SettleRetraction, Release, Typed
    <3>2. ret'[m] # NoPlan
      <4>1. CASE PlanRetraction(q)
        BY <1>0, <4>1, RequestsAssumption DEF PlanRetraction, Typed, ExplicitTyped, NoPlan
      <4>2. CASE ArchiveForRetraction(q) \/ WriteRetraction(q)
        BY <1>1, <4>2 DEF ArchiveForRetraction, WriteRetraction, At, Holding, Typed, Held, Asking, explicit
      <4>3. QED
        BY <2>3, <4>1, <4>2 DEF RetractStep, EndRetraction, SettleRetraction, Release
    <3>3. QED
      BY <1>1, <3>1, <3>2 DEF Typed, Held, Working, Asking, Free
  <2>4. QED
    BY <2>1, <2>2, <2>3
<1>8. QED
  BY <1>3, <1>5, <1>6, <1>7 DEF Typed

LEMMA CancelPlanTyped ==
    ASSUME Typed, Kept, NEW m \in Mems, CancelRetraction(m) \/ CancelUpdate(m)
    PROVE  Typed'
<1>1. hold.op = "forget" /\ UNCHANGED << head, archive, trace, stale, written, asked >>
  BY DEF CancelRetraction, CancelUpdate, At, Holding
<1>2. CompactionTyped' /\ CommitTyped' /\ GhostsTyped' /\ Known = Known'
  BY <1>1, StillTyped, RecallTyped DEF Kept, commit, Known
<1>3. ExplicitTyped'
  BY <1>1, <1>2 DEF CancelRetraction, CancelUpdate, Typed, ExplicitTyped, Plans
<1>4. FilesTyped'
  BY <1>1, <1>2 DEF Typed, FilesTyped, trace
<1>5. \E at \in {"update", "history"} :
        hold' = [op |-> hold.op, on |-> hold.on, at |-> at, item |-> hold.item]
  BY Turns DEF CancelRetraction, CancelUpdate, Typed
<1>6. Held'
  BY <1>1, <1>5 DEF Typed, Held, Working, Asking, Free
<1>7. QED
  BY <1>2, <1>3, <1>4, <1>6 DEF Typed

LEMMA MutatedTyped == Typed /\ Mutated => Typed'
BY MutatedCases, UpdateTyped, RetractTyped, CancelPlanTyped DEF Mutated

\* Compaction.
Compacted ==
    (Snapshot \/ Stage \/ Decline \/ Transaction)
        /\ Recall /\ UNCHANGED << commit, explicit, actors, forgetting, forgotten >>

LEMMA SnapshotTyped == Typed /\ (Snapshot \/ Stage \/ Decline) /\ Compacted => Typed'
<1> SUFFICES ASSUME Typed, Snapshot \/ Stage \/ Decline, Compacted PROVE Typed'
  OBVIOUS
<1>1. UNCHANGED << head, archive, trace, written, journal >>
  BY DEF Snapshot, Stage, Decline
<1>2. CommitTyped' /\ ExplicitTyped' /\ GhostsTyped' /\ Known' = Known
  BY <1>1, StillTyped, RecallTyped DEF Compacted, commit, Known
<1>3. FilesTyped'
  BY <1>1, <1>2 DEF Snapshot, Stage, Decline, Scan, Typed, FilesTyped, trace
<1>4. CompactionTyped'
  <2>1. CASE Snapshot
    <3>1. PICK S \in SUBSET {m \in Mems : Valid(m) /\ Short(m) \notin written} :
            chosen' = [m \in S |-> head[m]]
      BY <2>1 DEF Snapshot
    <3>2. \A m \in S : m \in Mems /\ head[m] \in Known
      BY DEF Valid, Typed, FilesTyped
    <3>3. DOMAIN chosen' \subseteq Mems /\ \A m \in DOMAIN chosen' : chosen'[m] \in Known
      BY <3>1, <3>2
    <3>4. QED
      BY <1>1, <1>2, <2>1, <3>3 DEF Snapshot, Typed, CompactionTyped
  <2>2. CASE Stage \/ Decline
    <3>1. chosen' = << >> /\ DOMAIN << >> = {}
      BY <2>2 DEF Stage, Decline
    <3>2. staged' \subseteq Mems \X Known
      BY <2>2 DEF Stage, Decline, Typed, CompactionTyped
    <3>3. QED
      BY <1>1, <1>2, <3>1, <3>2 DEF Typed, CompactionTyped
  <2>3. QED
    BY <2>1, <2>2
<1>5. Held'
  <2>1. CASE Stage
    <3>1. hold' = [op |-> hold.op, on |-> staged', at |-> "staged", item |-> hold.item]
      BY <2>1, Turns DEF Stage, Typed
    <3>2. hold.op = "compact" /\ UNCHANGED << asked, upd, ret >>
      BY <2>1 DEF Stage, Holding, Compacted, explicit
    <3>3. QED
      BY <3>1, <3>2 DEF Held, Working, Asking, Free, Sections
  <2>2. CASE Snapshot \/ Decline
    BY <2>2, FreeHeld DEF Snapshot, Decline, Release
  <2>3. QED
    BY <2>1, <2>2
<1>6. QED
  BY <1>2, <1>3, <1>4, <1>5 DEF Typed

\* A step of a transaction goes from one of its places to another, or away.
LEMMA TransactionMoves ==
    ASSUME Typed, Transaction
    PROVE  /\ Working /\ hold # Free /\ UNCHANGED chosen /\ stale' = stale
           /\ \/ hold' = Free
              \/ /\ hold'.op = "compact" /\ hold'.on = hold.on /\ hold'.at \in Transacting
                 /\ UNCHANGED staged
              \/ /\ hold'.op = "undo" /\ hold'.at = "recover" /\ hold'.on = hold.on
                 /\ UNCHANGED << head, archive, written, journal, staged >>
           /\ hold' = [op |-> hold'.op, on |-> hold'.on, at |-> hold'.at, item |-> hold'.item]
<1>1. Working /\ hold # Free
  BY DEF Transaction, Mark, ArchiveSources, Shorten, Disturbed, Shortened, Unjournal, Unstage, Caught,
         Holding, Working, Transacting, Free
<1>2. UNCHANGED << chosen, stale >>
  BY DEF Transaction, Mark, ArchiveSources, Shorten, Disturbed, Shortened, Unjournal, Unstage, Caught,
         compaction
<1>3. hold = [op |-> "compact", on |-> hold.on, at |-> hold.at, item |-> hold.item]
  BY <1>1 DEF Working, Typed, Held
<1>4. CASE Disturbed \/ Caught
  <2>1. hold' = [op |-> "undo", on |-> hold.on, at |-> "recover", item |-> hold.item]
    BY <1>3, <1>4 DEF Disturbed, Caught
  <2>2. UNCHANGED << head, archive, written, journal, staged >>
    BY <1>4 DEF Disturbed, Caught, compaction
  <2>3. QED
    BY <1>1, <1>2, <2>1, <2>2
<1>5. CASE Unstage
  BY <1>1, <1>2, <1>5 DEF Unstage, Release, Free
<1>6. CASE ~(Disturbed \/ Caught \/ Unstage)
  <2>1. UNCHANGED staged
    BY <1>6 DEF Transaction, Mark, ArchiveSources, Shorten, Shortened, Unjournal, compaction
  <2>2. UNCHANGED hold \/ \E at \in Transacting :
           hold' = [op |-> "compact", on |-> hold.on, at |-> at, item |-> hold.item]
    BY <1>3, <1>6 DEF Transaction, Mark, ArchiveSources, Shorten, Shortened, Unjournal, GoTo, Transacting
  <2>3. QED
    BY <1>1, <1>2, <1>3, <2>1, <2>2 DEF Working
<1>7. QED
  BY <1>4, <1>5, <1>6

LEMMA TransactionTyped == Typed /\ Transaction /\ Compacted => Typed'
<1> SUFFICES ASSUME Typed, Transaction, Compacted PROVE Typed'
  OBVIOUS
<1>1. Working /\ hold.on = staged
  BY TransactionMoves DEF Typed, Held
<1>2. \A s \in hold.on : s[1] \in Mems /\ s[2] \in Known
  BY <1>1 DEF Typed, CompactionTyped
<1>3. UNCHANGED << head, written >> \/ \E m \in Mems : Replace(m, Short(m))
  <2>1. CASE Shorten
    BY <1>2, <2>1 DEF Shorten
  <2>2. CASE ~Shorten
    BY <2>2 DEF Transaction, Mark, ArchiveSources, Disturbed, Shortened, Unjournal, Unstage, Caught
  <2>3. QED
    BY <2>1, <2>2
<1>4. written \subseteq written'
  BY <1>3 DEF Replace
<1>5. CommitTyped' /\ ExplicitTyped' /\ GhostsTyped' /\ Known \subseteq Known'
  BY <1>4, StillTyped, RecallTyped DEF Compacted, commit
<1>6. FilesTyped'
  <2>1. head' \in [Mems -> Known' \cup {Absent}] /\ written' \subseteq Marks
    BY <1>3, <1>5, Marked DEF Replace, Known, Typed, FilesTyped
  <2>2. \A e \in archive' : e[1] \in Mems /\ e[3] \in {"writer", "compactor"}
    <3>1. CASE ArchiveSources
      BY <1>2, <3>1 DEF ArchiveSources, Typed, FilesTyped
    <3>2. CASE UNCHANGED archive
      BY <3>2 DEF Typed, FilesTyped
    <3>3. QED
      BY <3>1, <3>2 DEF Transaction, Mark, Shorten, Disturbed, Shortened, Unjournal, Unstage, Caught
  <2>3. UNCHANGED << stale, edits, touched >> /\ faults' \in 0..MaxFaults
    <3>1. CASE Caught
      BY <3>1, FilesAssumption DEF Caught, Typed, FilesTyped
    <3>2. CASE ~Caught
      BY <3>2 DEF Transaction, Mark, ArchiveSources, Shorten, Disturbed, Shortened, Unjournal, Unstage,
                  trace, Typed, FilesTyped
    <3>3. QED
      BY <3>1, <3>2
  <2>4. QED
    BY <2>1, <2>2, <2>3 DEF Typed, FilesTyped
<1>7. CompactionTyped'
  <2>1. \/ UNCHANGED journal \/ journal' = NoJournal
        \/ \E phase \in Phases : journal' = [phase |-> phase, of |-> hold.on]
        \/ journal' = [journal EXCEPT !.phase = "replacements"]
    BY DEF Transaction, Mark, ArchiveSources, Shorten, Disturbed, Shortened, Unjournal, Unstage, Caught,
           compaction, Phases
  <2>2. /\ journal' = [phase |-> journal'.phase, of |-> journal'.of]
        /\ journal'.phase \in Phases /\ journal'.of \subseteq Mems \X Known
    BY <1>1, <2>1 DEF Typed, CompactionTyped, NoJournal, Phases
  <2>3. staged' \in {staged, {}} /\ UNCHANGED chosen
    BY DEF Transaction, Mark, ArchiveSources, Shorten, Disturbed, Shortened, Unjournal, Unstage, Caught,
           compaction
  <2>4. QED
    BY <1>5, <2>2, <2>3 DEF Typed, CompactionTyped
<1>8. Held'
  <2>1. CASE hold' = Free
    BY <2>1, FreeHeld
  <2>2. CASE hold' # Free
    BY <1>1, <2>2, TransactionMoves DEF Held, Working, Asking, Free, Sections, Transacting
  <2>3. QED
    BY <2>1, <2>2
<1>9. QED
  BY <1>5, <1>6, <1>7, <1>8 DEF Typed

LEMMA CompactedTyped == Typed /\ Compacted => Typed'
BY SnapshotTyped, TransactionTyped DEF Compacted

\* Forget.
Deleted == (\E m \in Mems : Forgetting(m)) /\ UNCHANGED compaction

LEMMA DeletedTyped == Typed /\ Deleted => Typed'
<1> SUFFICES ASSUME Typed, NEW m \in Mems, Forgetting(m), UNCHANGED compaction PROVE Typed'
  BY DEF Deleted
<1> USE DEF Forgetting, BeginForget, NothingToForget, PendingCancelled, DeleteHistory, DeleteHead
<1>1. hold.op = "forget" /\ UNCHANGED << trace, stale, written, works, explicit >>
  BY DEF Holding, ghosts, commit
<1>2. CommitTyped' /\ CompactionTyped' /\ ExplicitTyped' /\ Known' = Known
  BY <1>1, StillTyped DEF Known
<1>3. FilesTyped'
  <2>1. UNCHANGED head \/ head' = [head EXCEPT ![m] = Absent]
    OBVIOUS
  <2>2. archive' \subseteq archive
    OBVIOUS
  <2>3. QED
    BY <1>1, <1>2, <2>1, <2>2 DEF Typed, FilesTyped, trace
<1>4. GhostsTyped'
  BY <1>2 DEF Typed, GhostsTyped, ghosts
<1>5. Held'
  <2>1. \/ hold' = Free \/ hold' = hold
        \/ \E at \in {"cancel", "retraction"} :
             hold' = [op |-> hold.op, on |-> hold.on, at |-> at, item |-> hold'.item]
    <3>1. hold = [op |-> hold.op, on |-> hold.on, at |-> hold.at, item |-> hold.item]
      BY DEF Typed, Held
    <3>2. QED
      BY <3>1 DEF GoWith, GoTo, Release
  <2>2. CASE hold' = Free
    BY <2>2, FreeHeld
  <2>3. CASE hold' # Free
    BY <1>1, <2>1, <2>3 DEF Typed, Held, Working, Asking, Free, explicit
  <2>4. QED
    BY <2>2, <2>3
<1>6. QED
  BY <1>2, <1>3, <1>4, <1>5 DEF Typed

\* What happens from outside: at a free lock, but for a person's edits and faults.
LEMMA EditTyped ==
    ASSUME Typed, NEW m \in Mems, Edit(m), UNCHANGED << commit, compaction, explicit, ghosts >>
    PROVE  Typed'
<1>1. UNCHANGED << hold, written, works, asked, upd, ret, staged, had, forgetting, forgotten >>
  BY DEF Edit, commit, compaction, explicit, ghosts
<1>2. CommitTyped' /\ CompactionTyped' /\ ExplicitTyped' /\ GhostsTyped' /\ Known' = Known
  BY <1>1, StillTyped DEF Known
<1>3. edits' \in 0..MaxEdits
  BY FilesAssumption DEF Edit, Typed, FilesTyped
<1>4. head' \in [Mems -> Known \cup {Absent}]
  BY DEF Edit, Typed, FilesTyped, Known
<1>5. stale' \in BOOLEAN
  BY DEF Edit
<1>6. FilesTyped'
  BY <1>1, <1>2, <1>3, <1>4, <1>5 DEF Edit, Typed, FilesTyped
<1>7. Held'
  BY <1>1 DEF Typed, Held, Working, Asking
<1>8. QED
  BY <1>2, <1>6, <1>7 DEF Typed

Asked1 ==
    \E q \in Updates \cup Retractions :
        Ask(q) /\ journal.phase = "none" /\ UNCHANGED << commit, compaction, ghosts >>

Hosted ==
    /\ Revise \/ CleanUp \/ \E o \in Ops : NewScope(Plan[o].scope)
    /\ UNCHANGED << compaction, explicit, ghosts >>

LEMMA OutsideTyped == Typed /\ Outside => Typed'
<1>1. ASSUME Typed, Asked1 PROVE Typed'
  <2>1. PICK q \in Updates \cup Retractions :
          Ask(q) /\ UNCHANGED << commit, compaction, ghosts >>
    BY <1>1 DEF Asked1
  <2>2. UNCHANGED << files, works, upd, ret, had, forgetting, forgotten >>
    BY <2>1 DEF Ask, commit, ghosts
  <2>3. CommitTyped' /\ CompactionTyped' /\ GhostsTyped' /\ Known' = Known
    BY <1>1, <2>1, <2>2, StillTyped DEF Known, files
  <2>4. head[Wants[q]] \in Known \cup {Absent}
    BY <1>1, RequestsAssumption DEF Typed, FilesTyped
  <2>5. ExplicitTyped'
    BY <1>1, <2>1, <2>2, <2>3, <2>4 DEF Ask, Typed, ExplicitTyped, Plans
  <2>6. FilesTyped' /\ Held'
    BY <1>1, <2>1, <2>2, <2>3 DEF Ask, files, Typed, FilesTyped, Held, Free, Working, Asking
  <2>7. QED
    BY <2>3, <2>5, <2>6 DEF Typed
<1>2. ASSUME Typed, Hosted PROVE Typed'
  <2>1. UNCHANGED << head, archive, hold, stale, trace, written, works, compaction, explicit, ghosts >>
    BY <1>2 DEF Hosted, Revise, CleanUp, NewScope, UnchangedFiles
  <2>2. CommitTyped' /\ CompactionTyped' /\ ExplicitTyped' /\ GhostsTyped' /\ Known' = Known
    BY <1>2, <2>1, StillTyped DEF ghosts, Known
  <2>3. FilesTyped' /\ Held'
    BY <1>2, <2>1, <2>2 DEF Typed, FilesTyped, Held, Working, Asking, trace, explicit, compaction
  <2>4. QED
    BY <2>2, <2>3 DEF Typed
<1>3. ASSUME Typed, Stop, UNCHANGED << commit, compaction, explicit, ghosts >> PROVE Typed'
  <2>1. UNCHANGED << head, archive, edits, written, touched, works, had, forgetting, forgotten >>
    BY <1>3 DEF Stop, commit, ghosts
  <2>2. CommitTyped' /\ CompactionTyped' /\ ExplicitTyped' /\ GhostsTyped' /\ Known' = Known
    BY <1>3, <2>1, StillTyped DEF Known
  <2>3. faults' \in 0..MaxFaults
    BY <1>3, FilesAssumption DEF Stop, Typed, FilesTyped
  <2>0. stale' \in BOOLEAN
    BY <1>3 DEF Stop
  <2>4. FilesTyped'
    BY <1>3, <2>1, <2>2, <2>3, <2>0 DEF Typed, FilesTyped
  <2>5. Held'
    BY <1>3, FreeHeld DEF Stop, Release
  <2>6. QED
    BY <2>2, <2>4, <2>5 DEF Typed
<1>4. QED
  BY <1>1, <1>2, <1>3, EditTyped DEF Outside, Asked1, Hosted

Recovered == Recovery /\ UNCHANGED << commit, explicit, ghosts >>
Reconciled == Reconcile /\ UNCHANGED << compaction, explicit, ghosts >>

LEMMA ServiceCases ==
    ASSUME Service
    PROVE  Recovered \/ Reconciled \/ Committed \/ CancelledWork \/ Mutated \/ Compacted \/ Deleted
BY DEF Service, Recovered, Reconciled, Committed, CancelledWork, Mutated, Compacted, Deleted, Kept

LEMMA NextTyped == Typed /\ [Next]_vars => Typed'
<1>1. Typed /\ UNCHANGED vars => Typed'
  <2> SUFFICES ASSUME Typed, UNCHANGED vars PROVE Typed'
    OBVIOUS
  <2>1. CommitTyped' /\ CompactionTyped' /\ ExplicitTyped' /\ GhostsTyped' /\ Known' = Known
    BY StillTyped DEF vars, files, commit, ghosts, Known
  <2>2. FilesTyped' /\ Held'
    BY <2>1 DEF vars, files, explicit, compaction, Typed, FilesTyped, Held, Working, Asking
  <2>3. QED
    BY <2>1, <2>2 DEF Typed
<1>2. Typed /\ Service => Typed'
  BY ServiceCases, RecoveryTyped, ReconcileTyped, CommittedTyped, CancelledWorkTyped, MutatedTyped,
     CompactedTyped, DeletedTyped DEF Recovered, Reconciled
<1>3. QED
  BY <1>1, <1>2, EnterTyped, OutsideTyped DEF Next

-----------------------------------------------------------------------------
(* The second layer holds. *)

\* Where a section is that has done with what earlier ones left behind.
Places == {"begin", "ops", "write", "wrote", "cancel", "archive", "settle",
           "retraction", "update", "history"}

\* A step of a commit, of a request or of Forget.
Inside ==
    /\ hold.op \in {"commit", "update", "retract", "forget"} /\ hold.at \in Places
    /\ \/ hold' = Free
       \/ hold'.op = hold.op /\ hold'.on = hold.on /\ hold'.at \in Places
    /\ UNCHANGED compaction /\ UNCHANGED touched
    /\ written \subseteq written' /\ written' \subseteq written \cup Ops \cup Updates \cup Retractions

LEMMA CommittedInside == Typed /\ Committed => Inside
<1> SUFFICES ASSUME Typed, Committed PROVE Inside
  OBVIOUS
<1>1. CommitFrame
  BY CommitFramed
<1>2. hold.at \in Places
  BY DEF Committed, Committing, Apply, Resume, Refuse, SettleReceipt, Register, SettleOp, Block,
         SettleRead, ArchiveBase, WriteHead, Acknowledge, Pending, Holding, AtWork, Places
<1>3. written' = written \/ \E w \in Works : \E o \in OpsIn(w) : written' = written \cup {o}
  BY <1>1 DEF CommitFrame, Replace
<1>4. \A w \in Works : OpsIn(w) \subseteq Ops
  BY DEF Typed, CommitTyped, Receipt
<1>5. hold' = Free \/ (hold'.op = hold.op /\ hold'.on = hold.on /\ hold'.at \in Places)
  BY <1>1, <1>2 DEF CommitFrame, Places
<1>6. QED
  BY <1>1, <1>2, <1>3, <1>4, <1>5 DEF Inside, CommitFrame, trace

LEMMA CancelledWorkInside == Typed /\ CancelledWork => Inside
BY DEF CancelledWork, CancelWork, Inside, UnchangedFiles, Holding, trace, Places

LEMMA MutatedInside == Typed /\ Mutated => Inside
<1> SUFFICES ASSUME Typed, Mutated PROVE Inside
  OBVIOUS
<1>1. UNCHANGED compaction
  BY DEF Mutated, Kept
<1>2. ASSUME NEW q \in Updates, UpdateStep(q) PROVE Inside
  <2>1. hold.op = "update" /\ hold.at \in {"begin", "archive", "write", "settle"} /\ UNCHANGED touched
    BY <1>2 DEF UpdateStep, RefuseUpdate, ReplayUpdate, PlanUpdate, ArchiveForUpdate, WriteUpdate,
                SettleUpdate, At, Holding, trace
  <2>2. written' = written \/ written' = written \cup {q}
    BY <1>2 DEF UpdateStep, RefuseUpdate, ReplayUpdate, PlanUpdate, ArchiveForUpdate, WriteUpdate,
                SettleUpdate, Replace
  <2>3. hold' = Free \/ \E at \in Places :
           hold' = [op |-> hold.op, on |-> hold.on, at |-> at, item |-> hold.item]
    BY <1>2, Turns DEF UpdateStep, RefuseUpdate, ReplayUpdate, PlanUpdate, ArchiveForUpdate, WriteUpdate,
                SettleUpdate, Release, Typed, Places
  <2>4. hold.at \in Places
    BY <2>1 DEF Places
  <2>5. QED
    BY <1>1, <2>1, <2>2, <2>3, <2>4 DEF Inside
<1>3. ASSUME NEW q \in Retractions, RetractStep(q) PROVE Inside
  <2>1. /\ hold.op = "retract" /\ hold.on = q /\ hold.at \in {"begin", "archive", "write", "settle"}
        /\ UNCHANGED touched
    BY <1>3 DEF RetractStep, VoidRetraction, EndRetraction, PlanRetraction, ArchiveForRetraction,
                WriteRetraction, SettleRetraction, At, Holding, trace
  <2>2. written' = written \/ (WriteRetraction(q) /\ written' = written \cup {ret[Wants[q]].req})
    BY <1>3 DEF RetractStep, VoidRetraction, EndRetraction, PlanRetraction, ArchiveForRetraction,
                WriteRetraction, SettleRetraction, Replace
  <2>3. WriteRetraction(q) => ret[Wants[q]].req \in Retractions
    BY <2>1, RequestsAssumption DEF WriteRetraction, At, Holding, Typed, Held, Asking, ExplicitTyped, Plans
  <2>4. hold.at \in Places
    BY <2>1 DEF Places
  <2>5. hold' = Free \/ \E at \in Places :
           hold' = [op |-> hold.op, on |-> hold.on, at |-> at, item |-> hold.item]
    <3>1. CASE VoidRetraction(q)
      BY <2>4, <3>1 DEF VoidRetraction, Typed, Held
    <3>2. CASE ~VoidRetraction(q)
      BY <1>3, <3>2, Turns DEF RetractStep, EndRetraction, PlanRetraction, ArchiveForRetraction,
                WriteRetraction, SettleRetraction, Release, Typed, Places
    <3>3. QED
      BY <3>1, <3>2
  <2>6. QED
    BY <1>1, <2>1, <2>2, <2>3, <2>4, <2>5 DEF Inside
<1>4. ASSUME NEW m \in Mems, CancelRetraction(m) \/ CancelUpdate(m) PROVE Inside
  <2>1. hold' \in {[op |-> hold.op, on |-> hold.on, at |-> "update", item |-> hold.item],
                   [op |-> hold.op, on |-> hold.on, at |-> "history", item |-> hold.item]}
    BY <1>4, Turns DEF CancelRetraction, CancelUpdate, Typed
  <2>2. QED
    BY <1>1, <1>4, <2>1 DEF CancelRetraction, CancelUpdate, At, Holding, trace, Inside, Places
<1>5. QED
  BY <1>2, <1>3, <1>4, MutatedCases

LEMMA DeletedInside == Typed /\ Deleted => Inside
<1> SUFFICES ASSUME Typed, NEW m \in Mems, Forgetting(m), UNCHANGED compaction PROVE Inside
  BY DEF Deleted
<1> USE DEF Forgetting, BeginForget, NothingToForget, PendingCancelled, DeleteHistory, DeleteHead
<1>1. hold.op = "forget" /\ hold.at \in Places /\ UNCHANGED << trace, written >>
  BY DEF Holding, Places
<1>2. hold = [op |-> hold.op, on |-> hold.on, at |-> hold.at, item |-> hold.item]
  BY DEF Typed, Held
<1>3. hold' = Free \/ (hold'.op = hold.op /\ hold'.on = hold.on /\ hold'.at \in Places)
  BY <1>1, <1>2 DEF GoWith, GoTo, Release, Places
<1>4. QED
  BY <1>1, <1>3 DEF Inside, trace

\* No transaction is open inside.
LEMMA NothingOpen ==
    ASSUME Typed, Transacted, Inside \/ Holding("snapshot", "begin") \/ Holding("compact", "begin")
                               \/ hold.at = "reconcile"
    PROVE  staged = {} /\ journal.phase = "none" /\ journal.of = {} /\ ~Early /\ ~Working
<1>1. hold.at \in Places \cup {"reconcile"} /\ hold # Free
  BY DEF Inside, Holding, Places, Free
<1>2. ~Early /\ ~Working
  BY <1>1 DEF Early, Working, Places, Transacting
<1>3. QED
  BY <1>2 DEF Transacted, Phased, Journalled

LEMMA InsideTransacted == Typed /\ Transacted /\ Inside => Transacted'
<1> SUFFICES ASSUME Typed, Transacted, Inside PROVE Transacted'
  OBVIOUS
<1>1. staged = {} /\ journal.phase = "none" /\ journal.of = {}
  BY NothingOpen
<1>2. staged' = {} /\ journal'.phase = "none" /\ journal'.of = {} /\ chosen' = chosen
  BY <1>1 DEF Inside, compaction
<1>3. ~Working' /\ hold'.at \notin {"restore", "unarchive"}
  BY DEF Inside, Places, Working, Transacting, Free
<1>4. \A m \in DOMAIN chosen : Short(m) \notin written'
  <2>1. \A m \in DOMAIN chosen : m \in Mems /\ Short(m) \notin written
    BY DEF Transacted, Shadowed, Typed, CompactionTyped
  <2>2. QED
    BY <2>1, MarksAssumption DEF Inside
<1>5. Journalled' /\ Phased' /\ Shadowed'
  BY <1>2, <1>3, <1>4 DEF Journalled, Phased, Shadowed, Short
<1>6. QED
  BY <1>5 DEF Transacted

LEMMA EnterTransacted == Typed /\ Transacted /\ EnterSection => Transacted'
<1> SUFFICES ASSUME Typed, Transacted, EnterSection PROVE Transacted'
  OBVIOUS
<1>1. UNCHANGED << head, archive, written, touched, had, compaction >>
  BY DEF EnterSection, trace, ghosts
<1>2. hold = Free /\ hold'.at = "recover"
  BY DEF EnterSection, Enter
<1>3. Early' /\ ~Working' /\ Early
  BY <1>2 DEF Early, Working, Transacting
<1>4. QED
  BY <1>1, <1>2, <1>3 DEF Transacted, Journalled, Phased, Shadowed, compaction, InHand

\* Of each memory one source is named.
LEMMA OneSource ==
    ASSUME CompactionTyped, Journalled, journal.phase # "none", NEW s \in staged
    PROVE  s[1] \in Sources /\ SourceOf(s[1]) = s[2]
<1>1. journal.of = staged /\ s[1] \in Sources
  BY DEF Journalled, Sources
<1>2. << s[1], SourceOf(s[1]) >> \in staged
  BY <1>1, SourceTyped
<1>3. << s[1], SourceOf(s[1]) >> = s
  BY <1>2 DEF Journalled
<1>4. s = << s[1], s[2] >>
  BY DEF CompactionTyped
<1>5. QED
  BY <1>1, <1>3, <1>4

\* What recovery changes, from which of its places.
LEMMA RecoverySteps ==
    ASSUME Typed, Recovered
    PROVE  /\ UNCHANGED << stale, written, touched, chosen, commit, explicit, ghosts >>
           /\ \/ Nothing /\ (hold' = Free \/ (hold'.at = "reconcile" /\ hold'.op = hold.op /\ hold'.on = hold.on))
              \/ Complete /\ hold'.at = "recover"
              \/ RollBack /\ hold'.at = "restore"
              \/ Restore /\ hold' = hold
              \/ Restored /\ hold'.at = "unarchive"
              \/ Unarchive /\ hold' = hold
              \/ Unarchived /\ hold'.at = "recover"
           /\ ~Nothing => hold'.op = hold.op /\ hold'.on = hold.on
<1>1. UNCHANGED << stale, written, touched, chosen, commit, explicit, ghosts >>
  BY DEF Recovered, Recovery, Nothing, Complete, Unjournal, RollBack, Restore, Restored, Unarchive,
         Unarchived, compaction, trace
<1>2. ASSUME NEW at, GoTo(at)
      PROVE  hold'.at = at /\ hold'.op = hold.op /\ hold'.on = hold.on
  <2>1. hold' = [op |-> hold.op, on |-> hold.on, at |-> at, item |-> hold.item]
    BY <1>2, Turns DEF Typed
  <2>2. QED
    BY <2>1
<1>3. QED
  BY <1>1, <1>2 DEF Recovered, Recovery, Nothing, Complete, Unjournal, RollBack, Restore, Restored, Unarchive,
         Unarchived, Release

LEMMA RecoveredTransacted == Typed /\ Transacted /\ Recovered => Transacted'
<1> SUFFICES ASSUME Typed, Transacted, Recovered PROVE Transacted'
  OBVIOUS
<1>1. UNCHANGED << written, touched, chosen, had >>
  BY RecoverySteps DEF ghosts
<1>2. hold.at \in {"recover", "restore", "unarchive"} /\ ~Working
  BY DEF Recovered, Recovery, Nothing, Complete, Unjournal, RollBack, Restore, Restored, Unarchive,
         Unarchived, Working, Transacting
<1>3. CASE Nothing
  <2>1. staged' = {} /\ journal'.phase = "none" /\ journal'.of = {}
    BY <1>3 DEF Nothing, Transacted, Journalled
  <2>2. ~Working' /\ hold'.at \notin {"restore", "unarchive"}
    BY <1>3, RecoverySteps DEF Working, Transacting, Free, Nothing, Complete, Unjournal, RollBack, Restore,
       Restored, Unarchive, Unarchived
  <2>3. QED
    BY <1>1, <2>1, <2>2 DEF Transacted, Journalled, Phased, Shadowed
<1>4. CASE Complete \/ Unarchived
  <2>1. UNCHANGED << staged, head >> /\ journal'.phase = "none" /\ journal'.of = {}
    BY <1>4 DEF Complete, Unarchived, Unjournal, NoJournal
  <2>2. hold' = [op |-> hold.op, on |-> hold.on, at |-> "recover", item |-> hold.item]
    BY <1>4, Turns DEF Complete, Unarchived, Unjournal, Typed
  <2>3. Early' /\ ~Working'
    BY <2>2 DEF Early, Working, Transacting
  <2>4. QED
    BY <1>1, <2>1, <2>2, <2>3 DEF Transacted, Journalled, Phased, Shadowed
<1>5. CASE RollBack
  <2>1. UNCHANGED << staged, head, journal >> /\ journal.phase \notin {"none", "committed"}
    BY <1>5 DEF RollBack, compaction
  <2>2. hold' = [op |-> hold.op, on |-> hold.on, at |-> "restore", item |-> hold.item]
    BY <1>5, Turns DEF RollBack, Typed
  <2>3. Early' /\ ~Working'
    BY <2>2 DEF Early, Working, Transacting
  <2>4. QED
    BY <1>1, <2>1, <2>2, <2>3 DEF Transacted, Journalled, Phased, Shadowed
<1>6. CASE Restore
  <2>1. UNCHANGED << staged, journal, archive, hold >> /\ hold.at = "restore"
    BY <1>6 DEF Restore, compaction
  <2>2. PICK n \in Sources : head' = [head EXCEPT ![n] = SourceOf(n)]
    BY <1>6 DEF Restore
  <2>3. journal.phase # "none"
    BY <2>1 DEF Transacted, Phased
  <2>4. ASSUME NEW s \in staged
        PROVE  head'[s[1]] \in {s[2], Short(s[1])} \/ s[1] \in touched
    <3>1. s[1] \in Mems
      BY DEF Typed, CompactionTyped
    <3>2. s[1] = n => head'[s[1]] = s[2]
      BY <2>2, <2>3, <3>1, OneSource DEF Typed, Transacted, FilesTyped
    <3>3. s[1] # n => head'[s[1]] = head[s[1]]
      BY <2>2
    <3>4. QED
      BY <3>2, <3>3 DEF Transacted, Shadowed
  <2>5. QED
    BY <1>1, <2>1, <2>4 DEF Transacted, Journalled, Phased, Shadowed, Early, Working, Transacting, InHand, Short
<1>7. CASE Restored
  <2>1. UNCHANGED << staged, journal, archive, head >> /\ hold.at = "restore"
    BY <1>7 DEF Restored, compaction
  <2>2. hold' = [op |-> hold.op, on |-> hold.on, at |-> "unarchive", item |-> hold.item]
    BY <1>7, Turns DEF Restored, Typed
  <2>3. journal.phase \notin {"none", "committed"}
    BY <2>1 DEF Transacted, Phased
  <2>4. ASSUME NEW s \in staged
        PROVE  head[s[1]] # Short(s[1]) /\ (head[s[1]] = s[2] \/ s[1] \in touched)
    <3>1. ~Ours(s[1])
      BY <1>7, <2>3, OneSource DEF Restored, Transacted, Typed
    <3>2. QED
      BY <3>1 DEF Transacted, Shadowed, Ours
  <2>5. Early' /\ ~Working'
    BY <2>2 DEF Early, Working, Transacting
  <2>6. QED
    BY <1>1, <2>1, <2>2, <2>3, <2>4, <2>5 DEF Transacted, Journalled, Phased, Shadowed, Short
<1>8. CASE Unarchive
  <2>1. UNCHANGED << staged, journal, hold, head >> /\ hold.at = "unarchive"
    BY <1>8 DEF Unarchive, compaction
  <2>2. journal.phase \notin {"none", "committed"}
    BY <2>1 DEF Transacted, Phased
  <2>3. QED
    BY <1>1, <1>2, <2>1, <2>2 DEF Transacted, Journalled, Phased, Shadowed, Early, Working
<1>9. QED
  BY <1>3, <1>4, <1>5, <1>6, <1>7, <1>8 DEF Recovered, Recovery

LEMMA ReconciledTransacted == Typed /\ Transacted /\ Reconciled => Transacted'
<1> SUFFICES ASSUME Typed, Transacted, Reconciled PROVE Transacted'
  OBVIOUS
<1>1. UNCHANGED << head, archive, written, touched, had, compaction >> /\ hold.at = "reconcile"
  BY DEF Reconciled, Reconcile, UnchangedFiles, trace, ghosts
<1>2. hold'.at \in {"reconcile", "begin"}
  <2>1. hold' = hold \/ hold' = [op |-> hold.op, on |-> hold.on, at |-> "begin", item |-> hold.item]
    BY Turns DEF Reconciled, Reconcile, Typed
  <2>2. QED
    BY <1>1, <2>1
<1>3. staged = {} /\ journal.phase = "none" /\ journal.of = {}
  BY <1>1, NothingOpen
<1>4. ~Working'
  BY <1>2 DEF Working, Transacting
<1>5. QED
  BY <1>1, <1>2, <1>3, <1>4 DEF Transacted, Journalled, Phased, Shadowed, compaction

LEMMA SnapshotTransacted == Typed /\ Transacted /\ (Snapshot \/ Stage \/ Decline) /\ Compacted => Transacted'
<1> SUFFICES ASSUME Typed, Transacted, Snapshot \/ Stage \/ Decline, Compacted PROVE Transacted'
  OBVIOUS
<1>0. DOMAIN << >> = {}
  OBVIOUS
<1>1. staged = {} /\ journal.phase = "none" /\ journal.of = {}
  BY NothingOpen DEF Snapshot, Stage, Decline
<1>2. UNCHANGED << head, archive, written, touched, journal >>
  BY DEF Snapshot, Stage, Decline, trace
<1>3. had' = had
  BY <1>2 DEF Compacted, Recall
<1>4. CASE Snapshot
  <2>1. hold' = Free /\ staged' = {}
    BY <1>1, <1>4 DEF Snapshot, Release
  <2>2. \A m \in DOMAIN chosen' : Short(m) \notin written
    BY <1>4 DEF Snapshot
  <2>3. Early' /\ ~Working' /\ hold'.at = "free"
    BY <2>1 DEF Early, Working, Free
  <2>4. QED
    BY <1>1, <1>2, <1>3, <2>1, <2>2, <2>3 DEF Transacted, Journalled, Phased, Shadowed, Short
<1>5. CASE Decline
  <2>1. hold' = Free /\ staged' = {} /\ DOMAIN chosen' = {}
    BY <1>0, <1>1, <1>5 DEF Decline, Release
  <2>2. Early' /\ ~Working' /\ hold'.at = "free"
    BY <2>1 DEF Early, Working, Free
  <2>3. QED
    BY <1>1, <1>2, <1>3, <2>1, <2>2 DEF Transacted, Journalled, Phased, Shadowed
<1>6. CASE Stage
  <2>1. PICK S \in (SUBSET DOMAIN chosen) \ {{}} : staged' = {<< m, chosen[m] >> : m \in S}
    BY <1>6 DEF Stage
  <2>2. hold' = [op |-> hold.op, on |-> staged', at |-> "staged", item |-> hold.item] /\ chosen' = << >>
    BY <1>6, Turns DEF Stage, Typed
  <2>3. ~Early' /\ Working' /\ hold'.at = "staged"
    BY <1>6, <2>2 DEF Early, Working, Transacting, Free, Stage, Holding
  <2>4. staged' # {}
    BY <2>1
  <2>5. ASSUME NEW m \in S
        PROVE  /\ m \in Mems /\ head[m] = chosen[m] /\ chosen[m] # Short(m)
               /\ << m, Short(m) >> \notin had
    <3>1. m \in Mems /\ Short(m) \notin written /\ chosen[m] \in Known
      BY DEF Typed, CompactionTyped, Transacted, Shadowed
    <3>2. Short(m) \notin Known
      BY <3>1, MarksAssumption DEF Known
    <3>3. << m, Short(m) >> \notin had
      BY <3>2 DEF Typed, GhostsTyped
    <3>4. QED
      BY <1>6, <3>1, <3>2, <3>3 DEF Stage, Unmoved
  <2>6. \A s, t \in staged' : s[1] = t[1] => s = t
    BY <2>1
  <2>7. ASSUME NEW s \in staged'
        PROVE  head[s[1]] = s[2] /\ s[2] # Short(s[1]) /\ << s[1], Short(s[1]) >> \notin had
    BY <2>1, <2>5
  <2>8. Journalled'
    BY <1>1, <1>2, <2>6 DEF Journalled
  <2>9. Phased'
    BY <1>1, <1>2, <2>2, <2>3, <2>4 DEF Phased, PhaseAt
  <2>10. Shadowed'
    BY <1>0, <1>2, <1>3, <2>2, <2>3, <2>7 DEF Shadowed, Short
  <2>11. QED
    BY <2>8, <2>9, <2>10 DEF Transacted
<1>7. QED
  BY <1>4, <1>5, <1>6

\* What a transaction changes, from which of its places.
LEMMA TransactionSteps ==
    ASSUME Typed, Transaction
    PROVE  \/ Mark("staged", "staged", "histories") /\ hold'.at = "histories"
           \/ ArchiveSources /\ hold' = hold
           \/ SourcesArchived /\ Mark("histories", "histories", "replacements") /\ hold'.at = "replacements"
           \/ Shorten /\ hold' = hold
           \/ Disturbed /\ hold'.op = "undo"
           \/ Shortened /\ hold'.at = "removed"
           \/ Mark("removed", "sources_removed", "index") /\ hold'.at = "index"
           \/ Mark("index", "committed", "committed") /\ hold'.at = "committed"
           \/ Unjournal("committed", "clear") /\ hold'.at = "clear"
           \/ Unstage /\ hold' = Free
           \/ Caught /\ hold'.op = "undo"
<1>1. ASSUME NEW at, GoTo(at) PROVE hold'.at = at
  <2>1. hold' = [op |-> hold.op, on |-> hold.on, at |-> at, item |-> hold.item]
    BY <1>1, Turns DEF Typed
  <2>2. QED
    BY <2>1
<1>2. Disturbed \/ Caught => hold'.op = "undo"
  <2>1. hold = [op |-> hold.op, on |-> hold.on, at |-> hold.at, item |-> hold.item]
    BY DEF Typed, Held
  <2>2. hold' = [hold EXCEPT !.op = "undo", !.at = "recover"] => hold'.op = "undo"
    BY <2>1
  <2>3. QED
    BY <2>2 DEF Disturbed, Caught
<1>3. QED
  BY <1>1, <1>2 DEF Transaction, Mark, ArchiveSources, Shorten, Shortened, Unjournal, Unstage, Release

\* The program replaces the text of one memory and remembers it.
LEMMA RecallOne ==
    ASSUME Typed, Recall, NEW m \in Mems, NEW r, Replace(m, r)
    PROVE  had \subseteq had' /\ had' \subseteq had \cup {<< m, head[m] >>}
<1>1. \A n \in Mems : n # m => head'[n] = head[n]
  BY DEF Replace, Typed, FilesTyped
<1>2. QED
  BY <1>1 DEF Recall

LEMMA RecallNone == Recall /\ UNCHANGED head => had' = had
BY DEF Recall

LEMMA TransactionTransacted == Typed /\ Transacted /\ Transaction /\ Compacted => Transacted'
<1> SUFFICES ASSUME Typed, Transacted, Transaction, Compacted PROVE Transacted'
  OBVIOUS
<1>0. DOMAIN << >> = {} /\ Recall
  BY DEF Compacted
<1>1. /\ Working /\ hold.on = staged /\ staged # {} /\ chosen = << >> /\ chosen' = chosen /\ ~Early
      /\ journal.phase = PhaseAt[hold.at]
  <2>1. Working /\ hold # Free /\ chosen' = chosen
    BY TransactionMoves
  <2>2. ~Early
    BY <2>1 DEF Early, Working, Transacting
  <2>3. QED
    BY <2>1, <2>2 DEF Transacted, Phased, Typed, Held
<1>2. DOMAIN chosen' = {} /\ \A s \in staged : s[1] \in Mems
  BY <1>0, <1>1 DEF Typed, CompactionTyped
<1>3. CASE Disturbed \/ Caught
  <2>1. UNCHANGED << head, archive, written, touched, compaction >>
    BY <1>3 DEF Disturbed, Caught, trace
  <2>2. hold' = [op |-> "undo", on |-> hold.on, at |-> "recover", item |-> hold.item]
    BY <1>3 DEF Disturbed, Caught, Typed, Held
  <2>3. Early' /\ ~Working' /\ hold'.at = "recover" /\ had' = had
    BY <1>0, <2>1, <2>2, RecallNone DEF Early, Working
  <2>4. QED
    BY <2>1, <2>3 DEF Transacted, Journalled, Phased, Shadowed, compaction, InHand, Short
<1>4. CASE Unstage
  <2>1. staged' = {} /\ hold' = Free /\ UNCHANGED << head, archive, written, touched, journal >>
        /\ hold.at = "clear"
    BY <1>4 DEF Unstage, Release, trace
  <2>2. journal.phase = "none" /\ journal.of = {}
    BY <1>1, <2>1 DEF PhaseAt, Transacted, Journalled
  <2>3. Early' /\ ~Working' /\ hold'.at = "free" /\ had' = had
    BY <1>0, <2>1, RecallNone DEF Early, Working, Free
  <2>4. QED
    BY <1>2, <2>1, <2>2, <2>3 DEF Transacted, Journalled, Phased, Shadowed
<1>5. ASSUME hold'.op = "compact", hold'.at \in Transacting, UNCHANGED << staged, touched >>,
             journal'.phase = PhaseAt[hold'.at],
             Journalled',
             hold'.at \in {"replacements", "removed", "index", "committed"} =>
                \A s \in staged : InHand(s[1], s[2])',
             hold'.at \in {"removed", "index", "committed"} => \A s \in staged : Short(s[1]) \in written',
             \A s \in staged :
                /\ head'[s[1]] \in {s[2], Short(s[1])} \/ s[1] \in touched
                /\ << s[1], Short(s[1]) >> \notin had'
      PROVE  Transacted'
  <2>1. Working' /\ hold'.at \notin {"restore", "unarchive"} /\ chosen' = << >>
    BY <1>1, <1>5 DEF Working, Transacting
  <2>2. Phased'
    BY <1>1, <1>5, <2>1 DEF Phased
  <2>3. Shadowed'
    BY <1>2, <1>5, <2>1 DEF Shadowed, Transacted, Short
  <2>4. QED
    BY <1>5, <2>2, <2>3 DEF Transacted
<1>6. \A s \in staged :
                /\ head[s[1]] \in {s[2], Short(s[1])} \/ s[1] \in touched
                /\ << s[1], Short(s[1]) >> \notin had /\ s[2] # Short(s[1])
  BY DEF Transacted, Shadowed
<1>7. /\ hold.at \in {"replacements", "removed", "index", "committed"} =>
            \A s \in staged : InHand(s[1], s[2])
      /\ hold.at \in {"removed", "index", "committed"} => \A s \in staged : Short(s[1]) \in written
      /\ journal.phase # "none" => journal.of = staged
      /\ \A s, t \in staged : s[1] = t[1] => s = t
  BY <1>1 DEF Transacted, Journalled, Phased
<1>8. ASSUME NEW at, NEW phase, NEW next, Mark(at, phase, next), hold'.at = next,
             \/ at = "staged" /\ phase = "staged" /\ next = "histories"
             \/ at = "histories" /\ phase = "histories" /\ next = "replacements" /\ SourcesArchived
             \/ at = "removed" /\ phase = "sources_removed" /\ next = "index"
             \/ at = "index" /\ phase = "committed" /\ next = "committed"
      PROVE  Transacted'
  <2>1. /\ Mark(at, phase, next) /\ hold'.at = next
        /\ \/ at = "staged" /\ phase = "staged" /\ next = "histories"
           \/ at = "histories" /\ phase = "histories" /\ next = "replacements" /\ SourcesArchived
           \/ at = "removed" /\ phase = "sources_removed" /\ next = "index"
           \/ at = "index" /\ phase = "committed" /\ next = "committed"
    BY <1>8
  <2>2. /\ journal' = [phase |-> phase, of |-> staged]
        /\ UNCHANGED << head, archive, written, staged, touched >> /\ hold.at = at /\ hold.op = "compact"
    BY <1>1, <2>1 DEF Mark, trace, Holding
  <2>3. had' = had
    BY <1>0, <2>2, RecallNone
  <2>4. hold'.op = "compact" /\ hold'.at \in Transacting
    <3>1. hold' = [op |-> hold.op, on |-> hold.on, at |-> next, item |-> hold.item]
      BY <2>1, Turns DEF Mark, Typed
    <3>2. QED
      BY <2>1, <2>2, <3>1 DEF Transacting
  <2>5. next = "replacements" => \A s \in staged : InHand(s[1], s[2])
    BY <1>1, <2>1 DEF SourcesArchived, InHand
  <2>6. Journalled'
    BY <1>1, <1>7, <2>1, <2>2 DEF Journalled, InHand, Short
  <2>7. journal'.phase = PhaseAt[next]
    BY <2>1, <2>2 DEF PhaseAt
  <2>8. QED
    BY <1>5, <1>6, <1>7, <2>1, <2>2, <2>3, <2>4, <2>5, <2>6, <2>7 DEF InHand, Short
<1>9. CASE ArchiveSources /\ hold' = hold
  <2>1. /\ archive \subseteq archive' /\ UNCHANGED << head, written, touched, journal, staged >>
        /\ hold.at = "histories" /\ hold.op = "compact"
    BY <1>9 DEF ArchiveSources, trace, compaction, Holding
  <2>2. had' = had
    BY <1>0, <2>1, RecallNone
  <2>3. Journalled'
    BY <2>1 DEF Transacted, Journalled, InHand, Short
  <2>4. hold'.at \in Transacting /\ journal'.phase = PhaseAt[hold'.at]
    BY <1>1, <1>9, <2>1 DEF Transacting
  <2>5. QED
    BY <1>5, <1>6, <1>9, <2>1, <2>2, <2>3, <2>4
<1>10. CASE Shorten /\ hold' = hold
  <2>1. PICK s \in staged : head[s[1]] = s[2] /\ Replace(s[1], Short(s[1]))
    BY <1>1, <1>10 DEF Shorten
  <2>2. /\ UNCHANGED << archive, touched, journal, staged >> /\ written \subseteq written'
        /\ hold.at = "replacements" /\ hold.op = "compact"
    BY <1>10, <2>1 DEF Shorten, trace, compaction, Holding, Replace
  <2>3. s[1] \in Mems /\ head'[s[1]] = Short(s[1]) /\ \A m \in Mems : m # s[1] => head'[m] = head[m]
    BY <1>2, <2>1 DEF Replace, Typed, FilesTyped
  <2>4. had' \subseteq had \cup {<< s[1], s[2] >>}
    BY <1>0, <2>1, <2>3, RecallOne
  <2>5. ASSUME NEW t \in staged
        PROVE  /\ head'[t[1]] \in {t[2], Short(t[1])} \/ t[1] \in touched
               /\ << t[1], Short(t[1]) >> \notin had'
    BY <1>2, <1>6, <2>3, <2>4
  <2>6. Journalled'
    BY <2>2 DEF Transacted, Journalled, InHand, Short
  <2>7. hold'.at \in Transacting /\ journal'.phase = PhaseAt[hold'.at]
    BY <1>1, <1>10, <2>2 DEF Transacting
  <2>8. QED
    BY <1>5, <1>7, <1>10, <2>2, <2>5, <2>6, <2>7 DEF InHand
<1>11. CASE Shortened /\ hold'.at = "removed"
  <2>1. /\ UNCHANGED << head, archive, written, touched, staged >> /\ journal'.of = journal.of
        /\ journal'.phase = "replacements" /\ hold.at = "replacements" /\ hold.op = "compact"
    BY <1>11 DEF Shortened, trace, Holding, Typed, CompactionTyped
  <2>2. had' = had
    BY <1>0, <2>1, RecallNone
  <2>3. journal.phase # "none"
    BY <1>1, <2>1 DEF PhaseAt
  <2>4. Journalled'
    BY <2>1, <2>3 DEF Transacted, Journalled, InHand, Short
  <2>5. \A t \in staged : Short(t[1]) \in written
    BY <1>1, <1>11 DEF Shortened, Unshortened
  <2>6. hold'.op = "compact" /\ hold'.at \in Transacting
    <3>1. hold' = [op |-> hold.op, on |-> hold.on, at |-> "removed", item |-> hold.item]
      BY <1>11, Turns DEF Shortened, Typed
    <3>2. QED
      BY <2>1, <3>1 DEF Transacting
  <2>7. journal'.phase = PhaseAt[hold'.at]
    BY <1>11, <2>1 DEF PhaseAt
  <2>8. QED
    BY <1>5, <1>6, <1>7, <1>11, <2>1, <2>2, <2>4, <2>5, <2>6, <2>7 DEF InHand
<1>12. CASE Unjournal("committed", "clear") /\ hold'.at = "clear"
  <2>1. /\ UNCHANGED << head, archive, written, touched, staged >> /\ journal'.of = {}
        /\ journal'.phase = "none"
    BY <1>12 DEF Unjournal, trace, NoJournal
  <2>2. had' = had
    BY <1>0, <2>1, RecallNone
  <2>3. Journalled'
    BY <2>1 DEF Transacted, Journalled
  <2>4. hold'.op = "compact" /\ hold'.at \in Transacting
    <3>1. hold' = [op |-> hold.op, on |-> hold.on, at |-> "clear", item |-> hold.item]
      BY <1>12, Turns DEF Unjournal, Typed
    <3>2. QED
      BY <1>1, <3>1 DEF Transacting, Working
  <2>5. journal'.phase = PhaseAt[hold'.at]
    BY <1>12, <2>1 DEF PhaseAt
  <2>6. QED
    BY <1>5, <1>6, <1>12, <2>1, <2>2, <2>3, <2>4, <2>5
<1>13. Mark("staged", "staged", "histories") /\ hold'.at = "histories" => Transacted'
  BY <1>8
<1>14. SourcesArchived /\ Mark("histories", "histories", "replacements") /\ hold'.at = "replacements" => Transacted'
  BY <1>8
<1>15. Mark("removed", "sources_removed", "index") /\ hold'.at = "index" => Transacted'
  BY <1>8
<1>16. Mark("index", "committed", "committed") /\ hold'.at = "committed" => Transacted'
  BY <1>8
<1>17. QED
  BY <1>3, <1>4, <1>9, <1>10, <1>11, <1>12, <1>13, <1>14, <1>15, <1>16, TransactionSteps, Zenon

LEMMA OutsideTransacted ==
    ASSUME Typed, Transacted, Outside
    PROVE  Transacted'
<1>1. ASSUME NEW m \in Mems, Edit(m), UNCHANGED << commit, compaction, explicit, ghosts >>
      PROVE  Transacted'
  <2>1. UNCHANGED << archive, hold, written, journal, staged, chosen, had >> /\ touched' = touched \cup {m}
    BY <1>1 DEF Edit, compaction, ghosts
  <2>2. \A n \in Mems : n # m => head'[n] = head[n]
    BY <1>1 DEF Edit
  <2>3. \A s \in staged : s[1] \in Mems
    BY DEF Typed, CompactionTyped
  <2>4. Journalled' /\ Phased'
    BY <2>1 DEF Transacted, Journalled, Phased, InHand, Short, Early, Working, Transacting
  <2>5. head' = [head EXCEPT ![m] = head'[m]] /\ head'[m] \in Person \cup {Absent}
    BY <1>1 DEF Edit, Typed, FilesTyped
  <2>6. ASSUME NEW s \in staged
        PROVE  /\ head'[s[1]] \in {s[2], Short(s[1])} \/ s[1] \in touched'
               /\ head[s[1]] # Short(s[1]) => head'[s[1]] # Short(s[1])
               /\ head[s[1]] = s[2] \/ s[1] \in touched => head'[s[1]] = s[2] \/ s[1] \in touched'
    <3>1. s[1] = m => head'[s[1]] # Short(s[1])
      BY <2>3, <2>5, MarksAssumption
    <3>2. QED
      BY <2>1, <2>2, <2>3, <3>1 DEF Transacted, Shadowed
  <2>7. Shadowed'
    BY <2>1, <2>6 DEF Transacted, Shadowed, Short
  <2>8. QED
    BY <2>4, <2>7 DEF Transacted
<1>2. CASE Asked1
  BY <1>2 DEF Asked1, Ask, files, compaction, ghosts, Transacted, Journalled, Phased, Shadowed, InHand, Short,
              Early, Working, Transacting
<1>3. CASE Hosted
  <2>1. UNCHANGED << head, archive, hold, written, touched, journal, staged, chosen, had >>
    BY <1>3 DEF Hosted, Revise, CleanUp, NewScope, UnchangedFiles, compaction, ghosts, trace
  <2>2. QED
    BY <2>1 DEF Transacted, Journalled, Phased, Shadowed, InHand, Short, Early, Working, Transacting
<1>4. CASE Stop /\ UNCHANGED << commit, compaction, explicit, ghosts >>
  <2>1. UNCHANGED << head, archive, written, touched, journal, staged, chosen, had >> /\ hold' = Free
    BY <1>4 DEF Stop, Release, compaction, ghosts
  <2>2. Early' /\ ~Working' /\ hold'.at = "free"
    BY <2>1 DEF Early, Working, Free
  <2>3. QED
    BY <2>1, <2>2 DEF Transacted, Journalled, Phased, Shadowed, InHand, Short
<1>5. QED
  BY <1>1, <1>2, <1>3, <1>4 DEF Outside, Asked1, Hosted

LEMMA NextTransacted == Typed /\ Transacted /\ [Next]_vars => Transacted'
<1>1. Typed /\ Transacted /\ UNCHANGED vars => Transacted'
  BY DEF vars, files, compaction, ghosts, Transacted, Journalled, Phased, Shadowed, InHand, Short,
         Early, Working, Transacting
<1>2. Typed /\ Transacted /\ Service => Transacted'
  BY ServiceCases, RecoveredTransacted, ReconciledTransacted, CommittedInside, CancelledWorkInside,
     MutatedInside, DeletedInside, InsideTransacted, SnapshotTransacted, TransactionTransacted DEF Compacted
<1>3. QED
  BY <1>1, <1>2, EnterTransacted, OutsideTransacted DEF Next

LEMMA InitTransacted == Init => Transacted
<1>1. DOMAIN << >> = {}
  OBVIOUS
<1>2. QED
  BY <1>1 DEF Init, InitFiles, InitCompaction, NoJournal, Free, Transacted, Journalled, Phased, Shadowed, Early,
       Working, Transacting

-----------------------------------------------------------------------------
(* The third layer holds. *)

LEMMA MemoryOf ==
    ASSUME NEW o \in Ops, Writes(o) \/ Retires(o)
    PROVE  /\ Writes(o) => Plan[o].mem \in Mems
           /\ Retires(o) => Plan[o].into \in Ops /\ Plan[Plan[o].into].mem \in Mems
BY PlanAssumption DEF Writes, Retires

\* What a head shows was written.
LEMMA AppliedWritten ==
    ASSUME Typed, NEW o \in Ops, Plan[o].mem \in Mems, head[Plan[o].mem] = o
    PROVE  o \in written
BY PlanAssumption, MarksAssumption DEF Typed, FilesTyped, Known

LEMMA Statused ==
    ASSUME CommitTyped, NEW w \in Works, NEW o \in OpsIn(w)
    PROVE  o \in Ops /\ works[w].st[o] \in Statuses
BY DEF CommitTyped, Receipt

\* The receipts stay as they are, and what was written stays recorded.
LEMMA ReceiptsKept ==
    ASSUME Receipted, UNCHANGED works, written' \cap Ops = written \cap Ops, touched \subseteq touched',
           CommitTyped, AtFile',
           \A w \in Works : \A o \in OpsIn(w) :
              ToReconcile(w, o) /\ Writes(o) => Plan[o].mem \in touched' \/ ToReconcile(w, o)'
    PROVE  Receipted'
<1>1. \A w \in Works : OpsIn(w)' = OpsIn(w) /\ OpsIn(w) \subseteq Ops
  BY DEF OpsIn, CommitTyped, Receipt
<1>2. \A w \in Works : Frozen1(w)'
  BY <1>1 DEF Receipted, Frozen1
<1>3. OnRecord' /\ SurvivorFirst'
  BY <1>1, PlanAssumption DEF Receipted, OnRecord, SurvivorFirst, Retires
<1>4. ReceiptsAreTrue'
  BY <1>1 DEF Receipted, ReceiptsAreTrue
<1>5. Acknowledged'
  BY <1>1 DEF Receipted, Acknowledged
<1>6. QED
  BY <1>2, <1>3, <1>4, <1>5 DEF Receipted

LEMMA EnterReceipted == Typed /\ Receipted /\ EnterSection => Receipted'
<1> SUFFICES ASSUME Typed, Receipted, EnterSection PROVE Receipted'
  OBVIOUS
<1>1. UNCHANGED << works, written, touched, head >> /\ hold = Free /\ hold'.at = "recover"
  BY DEF EnterSection, Enter, commit, trace
<1>2. AtFile' /\ Early'
  BY <1>1 DEF AtFile, Early
<1>3. QED
  BY <1>1, <1>2, ReceiptsKept DEF ToReconcile, Typed

LEMMA RecoveredReceipted == Typed /\ Receipted /\ Recovered => Receipted'
<1> SUFFICES ASSUME Typed, Receipted, Recovered PROVE Receipted'
  OBVIOUS
<1>1. UNCHANGED << works, written, touched >>
  BY RecoverySteps DEF commit
<1>2. hold.at \in {"recover", "restore", "unarchive"} 
  BY DEF Recovered, Recovery, Nothing, Complete, Unjournal, RollBack, Restore, Restored, Unarchive, Unarchived
<1>3. hold' = Free \/ hold'.at \in {"recover", "restore", "unarchive", "reconcile"}
  BY <1>2, RecoverySteps
<1>4. AtFile' /\ (Early' \/ hold'.at = "reconcile")
  BY <1>3 DEF AtFile, Early, Free
<1>5. ASSUME NEW w \in Works, NEW o \in OpsIn(w), ToReconcile(w, o), Writes(o)
      PROVE  ToReconcile(w, o)'
  <2>1. o \in Ops /\ Plan[o].mem \in Mems
    BY <1>5, Statused, MemoryOf DEF Typed
  <2>2. ~Ours(Plan[o].mem)
    BY <1>5, <2>1, PlanAssumption, MarksAssumption DEF ToReconcile, Ours
  <2>3. head'[Plan[o].mem] = head[Plan[o].mem]
    <3>1. CASE Restore
      <4>1. PICK n \in Sources : Ours(n) /\ head' = [head EXCEPT ![n] = SourceOf(n)]
        BY <3>1 DEF Restore
      <4>2. QED
        BY <2>1, <2>2, <4>1 DEF Typed, FilesTyped
    <3>2. CASE ~Restore
      BY <3>2, RecoverySteps DEF Nothing, Complete, Unjournal, RollBack, Restored, Unarchive, Unarchived
    <3>3. QED
      BY <3>1, <3>2
  <2>4. QED
    BY <1>4, <1>5, <2>3 DEF ToReconcile
<1>6. QED
  BY <1>1, <1>4, <1>5, ReceiptsKept DEF Typed

\* Nothing is left to reconcile in a section that began, but for the write of a commit.
LEMMA NothingLeft ==
    ASSUME Typed,
           Inside \/ (hold.op \in {"snapshot", "compact"} /\ ~Early /\ hold.at # "reconcile"),
           NEW w \in Works, NEW o \in OpsIn(w), ToReconcile(w, o)
    PROVE  hold.op = "commit" /\ hold.at = "wrote" /\ hold.on = w /\ hold.item = o
BY DEF Inside, Places, ToReconcile, Early, Free

LEMMA MutatedWrites == Typed /\ Mutated => written' \subseteq written \cup Updates \cup Retractions
<1> SUFFICES ASSUME Typed, Mutated PROVE written' \subseteq written \cup Updates \cup Retractions
  OBVIOUS
<1>1. ASSUME NEW q \in Updates, UpdateStep(q)
      PROVE  written' \subseteq written \cup Updates \cup Retractions
  BY <1>1 DEF UpdateStep, RefuseUpdate, ReplayUpdate, PlanUpdate, ArchiveForUpdate, WriteUpdate,
              SettleUpdate, Replace
<1>2. ASSUME NEW q \in Retractions, RetractStep(q)
      PROVE  written' \subseteq written \cup Updates \cup Retractions
  <2>1. WriteRetraction(q) => ret[Wants[q]].req \in Retractions
    BY RequestsAssumption DEF WriteRetraction, At, Holding, Typed, Held, Asking, ExplicitTyped, Plans
  <2>2. QED
    BY <1>2, <2>1 DEF RetractStep, VoidRetraction, EndRetraction, PlanRetraction, ArchiveForRetraction,
              WriteRetraction, SettleRetraction, Replace
<1>3. ASSUME NEW m \in Mems, CancelRetraction(m) \/ CancelUpdate(m)
      PROVE  written' \subseteq written \cup Updates \cup Retractions
  BY <1>3 DEF CancelRetraction, CancelUpdate
<1>4. QED
  BY <1>1, <1>2, <1>3, MutatedCases

LEMMA OtherReceipted ==
    ASSUME Typed, Receipted, Mutated \/ Compacted \/ Deleted, Transacted
    PROVE  Receipted'
<1>1. UNCHANGED works
  BY DEF Mutated, Kept, Compacted, commit, Deleted, Forgetting, BeginForget, NothingToForget,
         PendingCancelled, DeleteHistory, DeleteHead
<1>2. CASE Mutated \/ Deleted
  <2>1. Inside
    BY <1>2, MutatedInside, DeletedInside
  <2>2. hold.op # "commit"
    <3>1. CASE Mutated
      BY <3>1, MutatedCases DEF UpdateStep, RetractStep, RefuseUpdate, ReplayUpdate, PlanUpdate,
         ArchiveForUpdate, WriteUpdate, SettleUpdate, VoidRetraction, EndRetraction, PlanRetraction,
         ArchiveForRetraction, WriteRetraction, SettleRetraction, CancelRetraction, CancelUpdate, At, Holding
    <3>2. CASE Deleted
      BY <3>2 DEF Deleted, Forgetting, BeginForget, NothingToForget, PendingCancelled, DeleteHistory,
         DeleteHead, Holding
    <3>3. QED
      BY <1>2, <3>1, <3>2
  <2>3. AtFile'
    BY <2>1, <2>2 DEF Inside, AtFile, Free
  <2>4. written' \cap Ops = written \cap Ops
    <3>1. CASE Mutated
      <4>1. written' \subseteq written \cup Updates \cup Retractions
        BY <2>1, <2>2, <3>1, MutatedWrites
      <4>2. QED
        BY <2>1, <4>1, MarksAssumption DEF Inside
    <3>2. CASE Deleted
      BY <3>2 DEF Deleted, Forgetting, BeginForget, NothingToForget, PendingCancelled, DeleteHistory,
         DeleteHead
    <3>3. QED
      BY <1>2, <3>1, <3>2
  <2>5. QED
    <3>1. ASSUME NEW w \in Works, NEW o \in OpsIn(w) PROVE ~ToReconcile(w, o)
      <4>1. ASSUME ToReconcile(w, o) PROVE FALSE
        BY <2>1, <2>2, <4>1, NothingLeft
      <4>2. QED
        BY <4>1
    <3>2. touched \subseteq touched' /\ CommitTyped
      BY <2>1 DEF Inside, Typed
    <3>3. QED
      BY <1>1, <2>3, <2>4, <3>1, <3>2, ReceiptsKept
<1>3. CASE Compacted
  <2>1. /\ hold.op \in {"snapshot", "compact"} /\ ~Early /\ hold.at # "reconcile"
        /\ hold' = Free \/ hold'.op \in {"compact", "undo"}
        /\ UNCHANGED touched
    <3>1. CASE Snapshot \/ Stage \/ Decline
      <4>1. Stage => hold' = [op |-> hold.op, on |-> staged', at |-> "staged", item |-> hold.item]
        BY Turns DEF Stage, Typed
      <4>2. QED
        BY <3>1, <4>1 DEF Snapshot, Stage, Decline, Holding, Early, Free, Release, trace
    <3>2. CASE Transaction
      <4>1. UNCHANGED touched
        BY <3>2 DEF Transaction, Mark, ArchiveSources, Shorten, Disturbed, Shortened, Unjournal, Unstage,
                    Caught, trace
      <4>2. QED
        BY <3>2, <4>1, TransactionMoves DEF Working, Transacting, Early, Free
    <3>3. QED
      BY <1>3, <3>1, <3>2 DEF Compacted
  <2>2. AtFile'
    BY <2>1 DEF AtFile, Free
  <2>3. written' = written \/ \E m \in Mems : written' = written \cup {Short(m)}
    <3>1. CASE Shorten
      <4>1. \A s \in hold.on : s[1] \in Mems
        BY <3>1 DEF Shorten, Holding, Typed, Held, Working, Transacting, CompactionTyped
      <4>2. QED
        BY <3>1, <4>1 DEF Shorten, Replace
    <3>2. CASE ~Shorten
      BY <1>3, <3>2 DEF Compacted, Snapshot, Stage, Decline, Transaction, Mark, ArchiveSources, Disturbed,
           Shortened, Unjournal, Unstage, Caught
    <3>3. QED
      BY <3>1, <3>2
  <2>4. written' \cap Ops = written \cap Ops
    BY <2>3, Marked
  <2>5. QED
    BY <1>1, <2>1, <2>2, <2>4, NothingLeft, ReceiptsKept DEF Typed
<1>4. QED
  BY <1>2, <1>3

LEMMA ReconciledReceipted == Typed /\ Receipted /\ Reconciled => Receipted'
<1> SUFFICES ASSUME Typed, Receipted, Reconciled PROVE Receipted'
  OBVIOUS
<1>1. UNCHANGED << head, written, touched >> /\ hold.at = "reconcile" /\ CommitTyped
  BY DEF Reconciled, Reconcile, UnchangedFiles, trace, Typed
<1>2. CASE \E w \in Works : Unacknowledged(w) # {}
  <2>1. PICK w \in Works :
          works' = [works EXCEPT ![w].st =
                      [o \in OpsIn(w) |-> IF o \in Unacknowledged(w) THEN "applied" ELSE @[o]]]
    BY <1>2 DEF Reconciled, Reconcile
  <2>2. hold' = hold
    BY <1>2 DEF Reconciled, Reconcile
  <2>3. /\ \A v \in Works : OpsIn(v)' = OpsIn(v) /\ works'[v].base = works[v].base
        /\ \A v \in Works : \A p \in OpsIn(v) :
                works'[v].st[p] = IF v = w /\ p \in Unacknowledged(w) THEN "applied"
                                  ELSE works[v].st[p]
    BY <1>1, <2>1, AcknowledgeEffect
  <2>4. \A p \in Unacknowledged(w) : p \in OpsIn(w) /\ works[w].st[p] = "prepared" /\ Writes(p) /\ p \in written
    BY <1>1, Statused, MemoryOf, AppliedWritten DEF Unacknowledged, Applied
  <2>5. \A v \in Works : Frozen1(v)'
    BY <2>3, <2>4 DEF Receipted, Frozen1
  <2>6. OnRecord' /\ SurvivorFirst'
    BY <1>1, <2>3 DEF Receipted, OnRecord, SurvivorFirst
  <2>7. AtFile'
    BY <1>1, <2>2 DEF AtFile
  <2>8. ReceiptsAreTrue'
    BY <1>1, <2>3, <2>4 DEF Receipted, ReceiptsAreTrue
  <2>9. Acknowledged'
    BY <1>1, <2>2, <2>3 DEF Receipted, Acknowledged, ToReconcile, Early
  <2>10. QED
    BY <2>5, <2>6, <2>7, <2>8, <2>9 DEF Receipted
<1>3. CASE ~\E w \in Works : Unacknowledged(w) # {}
  <2>1. UNCHANGED works /\ hold'.at = "begin"
    <3>1. GoTo("begin") /\ UNCHANGED works
      BY <1>3 DEF Reconciled, Reconcile
    <3>2. hold' = [op |-> hold.op, on |-> hold.on, at |-> "begin", item |-> hold.item]
      BY <3>1, Turns DEF Typed
    <3>3. QED
      BY <3>1, <3>2
  <2>2. AtFile'
    BY <2>1 DEF AtFile
  <2>3. \A w \in Works : OpsIn(w)' = OpsIn(w)
    BY <2>1 DEF OpsIn
  <2>4. Acknowledged'
    BY <1>1, <1>3, <2>1, <2>3 DEF Receipted, Acknowledged, ToReconcile, Unacknowledged, Applied
  <2>5. \A w \in Works : Frozen1(w)'
    BY <2>1, <2>3 DEF Receipted, Frozen1
  <2>6. OnRecord' /\ SurvivorFirst' /\ ReceiptsAreTrue'
    BY <1>1, <2>1, <2>3 DEF Receipted, OnRecord, SurvivorFirst, ReceiptsAreTrue
  <2>7. QED
    BY <2>2, <2>4, <2>5, <2>6 DEF Receipted
<1>4. QED
  BY <1>2, <1>3

LEMMA OutsideReceipted == Typed /\ Receipted /\ Outside => Receipted'
<1> SUFFICES ASSUME Typed, Receipted, Outside PROVE Receipted'
  OBVIOUS
<1>1. ASSUME NEW m \in Mems, Edit(m), UNCHANGED << commit, compaction, explicit, ghosts >>
      PROVE  Receipted'
  <2>1. UNCHANGED << works, hold, written >> /\ touched' = touched \cup {m}
    BY <1>1 DEF Edit, commit
  <2>2. \A n \in Mems : n # m => head'[n] = head[n]
    BY <1>1 DEF Edit, Typed, FilesTyped
  <2>3. AtFile'
    <3>1. hold.op = "commit" => stale' = TRUE
      <4>1. hold.op = "commit" => hold # Free
        BY DEF Free
      <4>2. stale' = (hold # Free)
        BY <1>1 DEF Edit
      <4>3. QED
        BY <4>1, <4>2
    <3>2. \A w : OpsIn(w)' = OpsIn(w)
      BY <2>1 DEF OpsIn
    <3>3. CASE hold.op = "commit" /\ hold.at \in {"write", "wrote"}
      <4>1. Plan[hold.item].mem \in Mems
        BY <3>3, Statused, MemoryOf DEF Receipted, AtFile, Typed, Held
      <4>2. head'[Plan[hold.item].mem] = head[Plan[hold.item].mem] \/ Plan[hold.item].mem \in touched'
        BY <2>1, <2>2, <4>1
      <4>3. QED
        BY <2>1, <3>1, <3>2, <4>2 DEF Receipted, AtFile
    <3>4. CASE ~(hold.op = "commit" /\ hold.at \in {"write", "wrote"})
      BY <2>1, <3>4 DEF AtFile
    <3>5. QED
      BY <3>3, <3>4
  <2>4. \A w \in Works : \A o \in OpsIn(w) :
          ToReconcile(w, o) /\ Writes(o) => Plan[o].mem \in touched' \/ ToReconcile(w, o)'
    <3>1. \A w \in Works : \A o \in OpsIn(w) : Writes(o) => Plan[o].mem \in Mems
      BY Statused, MemoryOf DEF Typed
    <3>2. QED
      BY <2>1, <2>2, <3>1 DEF ToReconcile, Early
  <2>5. QED
    BY <2>1, <2>3, <2>4, ReceiptsKept DEF Typed
<1>2. CASE Asked1 \/ Hosted
  <2>1. UNCHANGED << head, archive, works, hold, stale, written, touched >>
    BY <1>2 DEF Asked1, Ask, files, commit, Hosted, Revise, CleanUp, NewScope, UnchangedFiles, trace
  <2>2. AtFile'
    BY <2>1 DEF Receipted, AtFile, OpsIn
  <2>3. QED
    BY <2>1, <2>2, ReceiptsKept DEF Typed, ToReconcile, Early
<1>3. CASE Stop /\ UNCHANGED << commit, compaction, explicit, ghosts >>
  <2>1. UNCHANGED << head, works, written, touched >> /\ hold' = Free
    BY <1>3 DEF Stop, Release, commit
  <2>2. AtFile' /\ Early'
    BY <2>1 DEF AtFile, Free, Early
  <2>3. QED
    BY <2>1, <2>2, ReceiptsKept DEF Typed, ToReconcile
<1>4. QED
  BY <1>1, <1>2, <1>3 DEF Outside, Asked1, Hosted

LEMMA CancelledWorkReceipted == Typed /\ Receipted /\ CancelledWork => Receipted'
<1> SUFFICES ASSUME Typed, Receipted, CancelledWork PROVE Receipted'
  OBVIOUS
<1>1. PICK m \in Mems, w \in Works : CancelWork(m, w)
  BY DEF CancelledWork
<1>2. UNCHANGED << head, archive, written, touched, hold, stale >> /\ hold.op = "forget" /\ hold.at = "cancel"
  BY <1>1 DEF CancelWork, UnchangedFiles, trace, Holding
<1>3. /\ \A v \in Works : OpsIn(v)' = OpsIn(v) /\ works'[v].base = works[v].base
      /\ \A v \in Works : \A p \in OpsIn(v) :
                works'[v].st[p] = IF v = w /\ p \in Cancels(m, w) THEN "cancelled"
                                  ELSE works[v].st[p]
  BY <1>1, CancelEffect DEF Typed
<1>4. \A v \in Works : Frozen1(v)'
  BY <1>3 DEF Receipted, Frozen1
<1>5. OnRecord' /\ SurvivorFirst'
  BY <1>2, <1>3 DEF Receipted, OnRecord, SurvivorFirst
<1>6. ReceiptsAreTrue'
  BY <1>2, <1>3 DEF Receipted, ReceiptsAreTrue
<1>7. AtFile' /\ Acknowledged'
  BY <1>2, <1>3, NowhereElse DEF Receipted, AtFile, Acknowledged, ToReconcile, Early, Typed
<1>8. QED
  BY <1>4, <1>5, <1>6, <1>7 DEF Receipted

\* One operation of a receipt is saved.
LEMMA SavedReceipted ==
    ASSUME Typed, Receipted, hold.op = "commit", hold.at \in {"ops", "write", "wrote"},
           NEW w \in Works, NEW o \in OpsIn(w), NEW s \in {"applied", "settled", "blocked"}, SaveOp(w, o, s),
           UNCHANGED << head, written, touched >>, AtFile',
           s \in {"applied", "settled"} /\ Writes(o) => o \in written,
           s = "blocked" /\ Writes(o) => o \notin written \/ Plan[o].mem \in touched,
           works[w].st[o] \in {"prepared", "applied"},
           \A v \in Works : \A p \in OpsIn(v) : ToReconcile(v, p) => v = w /\ p = o
    PROVE  Receipted'
<1>1. s \in Statuses
  BY DEF Statuses, Terminal
<1>2. /\ \A v \in Works : OpsIn(v)' = OpsIn(v) /\ works'[v].base = works[v].base
      /\ \A v \in Works : \A p \in OpsIn(v) :
                works'[v].st[p] = IF v = w /\ p = o THEN s ELSE works[v].st[p]
  BY <1>1, SaveOpEffect DEF Typed
<1>3. \A v \in Works : Frozen1(v)'
  BY <1>2 DEF Receipted, Frozen1
<1>4. OnRecord' /\ SurvivorFirst'
  BY <1>2 DEF Receipted, OnRecord, SurvivorFirst
<1>5. ReceiptsAreTrue'
  BY <1>2 DEF Receipted, ReceiptsAreTrue
<1>6. Acknowledged'
  BY <1>2 DEF Receipted, Acknowledged
<1>7. QED
  BY <1>3, <1>4, <1>5, <1>6 DEF Receipted

\* A commit that is not at its write has nothing to acknowledge.
LEMMA Settled1 ==
    ASSUME Receipted, hold.op = "commit", hold.at \in {"begin", "ops", "write"},
           NEW w \in Works, NEW o \in OpsIn(w)
    PROVE  /\ ~ToReconcile(w, o)
           /\ Writes(o) /\ works[w].st[o] = "prepared" /\ o \in written => Plan[o].mem \in touched
BY DEF ToReconcile, Early, Free, Receipted, Acknowledged

LEMMA ApplyReceipted ==
    ASSUME Typed, Receipted, NEW w \in Works, Apply(w)
    PROVE  Receipted'
<1>1. /\ UNCHANGED << head, written, touched >>
      /\ hold.op = "commit" /\ hold.at = "begin" /\ hold'.at = "ops"
  <2>1. hold' = [op |-> hold.op, on |-> hold.on, at |-> "ops", item |-> hold.item]
    BY Turns DEF Apply, Typed
  <2>2. QED
    BY <2>1 DEF Apply, UnchangedFiles, trace, Holding
<1>2. /\ ~Saved(w) /\ OpsIn(w) = {}
      /\ OpsIn(w)' = Inherited(w) \cup Proposed(w) /\ DOMAIN works'[w].base = Proposed(w)
      /\ \A o \in OpsIn(w)' :
            works'[w].st[o] = IF o \in Inherited(w) THEN works[Parent[w]].st[o] ELSE "prepared"
      /\ \A o \in Proposed(w) : works'[w].base[o] =
            IF Writes(o) \/ Plan[o].act = "NO_CHANGE" THEN head[Plan[o].mem] ELSE Absent
      /\ \A v \in Works : v # w => works'[v] = works[v]
  BY ApplyEffect DEF Typed
<1>3. \A v \in Works : v # w => OpsIn(v)' = OpsIn(v)
  BY <1>2 DEF OpsIn
<1>4. \A o \in Inherited(w) : /\ Parent[w] \in Works /\ o \in OpsIn(Parent[w])
                              /\ works[Parent[w]].st[o] \in {"settled", "cancelled"}
  BY OrderAssumption DEF Inherited
<1>5. \A o \in Proposed(w) : o \in Own(w) /\ Fits(o)
  BY DEF Proposed, Apply
<1>6. ASSUME NEW v \in Works PROVE Frozen1(v)'
  <2>1. CASE v = w
    <3>1. \A o \in OpsIn(w)' : works'[w].st[o] \in {"settled", "cancelled"}
                               \/ (o \in Proposed(w) /\ works'[w].st[o] = "prepared")
      BY <1>2, <1>4
    <3>2. \A o \in Proposed(w) :
            /\ Plan[o].act = "CREATE" => works'[w].base[o] = Absent
            /\ Plan[o].act = "UPDATE" => works'[w].base[o] # Absent
      BY <1>2, <1>5 DEF Fits, Writes
    <3>3. QED
      BY <1>2, <1>5, <2>1, <3>1, <3>2 DEF Frozen1
  <2>2. CASE v # w
    BY <1>2, <1>3, <2>2 DEF Receipted, Frozen1
  <2>3. QED
    BY <2>1, <2>2
<1>7. OnRecord' /\ SurvivorFirst'
  <2>1. \A o \in written \cap Ops : \E v \in Works : v # w /\ o \in Own(v) /\ o \in OpsIn(v)'
    BY <1>2, <1>3 DEF Receipted, OnRecord
  <2>2. QED
    BY <1>1, <2>1 DEF Receipted, OnRecord, SurvivorFirst
<1>8. AtFile'
  BY <1>1 DEF AtFile
<1>9. ReceiptsAreTrue'
  <2>1. ASSUME NEW o \in OpsIn(w)', Writes(o)
        PROVE  /\ works'[w].st[o] # "blocked"
               /\ works'[w].st[o] \in {"applied", "settled"} => o \in written
    BY <1>2, <1>4, <2>1 DEF Receipted, ReceiptsAreTrue
  <2>2. ASSUME NEW v \in Works, v # w
        PROVE  OpsIn(v)' = OpsIn(v) /\ works'[v] = works[v]
    BY <1>2, <1>3, <2>2
  <2>3. QED
    BY <1>1, <2>1, <2>2 DEF Receipted, ReceiptsAreTrue
<1>10. Acknowledged'
  <2>1. ASSUME NEW o \in OpsIn(w)', works'[w].st[o] = "prepared", o \in written
        PROVE  FALSE
    <3>1. o \in Own(w) /\ o \in Ops
      BY <1>2, <1>4, <1>5, <2>1, OwnOps
    <3>2. PICK v \in Works : o \in Own(v) /\ o \in OpsIn(v)
      BY <2>1, <3>1 DEF Receipted, OnRecord
    <3>3. v = w
      BY <3>1, <3>2, OwnApart
    <3>4. QED
      BY <1>2, <3>2, <3>3
  <2>2. ASSUME NEW v \in Works, v # w, NEW o \in OpsIn(v)', Writes(o), works'[v].st[o] = "prepared", o \in written
        PROVE  Plan[o].mem \in touched
    BY <1>1, <1>2, <1>3, <2>2, Settled1
  <2>3. QED
    BY <1>1, <2>1, <2>2 DEF Acknowledged
<1>11. QED
  BY <1>6, <1>7, <1>8, <1>9, <1>10 DEF Receipted

LEMMA ResumeReceipted ==
    ASSUME Typed, Receipted, NEW w \in Works, Resume(w) \/ Refuse(w)
    PROVE  Receipted'
<1>1. UNCHANGED << head, written, touched, works >> /\ hold.op = "commit" /\ hold.at = "begin"
  BY DEF Resume, Refuse, UnchangedFiles, trace, commit, Holding
<1>2. hold' = Free \/ hold'.at = "ops"
  <2>1. hold' = Free \/ hold' = [op |-> hold.op, on |-> hold.on, at |-> "ops", item |-> hold.item]
    BY Turns DEF Resume, Refuse, Typed, Release
  <2>2. QED
    BY <2>1
<1>3. AtFile'
  BY <1>2 DEF AtFile, Free
<1>4. \A v \in Works : \A o \in OpsIn(v) : ~ToReconcile(v, o)
  BY <1>1, Settled1
<1>5. QED
  BY <1>1, <1>3, <1>4, ReceiptsKept DEF Typed

LEMMA SettleReceiptReceipted ==
    ASSUME Typed, Receipted, NEW w \in Works, SettleReceipt(w)
    PROVE  Receipted'
<1>1. UNCHANGED << head, written, touched >> /\ hold' = Free /\ hold.op = "commit" /\ hold.at = "ops"
  BY DEF SettleReceipt, UnchangedFiles, trace, AtWork, Holding, Release
<1>2. \A v \in Works : OpsIn(v)' = OpsIn(v) /\ works'[v].base = works[v].base /\ works'[v].st = works[v].st
  BY SettleReceiptEffect DEF Typed
<1>3. \A v \in Works : Frozen1(v)'
  BY <1>2 DEF Receipted, Frozen1
<1>4. OnRecord' /\ SurvivorFirst' /\ ReceiptsAreTrue'
  BY <1>1, <1>2 DEF Receipted, OnRecord, SurvivorFirst, ReceiptsAreTrue
<1>5. AtFile'
  BY <1>1 DEF AtFile, Free
<1>6. Acknowledged'
  BY <1>1, <1>2, Settled1 DEF Acknowledged
<1>7. QED
  BY <1>3, <1>4, <1>5, <1>6 DEF Receipted

LEMMA OpReceipted ==
    ASSUME Typed, Receipted, NEW w \in Works, NEW o \in OpsIn(w),
           Register(w, o) \/ SettleOp(w, o) \/ Block(w, o) \/ SettleRead(w, o)
    PROVE  Receipted'
<1>1. /\ UNCHANGED << head, written, touched, hold >> /\ hold.op = "commit" /\ hold.at = "ops" /\ hold.on = w
  BY DEF Register, SettleOp, Block, SettleRead, Pending, UnchangedFiles, trace, AtWork, Holding
<1>2. AtFile'
  BY <1>1 DEF AtFile
<1>3. \A v \in Works : \A p \in OpsIn(v) : ~ToReconcile(v, p)
  BY <1>1, Settled1
<1>4. CASE Register(w, o)
  <2>1. UNCHANGED works
    BY <1>4 DEF Register
  <2>2. QED
    BY <1>1, <1>2, <1>3, <2>1, ReceiptsKept DEF Typed
<1>5. CASE SettleOp(w, o)
  <2>1. /\ works[w].st[o] = "applied" \/ (Writes(o) /\ Applied(o)) 
        /\ o \in Todo(w) /\ SaveOp(w, o, "settled")
    BY <1>5 DEF SettleOp, Next1
  <2>2. works[w].st[o] \in {"prepared", "applied"} /\ o \in Ops
    BY <2>1, Statused DEF Todo, Statuses, Typed
  <2>3. Writes(o) => o \in written
    BY <2>1, <2>2, MemoryOf, AppliedWritten DEF Receipted, ReceiptsAreTrue, Applied
  <2>4. QED
    BY <1>1, <1>2, <1>3, <2>1, <2>2, <2>3, SavedReceipted
<1>6. CASE Block(w, o)
  <2>1. works[w].st[o] = "prepared" /\ SaveOp(w, o, "blocked")
    BY <1>6 DEF Block, Pending
  <2>2. Writes(o) => o \notin written \/ Plan[o].mem \in touched
    BY <1>1, <2>1, Settled1
  <2>3. QED
    BY <1>1, <1>2, <1>3, <2>1, <2>2, SavedReceipted
<1>7. CASE SettleRead(w, o)
  <2>1. works[w].st[o] = "prepared" /\ SaveOp(w, o, "settled") /\ ~Writes(o)
    BY <1>7 DEF SettleRead, Pending
  <2>2. QED
    BY <1>1, <1>2, <1>3, <2>1, SavedReceipted
<1>8. QED
  BY <1>4, <1>5, <1>6, <1>7

LEMMA ArchiveBaseReceipted ==
    ASSUME Typed, Receipted, NEW w \in Works, NEW o \in OpsIn(w), ArchiveBase(w, o)
    PROVE  Receipted'
<1>1. /\ UNCHANGED << head, written, touched, works >> /\ stale' = FALSE
      /\ hold.op = "commit" /\ hold.at = "ops" /\ hold.on = w
  BY DEF ArchiveBase, Pending, trace, AtWork, Holding, commit, Scan
<1>2. hold' = [op |-> hold.op, on |-> hold.on, at |-> "write", item |-> o]
  BY Turns DEF ArchiveBase, Typed
<1>3. /\ o \in Ops /\ works[w].st[o] = "prepared" /\ Writes(o) /\ Unchanged(w, o) /\ PeersHold(w, o)
      /\ Plan[o].act = "UPDATE" => archive' = Archived(Plan[o].mem, works[w].base[o])
  BY Statused DEF ArchiveBase, Pending, Permitted, Typed, Writes
<1>4. o \in DOMAIN works[w].base
      /\ (Plan[o].act = "CREATE" => works[w].base[o] = Absent)
      /\ (Plan[o].act = "UPDATE" => works[w].base[o] # Absent)
  BY <1>3 DEF Receipted, Frozen1
<1>5. Retires(o) => Plan[o].into \in written
  BY <1>3, MemoryOf, AppliedWritten DEF PeersHold
<1>6. Plan[o].act = "UPDATE" => << Plan[o].mem, head[Plan[o].mem], "writer" >> \in archive'
  BY <1>3 DEF Unchanged, Archived
<1>7. OpsIn(w)' = OpsIn(w)
  BY <1>1 DEF OpsIn
<1>8. AtFile'
  BY <1>1, <1>2, <1>3, <1>4, <1>5, <1>6, <1>7 DEF AtFile, Unchanged
<1>9. \A v \in Works : \A p \in OpsIn(v) : ~ToReconcile(v, p)
  BY <1>1, Settled1
<1>10. QED
  BY <1>1, <1>8, <1>9, ReceiptsKept DEF Typed

LEMMA WriteHeadReceipted ==
    ASSUME Typed, Receipted, NEW w \in Works, NEW o \in OpsIn(w), WriteHead(w, o)
    PROVE  Receipted'
<1>1. UNCHANGED touched /\ hold.op = "commit" /\ hold.at = "write" /\ hold.on = w /\ hold.item = o
  BY DEF WriteHead, AtWork, Holding, trace
<1>2. /\ o \in Ops /\ works[w].st[o] = "prepared" /\ Writes(o) /\ Plan[o].mem \in Mems
      /\ Retires(o) => Plan[o].into \in written
  BY <1>1, Statused, MemoryOf DEF Receipted, AtFile, Typed
<1>3. \A v \in Works : \A p \in OpsIn(v) : ~ToReconcile(v, p)
  BY <1>1, Settled1
<1>4. CASE stale
  <2>1. SaveOp(w, o, "blocked") /\ UNCHANGED << head, written >>
    BY <1>4 DEF WriteHead
  <2>2. hold' = [op |-> hold.op, on |-> hold.on, at |-> "ops", item |-> hold.item]
    BY <1>4, Turns DEF WriteHead, Typed
  <2>3. AtFile'
    BY <2>2 DEF AtFile
  <2>4. o \notin written \/ Plan[o].mem \in touched
    BY <1>1, <1>2, Settled1
  <2>5. QED
    BY <1>1, <1>2, <1>3, <2>1, <2>3, <2>4, SavedReceipted
<1>5. CASE ~stale
  <2>1. /\ head' = [head EXCEPT ![Plan[o].mem] = o] /\ written' = written \cup {o} /\ UNCHANGED works
    BY <1>5 DEF WriteHead, Replace
  <2>2. hold' = [op |-> hold.op, on |-> hold.on, at |-> "wrote", item |-> hold.item]
    BY <1>5, Turns DEF WriteHead, Typed
  <2>3. head'[Plan[o].mem] = o
    BY <1>2, <2>1 DEF Typed, FilesTyped
  <2>4. \A v \in Works : OpsIn(v)' = OpsIn(v)
    BY <2>1 DEF OpsIn
  <2>5. AtFile'
    BY <1>1, <1>2, <2>1, <2>2, <2>3, <2>4 DEF AtFile
  <2>6. \A v \in Works : o \in OpsIn(v) /\ works[v].st[o] \notin {"settled", "cancelled"} => v = w
    BY <1>2, OwnApart DEF Receipted, Frozen1
  <2>7. \A v \in Works : Frozen1(v)'
    BY <2>1, <2>4 DEF Receipted, Frozen1
  <2>8. o \in Own(w)
    BY <1>2 DEF Receipted, Frozen1
  <2>9. OnRecord'
    BY <2>1, <2>4, <2>8 DEF Receipted, OnRecord
  <2>10. SurvivorFirst'
    BY <1>2, <2>1 DEF Receipted, SurvivorFirst
  <2>11. ReceiptsAreTrue'
    BY <1>1, <1>2, <2>1, <2>4, <2>6 DEF Receipted, ReceiptsAreTrue
  <2>12. ASSUME NEW v \in Works, NEW p \in OpsIn(v), Writes(p), works[v].st[p] = "prepared", p \in written'
         PROVE  Plan[p].mem \in touched \/ ToReconcile(v, p)'
    <3>1. CASE p = o
      BY <1>1, <2>2, <2>3, <2>6, <2>12, <3>1 DEF ToReconcile
    <3>2. CASE p # o
      BY <1>1, <2>1, <2>12, <3>2, Settled1
    <3>3. QED
      BY <3>1, <3>2
  <2>13. Acknowledged'
    BY <1>1, <2>1, <2>4, <2>12 DEF Acknowledged
  <2>14. QED
    BY <2>5, <2>7, <2>9, <2>10, <2>11, <2>13 DEF Receipted
<1>6. QED
  BY <1>4, <1>5

LEMMA AcknowledgeReceipted ==
    ASSUME Typed, Receipted, NEW w \in Works, NEW o \in OpsIn(w), Acknowledge(w, o)
    PROVE  Receipted'
<1>1. /\ UNCHANGED << head, written, touched >> /\ hold.op = "commit" /\ hold.at = "wrote" /\ hold.on = w
      /\ hold.item = o /\ SaveOp(w, o, "applied")
  BY DEF Acknowledge, UnchangedFiles, trace, AtWork, Holding
<1>2. o \in written /\ works[w].st[o] = "prepared"
  BY <1>1 DEF Receipted, AtFile
<1>3. hold' = [op |-> hold.op, on |-> hold.on, at |-> "ops", item |-> hold.item]
  BY Turns DEF Acknowledge, Typed
<1>4. AtFile'
  BY <1>3 DEF AtFile
<1>5. \A v \in Works : \A p \in OpsIn(v) : ToReconcile(v, p) => v = w /\ p = o
  BY <1>1 DEF ToReconcile, Early, Free
<1>6. QED
  BY <1>1, <1>2, <1>4, <1>5, SavedReceipted

LEMMA CommittedReceipted == Typed /\ Receipted /\ Committed => Receipted'
BY ApplyReceipted, ResumeReceipted, SettleReceiptReceipted, OpReceipted, ArchiveBaseReceipted,
   WriteHeadReceipted, AcknowledgeReceipted DEF Committed, Committing

LEMMA NextReceipted == Typed /\ Transacted /\ Receipted /\ [Next]_vars => Receipted'
<1>1. Typed /\ Receipted /\ UNCHANGED vars => Receipted'
  <2> SUFFICES ASSUME Typed, Receipted, UNCHANGED vars PROVE Receipted'
    OBVIOUS
  <2>1. UNCHANGED << head, archive, works, hold, stale, written, touched >>
    BY DEF vars, files, commit
  <2>2. AtFile'
    BY <2>1 DEF Receipted, AtFile, OpsIn
  <2>3. QED
    BY <2>1, <2>2, ReceiptsKept DEF Typed, ToReconcile, Early
<1>2. Typed /\ Transacted /\ Receipted /\ Service => Receipted'
  BY ServiceCases, RecoveredReceipted, ReconciledReceipted, CommittedReceipted, CancelledWorkReceipted,
     OtherReceipted
<1>3. QED
  BY <1>1, <1>2, EnterReceipted, OutsideReceipted DEF Next

LEMMA InitReceipted == Init => Receipted
<1> SUFFICES ASSUME Init PROVE Receipted
  OBVIOUS
<1>1. \A w \in Works : OpsIn(w) = {}
  BY NothingIn DEF Init, InitCommit, Saved
<1>2. written = {} /\ hold = Free
  BY DEF Init, InitFiles
<1>3. QED
  BY <1>1, <1>2 DEF Receipted, Frozen1, OnRecord, AtFile, Free, ReceiptsAreTrue, SurvivorFirst, Acknowledged

-----------------------------------------------------------------------------
(* The fourth layer holds. *)

Grows == written \subseteq written' /\ touched \subseteq touched'

LEMMA ExistedGrows == ASSUME Grows PROVE \A m : Existed(m) => Existed(m)'
BY DEF Grows, Existed

LEMMA ExistenceKept ==
    ASSUME Existence, Grows,
           \A m \in Mems : head'[m] # Absent => head[m] # Absent \/ Existed(m)',
           \A e \in archive' : e \in archive \/ Existed(e[1])',
           \A s \in staged' : s \in staged \/ Existed(s[1])',
           \A m \in forgetting' \cup forgotten' : m \in forgetting \cup forgotten \/ Existed(m)',
           (Asking("update") \/ Asking("retract") => Existed(Wants[hold.on]))'
    PROVE  Existence'
<1>1. \A m : Existed(m) => Existed(m)'
  BY ExistedGrows
<1>2. \A m \in Mems : head'[m] # Absent => Existed(m)'
  BY <1>1 DEF Existence
<1>3. \A e \in archive' : Existed(e[1])'
  BY <1>1 DEF Existence
<1>4. \A s \in staged' : Existed(s[1])'
  BY <1>1 DEF Existence
<1>5. \A m \in forgetting' \cup forgotten' : Existed(m)'
  BY <1>1 DEF Existence
<1>6. QED
  BY <1>2, <1>3, <1>4, <1>5 DEF Existence

\* A lock that is not with a request or with Forget past its beginning.
LEMMA NoneInHand ==
    ASSUME \/ hold' = Free
           \/ hold'.at \in {"recover", "restore", "unarchive", "reconcile", "begin"}
           \/ hold'.op \notin {"update", "retract", "forget"}
    PROVE  Requested' /\ Deleting' /\ ~Asking("update")' /\ ~Asking("retract")'
<1>1. \/ hold'.op = "none" \/ hold'.at \in {"recover", "restore", "unarchive", "reconcile", "begin"}
      \/ hold'.op \notin {"update", "retract", "forget"}
  BY DEF Free
<1>2. ~Asking("update")' /\ ~Asking("retract")'
  BY <1>1 DEF Asking
<1>3. Requested'
  BY <1>1 DEF Requested
<1>4. Deleting'
  BY <1>1 DEF Deleting
<1>5. QED
  BY <1>2, <1>3, <1>4

\* No operation of m is open.
Over(m) ==
    \A w \in Works : \A o \in OpsIn(w) :
        Plan[o].mem = m => works[w].st[o] \in {"cancelled", "blocked", "settled"}

LEMMA ForgottenKept ==
    ASSUME ForgottenStaysForgotten, touched \subseteq touched', forgotten' \subseteq forgotten,
           \A m \in forgotten \ touched' :
              /\ head[m] = Absent => head'[m] = Absent
              /\ upd[m] = NoPlan => upd'[m] = NoPlan
              /\ ret[m] = NoPlan => ret'[m] = NoPlan
              /\ (\A copy \in staged : copy[1] # m) => (\A copy \in staged' : copy[1] # m)
              /\ Over(m)'
    PROVE  ForgottenStaysForgotten'
BY DEF ForgottenStaysForgotten, Over

LEMMA Forgotten1 ==
    ASSUME ForgottenStaysForgotten, NEW m \in forgotten \ touched
    PROVE  head[m] = Absent /\ upd[m] = NoPlan /\ ret[m] = NoPlan /\ (\A copy \in staged : copy[1] # m) /\ Over(m)
BY DEF ForgottenStaysForgotten, Over

LEMMA OverStill == UNCHANGED works => \A m : Over(m) => Over(m)'
BY DEF Over, OpsIn

\* What is forgotten is not planned anew: it is not there to be updated, and its
\* name was taken by the operation that made it.
LEMMA NotAgain ==
    ASSUME Typed, Receipted, Existence, ForgottenStaysForgotten, NEW m \in forgotten \ touched,
           NEW w \in Works, Apply(w), NEW o \in Proposed(w)
    PROVE  Plan[o].mem # m
<1> SUFFICES ASSUME Plan[o].mem = m PROVE FALSE
  OBVIOUS
<1>1. o \in Own(w) /\ o \in Ops /\ Fits(o)
  BY OwnOps DEF Proposed, Apply
<1>2. m \in Mems /\ Existed(m) /\ head[m] = Absent
  BY Forgotten1 DEF Typed, GhostsTyped, Existence
<1>3. Plan[o].act = "CREATE"
  BY <1>1, <1>2, Marked, PlanAssumption DEF Fits
<1>4. PICK p \in written \cap Ops : Plan[p].act = "CREATE" /\ Plan[p].mem = m
  BY <1>1, <1>2, <1>3, PlanAssumption DEF Existed
<1>5. p = o
  BY <1>1, <1>3, <1>4, PlanAssumption
<1>6. PICK v \in Works : o \in Own(v) /\ o \in OpsIn(v)
  BY <1>4, <1>5 DEF Receipted, OnRecord
<1>7. v = w
  BY <1>1, <1>6, OwnApart
<1>8. OpsIn(w) = {}
  BY ApplyEffect DEF Typed
<1>9. QED
  BY <1>6, <1>7, <1>8

LEMMA OverInCommit ==
    ASSUME Typed, Receipted, Existence, ForgottenStaysForgotten, Committed, NEW m \in forgotten \ touched
    PROVE  Over(m)'
<1>1. Over(m)
  BY Forgotten1
<1>2. ASSUME NEW w \in Works, Apply(w) PROVE Over(m)'
  <2>1. \A o \in Inherited(w) : works[Parent[w]].st[o] \in {"settled", "cancelled"}
    BY DEF Inherited
  <2>2. \A o \in Proposed(w) : Plan[o].mem # m
    BY <1>2, NotAgain
  <2>3. /\ OpsIn(w)' = Inherited(w) \cup Proposed(w)
        /\ \A o \in OpsIn(w)' :
              works'[w].st[o] = IF o \in Inherited(w) THEN works[Parent[w]].st[o] ELSE "prepared"
        /\ \A v \in Works : v # w => works'[v] = works[v]
    BY <1>2, ApplyEffect DEF Typed
  <2>4. \A v \in Works : v # w => OpsIn(v)' = OpsIn(v)
    BY <2>3 DEF OpsIn
  <2>5. \A o \in OpsIn(w)' : Plan[o].mem = m => works'[w].st[o] \in {"cancelled", "blocked", "settled"}
    BY <2>1, <2>2, <2>3
  <2>6. QED
    BY <1>1, <2>3, <2>4, <2>5 DEF Over
<1>3. ASSUME NEW w \in Works, Resume(w) \/ Refuse(w) PROVE Over(m)'
  BY <1>1, <1>3, OverStill DEF Resume, Refuse, commit
<1>4. ASSUME NEW w \in Works, SettleReceipt(w) PROVE Over(m)'
  <2>1. \A v \in Works : OpsIn(v)' = OpsIn(v) /\ works'[v].st = works[v].st
    BY <1>4, SettleReceiptEffect DEF Typed
  <2>2. QED
    BY <1>1, <2>1 DEF Over
<1>5. ASSUME NEW w \in Works, NEW o \in OpsIn(w),
             \/ Register(w, o) \/ SettleOp(w, o) \/ Block(w, o) \/ SettleRead(w, o)
             \/ ArchiveBase(w, o) \/ WriteHead(w, o) \/ Acknowledge(w, o)
      PROVE  Over(m)'
  <2>1. \/ UNCHANGED works
        \/ \E s \in {"settled", "blocked"} : SaveOp(w, o, s)
        \/ Acknowledge(w, o) /\ SaveOp(w, o, "applied")
    BY <1>5 DEF Register, SettleOp, Block, SettleRead, ArchiveBase, WriteHead, Acknowledge, commit
  <2>2. CASE UNCHANGED works
    BY <1>1, <2>2, OverStill
  <2>3. ASSUME NEW s \in {"settled", "blocked"}, SaveOp(w, o, s) PROVE Over(m)'
    <3>1. s \in Statuses
      BY DEF Statuses, Terminal
    <3>2. QED
      BY <1>1, <2>3, <3>1, SaveOpEffect DEF Over, Typed
  <2>4. CASE Acknowledge(w, o) /\ SaveOp(w, o, "applied")
    <3>1. works[w].st[o] = "prepared"
      BY <2>4 DEF Receipted, AtFile, Acknowledge, AtWork, Holding
    <3>2. Plan[o].mem # m
      BY <1>1, <3>1 DEF Over
    <3>3. "applied" \in Statuses
      BY DEF Statuses
    <3>4. QED
      BY <1>1, <2>4, <3>2, <3>3, SaveOpEffect DEF Over, Typed
  <2>5. QED
    BY <2>1, <2>2, <2>3, <2>4
<1>6. QED
  BY <1>2, <1>3, <1>4, <1>5 DEF Committed, Committing

LEMMA OverInReconcile ==
    ASSUME Typed, ForgottenStaysForgotten, Reconciled, NEW m \in forgotten \ touched
    PROVE  Over(m)'
<1>1. Over(m)
  BY Forgotten1
<1>2. CASE UNCHANGED works
  BY <1>1, <1>2, OverStill
<1>3. ASSUME NEW w \in Works,
             works' = [works EXCEPT ![w].st =
                [o \in OpsIn(w) |-> IF o \in Unacknowledged(w) THEN "applied" ELSE @[o]]]
      PROVE  Over(m)'
  <2>1. \A o \in Unacknowledged(w) : Plan[o].mem # m
    BY <1>1 DEF Unacknowledged, Over
  <2>2. QED
    BY <1>1, <1>3, <2>1, AcknowledgeEffect DEF Over, Typed
<1>4. QED
  BY <1>2, <1>3 DEF Reconciled, Reconcile

LEMMA OverInCancel ==
    ASSUME Typed, ForgottenStaysForgotten, CancelledWork, NEW m \in forgotten \ touched
    PROVE  Over(m)'
<1>1. Over(m)
  BY Forgotten1
<1>2. PICK n \in Mems, w \in Works : CancelWork(n, w)
  BY DEF CancelledWork
<1>3. QED
  BY <1>1, <1>2, CancelEffect DEF Over, Typed

LEMMA StillCleared ==
    ASSUME Cleared, UNCHANGED << head, works, upd, ret, staged, forgetting, forgotten >>, Grows,
           archive' \subseteq archive,
           \/ hold' = Free
           \/ hold'.at \in {"recover", "restore", "unarchive", "reconcile", "begin"}
           \/ hold'.op \notin {"update", "retract", "forget"}
    PROVE  Cleared'
<1>1. Requested' /\ Deleting' /\ ~Asking("update")' /\ ~Asking("retract")'
  BY NoneInHand
<1>2. Existence'
  BY <1>1, ExistenceKept DEF Cleared
<1>3. ForgottenStaysForgotten'
  BY ForgottenKept, Forgotten1, OverStill DEF Cleared, Grows
<1>4. QED
  BY <1>1, <1>2, <1>3 DEF Cleared

LEMMA EnterCleared == Cleared /\ EnterSection => Cleared'
<1> SUFFICES ASSUME Cleared, EnterSection PROVE Cleared'
  OBVIOUS
<1>1. UNCHANGED << head, archive, works, upd, ret, staged, forgetting, forgotten, written, touched >>
      /\ hold'.at = "recover"
  BY DEF EnterSection, Enter, commit, trace, compaction, explicit, ghosts
<1>2. QED
  BY <1>1, StillCleared DEF Grows

LEMMA RecoveredCleared == Typed /\ Transacted /\ Cleared /\ Recovered => Cleared'
<1> SUFFICES ASSUME Typed, Transacted, Cleared, Recovered PROVE Cleared'
  OBVIOUS
<1>1. UNCHANGED << works, upd, ret, written, touched, forgetting, forgotten >> /\ Grows
  BY RecoverySteps DEF commit, explicit, ghosts, Grows
<1>2. hold.at \in {"recover", "restore", "unarchive"} 
  BY DEF Recovered, Recovery, Nothing, Complete, Unjournal, RollBack, Restore, Restored, Unarchive, Unarchived
<1>3. hold' = Free \/ hold'.at \in {"recover", "restore", "unarchive", "reconcile"}
  BY <1>2, RecoverySteps
<1>4. Requested' /\ Deleting' /\ ~Asking("update")' /\ ~Asking("retract")'
  BY <1>3, NoneInHand
<1>5. archive' \subseteq archive /\ staged' \subseteq staged
  BY DEF Recovered, Recovery, Nothing, Complete, Unjournal, RollBack, Restore, Restored, Unarchive, Unarchived,
         compaction
<1>6. \A m \in Mems : head'[m] # head[m] => \E s \in staged : s[1] = m
  <2>1. CASE Restore
    <3>1. PICK n \in Sources : head' = [head EXCEPT ![n] = SourceOf(n)]
      BY <2>1 DEF Restore
    <3>2. journal.phase # "none"
      BY <2>1 DEF Restore, Transacted, Phased
    <3>3. \E s \in staged : s[1] = n
      BY <3>1, <3>2 DEF Sources, Transacted, Journalled
    <3>4. QED
      BY <3>1, <3>3 DEF Typed, FilesTyped
  <2>2. CASE ~Restore
    BY <2>2 DEF Recovered, Recovery, Nothing, Complete, Unjournal, RollBack, Restored, Unarchive, Unarchived
  <2>3. QED
    BY <2>1, <2>2
<1>7. Existence'
  <2>1. \A m \in Mems : head'[m] # Absent => head[m] # Absent \/ Existed(m)'
    <3>1. \A m : Existed(m) => Existed(m)'
      BY <1>1, ExistedGrows
    <3>2. QED
      BY <1>6, <3>1 DEF Cleared, Existence
  <2>2. QED
    BY <1>1, <1>4, <1>5, <2>1, ExistenceKept DEF Cleared
<1>8. ForgottenStaysForgotten'
  <2>1. ASSUME NEW m \in forgotten \ touched PROVE head'[m] = head[m] /\ Over(m)'
    <3>1. m \in Mems
      BY DEF Typed, GhostsTyped
    <3>2. QED
      BY <1>1, <1>6, <3>1, Forgotten1, OverStill DEF Cleared
  <2>2. QED
    BY <1>1, <1>5, <2>1, ForgottenKept DEF Cleared
<1>9. QED
  BY <1>4, <1>7, <1>8 DEF Cleared

LEMMA ReconciledCleared == Typed /\ Cleared /\ Reconciled => Cleared'
<1> SUFFICES ASSUME Typed, Cleared, Reconciled PROVE Cleared'
  OBVIOUS
<1>1. UNCHANGED << head, archive, upd, ret, staged, forgetting, forgotten, written, touched >> /\ Grows
  BY DEF Reconciled, Reconcile, UnchangedFiles, trace, compaction, explicit, ghosts, Grows
<1>2. hold'.at \in {"reconcile", "begin"}
  <2>1. hold' = hold \/ hold' = [op |-> hold.op, on |-> hold.on, at |-> "begin", item |-> hold.item]
    BY Turns DEF Reconciled, Reconcile, Typed
  <2>2. QED
    BY <2>1 DEF Reconciled, Reconcile
<1>3. Requested' /\ Deleting' /\ ~Asking("update")' /\ ~Asking("retract")'
  BY <1>2, NoneInHand
<1>4. Existence'
  BY <1>1, <1>3, ExistenceKept DEF Cleared
<1>5. \A m \in forgotten \ touched : Over(m)'
  BY OverInReconcile DEF Cleared
<1>6. ForgottenStaysForgotten'
  BY <1>1, <1>5, ForgottenKept DEF Cleared
<1>7. QED
  BY <1>3, <1>4, <1>6 DEF Cleared

\* A section of Forget is not at the places of another.
LEMMA CommittedCleared == Typed /\ Receipted /\ Cleared /\ Committed => Cleared'
<1> SUFFICES ASSUME Typed, Receipted, Cleared, Committed PROVE Cleared'
  OBVIOUS
<1>1. CommitFrame /\ Inside
  BY CommitFramed, CommittedInside
<1>2. UNCHANGED << upd, ret, staged, forgotten, forgetting, touched >> /\ Grows
  BY <1>1 DEF CommitFrame, Inside, explicit, compaction, trace, Grows
<1>3. hold' = Free \/ hold'.op \notin {"update", "retract", "forget"}
  BY <1>1 DEF CommitFrame, Inside
<1>4. Requested' /\ Deleting' /\ ~Asking("update")' /\ ~Asking("retract")'
  BY <1>3, NoneInHand
<1>5. ASSUME NEW w \in Works, NEW o \in OpsIn(w), WriteHead(w, o), ~stale, Replace(Plan[o].mem, o)
      PROVE  \A m \in Mems : head'[m] # head[m] => m = Plan[o].mem /\ Existed(m)' /\ ~Over(m)
  <2>1. /\ o \in Ops /\ works[w].st[o] = "prepared" /\ Writes(o)
        /\ Plan[o].act = "UPDATE" => head[Plan[o].mem] # Absent
    BY <1>5, Statused DEF Receipted, AtFile, Typed, WriteHead, AtWork, Holding
  <2>2. Plan[o].mem \in Mems /\ \A m \in Mems : head'[m] # head[m] => m = Plan[o].mem
    BY <1>5, <2>1, MemoryOf DEF Replace, Typed, FilesTyped
  <2>3. Existed(Plan[o].mem)'
    <3>1. CASE Plan[o].act = "CREATE"
      BY <1>5, <2>1, <3>1 DEF Existed, Replace
    <3>2. CASE Plan[o].act = "UPDATE"
      BY <1>2, <2>1, <2>2, <3>2, ExistedGrows DEF Cleared, Existence
    <3>3. QED
      BY <2>1, <3>1, <3>2 DEF Writes
  <2>4. ~Over(Plan[o].mem)
    BY <2>1 DEF Over
  <2>5. QED
    BY <2>2, <2>3, <2>4
<1>6. ASSUME NEW w \in Works, NEW o \in OpsIn(w), ArchiveBase(w, o)
      PROVE  \A e \in archive' : e \in archive \/ Existed(e[1])'
  <2>1. /\ Plan[o].act = "UPDATE" => archive' = Archived(Plan[o].mem, works[w].base[o])
        /\ Plan[o].act # "UPDATE" => archive' = archive
        /\ Writes(o) /\ Unchanged(w, o) /\ works[w].st[o] = "prepared" /\ o \in Ops
    BY <1>6, Statused DEF ArchiveBase, Pending, Permitted, Typed, Writes
  <2>2. Plan[o].act = "UPDATE" => head[Plan[o].mem] # Absent /\ Plan[o].mem \in Mems
    BY <2>1, MemoryOf DEF Receipted, Frozen1, Unchanged
  <2>3. Plan[o].act = "UPDATE" => Existed(Plan[o].mem)'
    BY <1>2, <2>2, ExistedGrows DEF Cleared, Existence
  <2>4. QED
    BY <2>1, <2>3 DEF Archived
<1>7. Existence'
  <2>1. \A m \in Mems : head'[m] # Absent => head[m] # Absent \/ Existed(m)'
    BY <1>1, <1>5 DEF CommitFrame
  <2>2. \A e \in archive' : e \in archive \/ Existed(e[1])'
    BY <1>1, <1>6 DEF CommitFrame
  <2>3. QED
    BY <1>2, <1>4, <2>1, <2>2, ExistenceKept DEF Cleared
<1>8. ForgottenStaysForgotten'
  <2>1. ASSUME NEW m \in forgotten \ touched PROVE head'[m] = head[m] /\ Over(m)'
    <3>1. Over(m) /\ m \in Mems
      BY Forgotten1 DEF Cleared, Typed, GhostsTyped
    <3>2. head'[m] = head[m]
      BY <1>1, <1>5, <3>1 DEF CommitFrame
    <3>3. Over(m)'
      BY OverInCommit DEF Cleared
    <3>4. QED
      BY <3>2, <3>3
  <2>2. QED
    BY <1>2, <2>1, ForgottenKept DEF Cleared
<1>9. QED
  BY <1>4, <1>7, <1>8 DEF Cleared

LEMMA CancelledWorkCleared == Typed /\ Cleared /\ CancelledWork => Cleared'
<1> SUFFICES ASSUME Typed, Cleared, CancelledWork PROVE Cleared'
  OBVIOUS
<1>1. UNCHANGED << head, archive, hold, stale, upd, ret, staged, forgetting, forgotten, written, touched >> /\ Grows
      /\ hold.op = "forget" /\ hold.at = "cancel"
  <2>1. UNCHANGED forgetting
    BY DEF CancelledWork
  <2>2. QED
    BY <2>1 DEF CancelledWork, CancelWork, UnchangedFiles, trace, compaction, explicit, Grows, Holding
<1>2. Existence'
  BY <1>1, ExistenceKept DEF Cleared, Asking
<1>3. Requested' /\ Deleting'
  BY <1>1 DEF Cleared, Requested, Deleting
<1>4. \A m \in forgotten \ touched : Over(m)'
  BY OverInCancel DEF Cleared
<1>5. ForgottenStaysForgotten'
  BY <1>1, <1>4, ForgottenKept DEF Cleared
<1>6. QED
  BY <1>2, <1>3, <1>5 DEF Cleared

LEMMA UpdateCleared ==
    ASSUME Typed, Cleared, Kept, Inside, NEW q \in Updates, UpdateStep(q)
    PROVE  Cleared'
<1> DEFINE m == Wants[q]
<1>0. m \in Mems /\ q # Absent /\ Grows
  BY RequestsAssumption DEF Inside, Grows
<1>1. /\ hold.op = "update" /\ hold.on = q
      /\ UNCHANGED << ret, works, staged, forgetting, forgotten, touched >>
  <2>1. UNCHANGED << works, staged, forgetting, forgotten >>
    BY DEF Kept, commit, compaction
  <2>2. QED
    BY <2>1 DEF UpdateStep, RefuseUpdate, ReplayUpdate, PlanUpdate, ArchiveForUpdate, WriteUpdate,
         SettleUpdate, At, Holding, explicit, trace
<1>2. PlanUpdate(q) => head[m] # Absent
  BY DEF PlanUpdate
<1>3. ArchiveForUpdate(q) \/ WriteUpdate(q) \/ SettleUpdate(q) => Existed(m) /\ upd[m] # NoPlan
  BY <1>1 DEF ArchiveForUpdate, WriteUpdate, SettleUpdate, At, Holding, Asking, Cleared, Existence, Typed, Held
<1>4. /\ \A n \in Mems : head'[n] # head[n] => n = m /\ WriteUpdate(q)
      /\ \A e \in archive' : e \in archive \/ (e[1] = m /\ ArchiveForUpdate(q))
      /\ \A n \in Mems : upd'[n] # upd[n] => n = m /\ (PlanUpdate(q) \/ upd'[n] = NoPlan)
  <2>1. UNCHANGED head \/ (WriteUpdate(q) /\ head' = [head EXCEPT ![m] = q])
    BY DEF UpdateStep, RefuseUpdate, ReplayUpdate, PlanUpdate, ArchiveForUpdate, WriteUpdate,
           SettleUpdate, Replace
  <2>2. UNCHANGED archive \/ (ArchiveForUpdate(q) /\ archive' = Archived(m, upd[m].base))
    BY DEF UpdateStep, RefuseUpdate, ReplayUpdate, PlanUpdate, ArchiveForUpdate, WriteUpdate, SettleUpdate
  <2>3. \/ UNCHANGED upd \/ upd' = [upd EXCEPT ![m] = NoPlan]
        \/ PlanUpdate(q) /\ upd' = [upd EXCEPT ![m] = [req |-> q, base |-> asked[q]]]
    BY DEF UpdateStep, RefuseUpdate, ReplayUpdate, PlanUpdate, ArchiveForUpdate, WriteUpdate,
           SettleUpdate, explicit
  <2>4. \A n \in Mems : upd'[n] # upd[n] => n = m /\ (PlanUpdate(q) \/ upd'[n] = NoPlan)
    BY <2>3 DEF Typed, ExplicitTyped
  <2>5. \A n \in Mems : head'[n] # head[n] => n = m /\ WriteUpdate(q)
    BY <2>1 DEF Typed, FilesTyped
  <2>6. \A e \in archive' : e \in archive \/ (e[1] = m /\ ArchiveForUpdate(q))
    BY <2>2 DEF Archived
  <2>7. QED
    BY <2>4, <2>5, <2>6
<1>5. /\ hold' # Free => PlanUpdate(q) \/ ArchiveForUpdate(q) \/ WriteUpdate(q)
      /\ hold' = Free \/ (hold'.op = "update" /\ hold'.on = q)
  BY <1>1 DEF Inside, UpdateStep, RefuseUpdate, ReplayUpdate, SettleUpdate, Release
<1>6. Existed(m) => Existed(m)'
  BY <1>0, ExistedGrows
<1>7. head[m] # Absent => Existed(m)
  BY <1>0 DEF Cleared, Existence
<1>8. Existence'
  <2>1. (Asking("update") \/ Asking("retract") => Existed(Wants[hold.on]))'
    BY <1>2, <1>3, <1>5, <1>6, <1>7 DEF Asking, Free
  <2>2. \A n \in Mems : head'[n] # Absent => head[n] # Absent \/ Existed(n)'
    BY <1>3, <1>4, <1>6
  <2>3. \A e \in archive' : e \in archive \/ Existed(e[1])'
    BY <1>3, <1>4, <1>6
  <2>4. QED
    BY <1>0, <1>1, <2>1, <2>2, <2>3, ExistenceKept DEF Cleared
<1>9. Requested'
  <2>1. CASE hold' = Free
    BY <2>1, NoneInHand
  <2>2. CASE PlanUpdate(q)
    <3>1. hold' = [op |-> hold.op, on |-> hold.on, at |-> "archive", item |-> hold.item]
      BY <2>2, Turns DEF PlanUpdate, Typed
    <3>2. QED
      BY <3>1 DEF Requested
  <2>3. CASE WriteUpdate(q) /\ hold' # Free
    <3>1. hold' = [op |-> hold.op, on |-> hold.on, at |-> "settle", item |-> hold.item]
      BY <2>3, Turns DEF WriteUpdate, Typed, Release
    <3>2. QED
      BY <3>1 DEF Requested
  <2>4. CASE ArchiveForUpdate(q) /\ hold' # Free
    <3>1. \/ hold' = [op |-> hold.op, on |-> hold.on, at |-> "settle", item |-> hold.item]
          \/ /\ hold' = [op |-> hold.op, on |-> hold.on, at |-> "write", item |-> hold.item]
             /\ head[m] = upd[m].base /\ archive' = Archived(m, upd[m].base) /\ UNCHANGED head
      BY <2>4, Turns DEF ArchiveForUpdate, Typed, Release
    <3>2. QED
      BY <1>1, <3>1 DEF Requested, Archived
  <2>5. QED
    BY <1>5, <2>1, <2>2, <2>3, <2>4
<1>10. Deleting'
  BY <1>5 DEF Deleting, Free
<1>11. ForgottenStaysForgotten'
  <2>1. ASSUME NEW n \in forgotten \ touched
        PROVE  head'[n] = head[n] /\ upd'[n] = NoPlan /\ Over(n)'
    <3>1. head[n] = Absent /\ upd[n] = NoPlan /\ Over(n) /\ n \in Mems
      BY Forgotten1 DEF Cleared, Typed, GhostsTyped
    <3>2. head'[n] = head[n]
      BY <1>3, <1>4, <3>1
    <3>3. upd'[n] = NoPlan
      BY <1>2, <1>4, <3>1
    <3>4. QED
      BY <1>1, <3>1, <3>2, <3>3, OverStill
  <2>2. QED
    BY <1>1, <2>1, ForgottenKept DEF Cleared
<1>12. QED
  BY <1>8, <1>9, <1>10, <1>11 DEF Cleared

LEMMA RetractCleared ==
    ASSUME Typed, Cleared, Kept, Inside, NEW q \in Retractions, RetractStep(q)
    PROVE  Cleared'
<1> DEFINE m == Wants[q]
<1>0. m \in Mems /\ q # Absent /\ Grows
  BY RequestsAssumption DEF Inside, Grows
<1>1. /\ hold.op = "retract" /\ hold.on = q
      /\ UNCHANGED << upd, works, staged, forgetting, forgotten, touched >>
  <2>1. UNCHANGED << works, staged, forgetting, forgotten >>
    BY DEF Kept, commit, compaction
  <2>2. QED
    BY <2>1 DEF RetractStep, VoidRetraction, EndRetraction, PlanRetraction, ArchiveForRetraction,
         WriteRetraction, SettleRetraction, At, Holding, explicit, trace
<1>2. PlanRetraction(q) => head[m] # Absent
  <2>1. asked[q] # Absent
    BY <1>1 DEF Typed, Held
  <2>2. ret[m] # NoPlan => ret[m].base # Absent /\ ret[m].req # Absent
    BY <1>0, RequestsAssumption, Marked DEF Typed, ExplicitTyped, Plans, Known, FilesTyped
  <2>3. QED
    BY <2>1, <2>2 DEF PlanRetraction, Retractable, Usable
<1>3. ArchiveForRetraction(q) \/ WriteRetraction(q) \/ SettleRetraction(q) => Existed(m) /\ ret[m] # NoPlan
  BY <1>1 DEF ArchiveForRetraction, WriteRetraction, SettleRetraction, At, Holding, Asking, Cleared,
              Existence, Typed, Held
<1>4. /\ \A n \in Mems : head'[n] # head[n] => n = m /\ WriteRetraction(q)
      /\ \A e \in archive' : e \in archive \/ (e[1] = m /\ ArchiveForRetraction(q))
      /\ \A n \in Mems : ret'[n] # ret[n] => n = m /\ (PlanRetraction(q) \/ ret'[n] = NoPlan)
  <2>1. UNCHANGED head \/ (WriteRetraction(q) /\ head' = [head EXCEPT ![m] = ret[m].req])
    BY DEF RetractStep, VoidRetraction, EndRetraction, PlanRetraction, ArchiveForRetraction,
           WriteRetraction, SettleRetraction, Replace
  <2>2. UNCHANGED archive \/ (ArchiveForRetraction(q) /\ archive' = Archived(m, ret[m].base))
    BY DEF RetractStep, VoidRetraction, EndRetraction, PlanRetraction, ArchiveForRetraction,
           WriteRetraction, SettleRetraction
  <2>3. \/ UNCHANGED ret \/ ret' = [ret EXCEPT ![m] = NoPlan]
        \/ PlanRetraction(q) /\ ret' = [ret EXCEPT ![m] = [req |-> q, base |-> asked[q]]]
    BY DEF RetractStep, VoidRetraction, EndRetraction, PlanRetraction, ArchiveForRetraction,
           WriteRetraction, SettleRetraction, explicit
  <2>4. \A n \in Mems : ret'[n] # ret[n] => n = m /\ (PlanRetraction(q) \/ ret'[n] = NoPlan)
    BY <2>3 DEF Typed, ExplicitTyped
  <2>5. \A n \in Mems : head'[n] # head[n] => n = m /\ WriteRetraction(q)
    BY <2>1 DEF Typed, FilesTyped
  <2>6. \A e \in archive' : e \in archive \/ (e[1] = m /\ ArchiveForRetraction(q))
    BY <2>2 DEF Archived
  <2>7. QED
    BY <2>4, <2>5, <2>6
<1>5. /\ hold' # Free /\ hold' # hold => PlanRetraction(q) \/ ArchiveForRetraction(q) \/ WriteRetraction(q)
      /\ hold' = Free \/ (hold'.op = "retract" /\ hold'.on = q)
      /\ hold' = hold => PlanRetraction(q) \/ ArchiveForRetraction(q) \/ WriteRetraction(q)
                         \/ hold.at = "begin"\/ hold' = Free
  BY <1>1 DEF Inside, RetractStep, VoidRetraction, EndRetraction, SettleRetraction, Release, At, Holding
<1>6. Existed(m) => Existed(m)'
  BY <1>0, ExistedGrows
<1>7. head[m] # Absent => Existed(m)
  BY <1>0 DEF Cleared, Existence
<1>8. Existence'
  <2>1. (Asking("update") \/ Asking("retract") => Existed(Wants[hold.on]))'
    BY <1>2, <1>3, <1>5, <1>6, <1>7 DEF Asking, Free
  <2>2. \A n \in Mems : head'[n] # Absent => head[n] # Absent \/ Existed(n)'
    BY <1>3, <1>4, <1>6
  <2>3. \A e \in archive' : e \in archive \/ Existed(e[1])'
    BY <1>3, <1>4, <1>6
  <2>4. QED
    BY <1>0, <1>1, <2>1, <2>2, <2>3, ExistenceKept DEF Cleared
<1>9. Requested'
  <2>1. CASE hold' = Free \/ (hold' = hold /\ hold.at = "begin")
    BY <2>1, NoneInHand
  <2>2. CASE PlanRetraction(q)
    <3>1. hold' = [op |-> hold.op, on |-> hold.on, at |-> "archive", item |-> hold.item]
      BY <2>2, Turns DEF PlanRetraction, Typed
    <3>2. QED
      BY <3>1 DEF Requested
  <2>3. CASE WriteRetraction(q) /\ hold' # Free
    <3>1. hold' = [op |-> hold.op, on |-> hold.on, at |-> "settle", item |-> hold.item]
      BY <2>3, Turns DEF WriteRetraction, Typed, Release
    <3>2. QED
      BY <3>1 DEF Requested
  <2>4. CASE ArchiveForRetraction(q) /\ hold' # Free
    <3>1. /\ hold' = [op |-> hold.op, on |-> hold.on, at |-> "write", item |-> hold.item]
          /\ archive' = Archived(m, ret[m].base) /\ UNCHANGED ret
      BY <2>4, Turns DEF ArchiveForRetraction, Typed, Release, explicit
    <3>2. QED
      BY <1>1, <3>1 DEF Requested, Archived
  <2>5. QED
    BY <1>5, <2>1, <2>2, <2>3, <2>4
<1>10. Deleting'
  BY <1>5 DEF Deleting, Free
<1>11. ForgottenStaysForgotten'
  <2>1. ASSUME NEW n \in forgotten \ touched
        PROVE  head'[n] = head[n] /\ ret'[n] = NoPlan /\ Over(n)'
    <3>1. head[n] = Absent /\ ret[n] = NoPlan /\ Over(n) /\ n \in Mems
      BY Forgotten1 DEF Cleared, Typed, GhostsTyped
    <3>2. head'[n] = head[n]
      BY <1>3, <1>4, <3>1
    <3>3. ret'[n] = NoPlan
      BY <1>2, <1>4, <3>1
    <3>4. QED
      BY <1>1, <3>1, <3>2, <3>3, OverStill
  <2>2. QED
    BY <1>1, <2>1, ForgottenKept DEF Cleared
<1>12. QED
  BY <1>8, <1>9, <1>10, <1>11 DEF Cleared

LEMMA CancelPlanCleared ==
    ASSUME Typed, Cleared, Kept, NEW m \in Mems, CancelRetraction(m) \/ CancelUpdate(m)
    PROVE  Cleared'
<1>1. /\ hold.op = "forget" /\ hold.on = m
      /\ UNCHANGED << head, archive, stale, written, touched, works, staged, forgetting, forgotten >>
  <2>1. UNCHANGED << works, staged, forgetting, forgotten >>
    BY DEF Kept, commit, compaction
  <2>2. QED
    BY <2>1 DEF CancelRetraction, CancelUpdate, At, Holding, trace
<1>2. \/ /\ CancelRetraction(m)
         /\ hold' = [op |-> hold.op, on |-> hold.on, at |-> "update", item |-> hold.item]
      \/ /\ CancelUpdate(m)
         /\ hold' = [op |-> hold.op, on |-> hold.on, at |-> "history", item |-> hold.item]
  BY Turns DEF CancelRetraction, CancelUpdate, Typed
<1>3. hold'.op = "forget" /\ hold'.on = m /\ hold'.item = hold.item /\ hold'.at \in {"update", "history"}
  BY <1>1, <1>2
<1>4. \A w : OpsIn(w)' = OpsIn(w)
  BY <1>1 DEF OpsIn
<1>5. \A n \in Mems : ret'[n] \in {ret[n], NoPlan} /\ upd'[n] \in {upd[n], NoPlan}
  BY DEF CancelRetraction, CancelUpdate, Typed, ExplicitTyped
<1>6. Deleting'
  <2>1. CASE CancelRetraction(m) /\ hold'.at = "update"
    <3>1. ret'[m] = NoPlan /\ hold.at = "retraction"
      BY <2>1 DEF CancelRetraction, At, Holding, Typed, ExplicitTyped
    <3>2. QED
      BY <1>1, <1>3, <1>4, <2>1, <3>1 DEF Cleared, Deleting
  <2>2. CASE CancelUpdate(m) /\ hold'.at = "history"
    <3>1. upd'[m] = NoPlan /\ UNCHANGED ret /\ hold.at = "update"
      BY <2>2 DEF CancelUpdate, At, Holding, Typed, ExplicitTyped
    <3>2. QED
      BY <1>1, <1>3, <1>4, <2>2, <3>1 DEF Cleared, Deleting
  <2>3. QED
    BY <1>2, <2>1, <2>2
<1>7. Requested' /\ ~Asking("update")' /\ ~Asking("retract")'
  BY <1>3 DEF Requested, Asking
<1>8. Existence'
  BY <1>1, <1>7, ExistenceKept DEF Cleared, Grows
<1>9. ForgottenStaysForgotten'
  <2>1. forgotten \subseteq Mems
    BY DEF Typed, GhostsTyped
  <2>2. QED
    BY <1>1, <1>5, <2>1, Forgotten1, OverStill, ForgottenKept DEF Cleared
<1>10. QED
  BY <1>6, <1>7, <1>8, <1>9 DEF Cleared

LEMMA MutatedCleared == Typed /\ Cleared /\ Mutated => Cleared'
BY MutatedCases, MutatedInside, UpdateCleared, RetractCleared, CancelPlanCleared DEF Mutated

LEMMA CompactedCleared == Typed /\ Transacted /\ Cleared /\ Compacted => Cleared'
<1> SUFFICES ASSUME Typed, Transacted, Cleared, Compacted PROVE Cleared'
  OBVIOUS
<1>1. UNCHANGED << works, upd, ret, forgetting, forgotten >>
  BY DEF Compacted, commit, explicit
<1>2. (hold' = Free \/ hold'.op \notin {"update", "retract", "forget"}) /\ UNCHANGED touched
  <2>1. CASE Snapshot \/ Stage \/ Decline
    <3>1. Stage => hold' = [op |-> hold.op, on |-> staged', at |-> "staged", item |-> hold.item]
      BY Turns DEF Stage, Typed
    <3>2. QED
      BY <2>1, <3>1 DEF Snapshot, Stage, Decline, Holding, Release, trace
  <2>2. CASE Transaction
    <3>1. UNCHANGED touched
      BY <2>2 DEF Transaction, Mark, ArchiveSources, Shorten, Disturbed, Shortened, Unjournal, Unstage,
                  Caught, trace
    <3>2. QED
      BY <2>2, <3>1, TransactionMoves
  <2>3. QED
    BY <2>1, <2>2 DEF Compacted
<1>3. Requested' /\ Deleting' /\ ~Asking("update")' /\ ~Asking("retract")'
  BY <1>2, NoneInHand
<1>4. \A s \in staged : s[1] \in Mems /\ Existed(s[1]) /\ s[1] \notin forgotten \ touched
  BY Forgotten1 DEF Cleared, Existence, Typed, CompactionTyped
<1>5. Transaction => hold.on = staged
  BY TransactionMoves DEF Typed, Held
<1>6. Grows /\ \A m \in Mems : head'[m] # head[m] => \E s \in staged : s[1] = m
  <2>1. CASE Shorten
    <3>1. PICK s \in staged : Replace(s[1], Short(s[1]))
      BY <1>5, <2>1 DEF Shorten, Transaction
    <3>2. QED
      BY <1>2, <1>4, <3>1 DEF Replace, Grows, Typed, FilesTyped
  <2>2. CASE ~Shorten
    BY <1>2, <2>2 DEF Compacted, Snapshot, Stage, Decline, Transaction, Mark, ArchiveSources, Disturbed,
         Shortened, Unjournal, Unstage, Caught, Grows
  <2>3. QED
    BY <2>1, <2>2
<1>7. \A e \in archive' : e \in archive \/ \E s \in staged : s[1] = e[1]
  <2>1. CASE ArchiveSources
    <3>1. PICK s \in staged : archive' = archive \cup {<< s[1], s[2], "compactor" >>}
      BY <1>5, <2>1 DEF ArchiveSources, Transaction
    <3>2. QED
      BY <3>1
  <2>2. CASE ~ArchiveSources
    BY <2>2 DEF Compacted, Snapshot, Stage, Decline, Transaction, Mark, Shorten, Disturbed,
         Shortened, Unjournal, Unstage, Caught
  <2>3. QED
    BY <2>1, <2>2
<1>8. \A s \in staged' : s \in staged \/ (s[1] \in Mems /\ head[s[1]] # Absent)
  <2>1. CASE Stage
    <3>1. \A m \in DOMAIN chosen : m \in Mems /\ head[m] # Absent
      <4>1. Absent \notin Known
        BY Marked DEF Typed, FilesTyped, Known
      <4>2. QED
        BY <2>1, <4>1 DEF Stage, Unmoved, Typed, CompactionTyped
    <3>2. QED
      BY <2>1, <3>1 DEF Stage
  <2>2. CASE ~Stage
    BY <2>2 DEF Compacted, Snapshot, Decline, Transaction, Mark, ArchiveSources, Shorten, Disturbed,
         Shortened, Unjournal, Unstage, Caught, compaction
  <2>3. QED
    BY <2>1, <2>2
<1>9. \A m : Existed(m) => Existed(m)'
  BY <1>6, ExistedGrows
<1>10. Existence'
  <2>1. \A m \in Mems : head'[m] # Absent => head[m] # Absent \/ Existed(m)'
    BY <1>4, <1>6, <1>9
  <2>2. \A e \in archive' : e \in archive \/ Existed(e[1])'
    BY <1>4, <1>7, <1>9
  <2>3. \A s \in staged' : s \in staged \/ Existed(s[1])'
    BY <1>8, <1>9 DEF Cleared, Existence
  <2>4. QED
    BY <1>1, <1>3, <1>6, <2>1, <2>2, <2>3, ExistenceKept DEF Cleared
<1>11. ForgottenStaysForgotten'
  <2>1. ASSUME NEW m \in forgotten \ touched
        PROVE  head'[m] = head[m] /\ (\A copy \in staged' : copy[1] # m) /\ Over(m)'
    <3>1. m \in Mems /\ Over(m) /\ head[m] = Absent
      BY Forgotten1 DEF Cleared, Typed, GhostsTyped
    <3>2. \A copy \in staged' : copy[1] # m
      BY <1>4, <1>8, <2>1, <3>1
    <3>3. head'[m] = head[m]
      BY <1>4, <1>6, <2>1, <3>1
    <3>4. QED
      BY <1>1, <3>1, <3>2, <3>3, OverStill
  <2>2. QED
    BY <1>1, <1>2, <2>1, ForgottenKept DEF Cleared
<1>12. QED
  BY <1>3, <1>10, <1>11 DEF Cleared

LEMMA DeletedCleared == Typed /\ Transacted /\ Cleared /\ Deleted => Cleared'
<1> SUFFICES ASSUME Typed, Transacted, Cleared, Deleted PROVE Cleared'
  OBVIOUS
<1>1. PICK m \in Mems : Forgetting(m)
  BY DEF Deleted
<1>2. /\ hold.op = "forget" /\ hold.on = m
      /\ UNCHANGED << stale, written, touched, works, upd, ret, staged >> /\ Grows
      /\ hold = [op |-> hold.op, on |-> hold.on, at |-> hold.at, item |-> hold.item]
  BY <1>1 DEF Deleted, Forgetting, BeginForget, NothingToForget, PendingCancelled, DeleteHistory, DeleteHead,
     Holding, trace, commit, explicit, compaction, Grows, Typed, Held
<1>3. \A w : OpsIn(w)' = OpsIn(w)
  BY <1>2 DEF OpsIn
<1>4. m # Absent /\ m \in Mems
  BY Marked
<1>5. CASE NothingToForget(m)
  BY <1>2, <1>5, StillCleared DEF NothingToForget, Release, ghosts
<1>6. CASE BeginForget(m)
  <2>1. UNCHANGED << head, archive, forgotten >> /\ forgetting' = forgetting \cup {m}
        /\ (head[m] # Absent \/ HistoryOf(m) # {})
    BY <1>6 DEF BeginForget
  <2>2. /\ hold' = [op |-> "forget", on |-> m, at |-> "cancel", item |-> hold'.item]
        /\ hold'.item = IF head[m] # Absent THEN m ELSE Absent
    BY <1>2, <1>6 DEF BeginForget, GoWith
  <2>3. Existed(m)
    BY <1>4, <2>1 DEF Cleared, Existence, HistoryOf
  <2>4. \A n : Existed(n) => Existed(n)'
    BY <1>2, ExistedGrows
  <2>5. Requested' /\ ~Asking("update")' /\ ~Asking("retract")'
    BY <2>2 DEF Requested, Asking
  <2>6. Existence'
    BY <1>2, <2>1, <2>3, <2>4, <2>5, ExistenceKept DEF Cleared
  <2>7. Deleting'
    <3>1. m \in forgetting' /\ hold'.item \in {m, Absent} /\ (hold'.item = Absent => head'[m] = Absent)
      BY <1>4, <2>1, <2>2
    <3>2. hold'.on = m /\ hold'.at = "cancel"
      BY <2>2
    <3>3. QED
      BY <3>1, <3>2 DEF Deleting
  <2>8. ForgottenStaysForgotten'
    BY <1>2, <2>1, Forgotten1, OverStill, ForgottenKept DEF Cleared
  <2>9. QED
    BY <2>5, <2>6, <2>7, <2>8 DEF Cleared
<1>7. CASE PendingCancelled(m)
  <2>1. UNCHANGED << head, archive, forgotten, forgetting >> /\ AllCancelled(m) /\ hold.at = "cancel"
    BY <1>7 DEF PendingCancelled, ghosts, Holding
  <2>2. hold' = [op |-> "forget", on |-> m, at |-> "retraction", item |-> hold.item]
    BY <1>2, <1>7 DEF PendingCancelled, GoTo
  <2>3. \A w \in Works : \A o \in OpsIn(w) : Plan[o].mem = m => works[w].st[o] = "cancelled"
    BY <2>1 DEF AllCancelled, Cancels
  <2>4. Requested' /\ ~Asking("update")' /\ ~Asking("retract")'
    BY <2>2 DEF Requested, Asking
  <2>5. Existence'
    BY <1>2, <2>1, <2>4, ExistenceKept DEF Cleared
  <2>6. Deleting'
    BY <1>2, <1>3, <2>1, <2>2, <2>3 DEF Deleting, Cleared
  <2>7. ForgottenStaysForgotten'
    BY <1>2, <2>1, Forgotten1, OverStill, ForgottenKept DEF Cleared
  <2>8. QED
    BY <2>4, <2>5, <2>6, <2>7 DEF Cleared
<1>8. CASE DeleteHistory(m)
  <2>1. UNCHANGED << head, forgotten, forgetting, hold >> /\ hold.at = "history" /\ archive' \subseteq archive
    BY <1>8 DEF DeleteHistory, ghosts, Holding
  <2>2. Requested' /\ ~Asking("update")' /\ ~Asking("retract")'
    BY <1>2, <2>1 DEF Requested, Asking
  <2>3. Existence'
    BY <1>2, <2>1, <2>2, ExistenceKept DEF Cleared
  <2>4. Deleting'
    BY <1>2, <1>3, <2>1 DEF Deleting, Cleared
  <2>5. ForgottenStaysForgotten'
    BY <1>2, <2>1, Forgotten1, OverStill, ForgottenKept DEF Cleared
  <2>6. QED
    BY <2>2, <2>3, <2>4, <2>5 DEF Cleared
<1>9. CASE DeleteHead(m)
  <2>1. /\ hold' = Free /\ hold.at = "history" /\ UNCHANGED archive
        /\ head' = IF hold.item = m THEN [head EXCEPT ![m] = Absent] ELSE head
        /\ forgetting' = forgetting \ {m} /\ forgotten' = forgotten \cup {m}
    BY <1>9 DEF DeleteHead, Release, Holding
  <2>2. Requested' /\ Deleting' /\ ~Asking("update")' /\ ~Asking("retract")'
    BY <2>1, NoneInHand
  <2>3. /\ m \in forgetting /\ hold.item \in {m, Absent}
        /\ hold.item = Absent => head[m] = Absent \/ m \in touched
        /\ \A w \in Works : \A o \in OpsIn(w) : Plan[o].mem = m => works[w].st[o] = "cancelled"
        /\ ret[m] = NoPlan /\ upd[m] = NoPlan
    BY <1>2, <2>1 DEF Cleared, Deleting
  <2>4. \A n \in Mems : head'[n] = Absent \/ head'[n] = head[n]
    BY <2>1 DEF Typed, FilesTyped
  <2>5. Existence'
    BY <1>2, <2>1, <2>2, <2>3, <2>4, ExistenceKept DEF Cleared
  <2>6. head'[m] = Absent \/ m \in touched
    BY <2>1, <2>3 DEF Typed, FilesTyped
  <2>7. staged = {}
    <3>1. Inside
      BY DeletedInside
    <3>2. QED
      BY <3>1, NothingOpen
  <2>8. ASSUME NEW n \in forgotten' \ touched'
        PROVE  head'[n] = Absent /\ upd'[n] = NoPlan /\ ret'[n] = NoPlan
               /\ (\A copy \in staged' : copy[1] # n) /\ Over(n)'
    <3>1. n \notin touched /\ (n = m \/ n \in forgotten) /\ n \in Mems
      BY <1>2, <2>1 DEF Typed, GhostsTyped
    <3>2. CASE n = m
      BY <1>2, <1>3, <2>3, <2>6, <2>7, <3>1, <3>2 DEF Over
    <3>3. CASE n \in forgotten
      BY <1>2, <2>4, <3>1, <3>3, Forgotten1, OverStill DEF Cleared
    <3>4. QED
      BY <3>1, <3>2, <3>3
  <2>9. ForgottenStaysForgotten'
    BY <2>8 DEF ForgottenStaysForgotten, Over
  <2>10. QED
    BY <2>2, <2>5, <2>9 DEF Cleared
<1>10. QED
  BY <1>1, <1>5, <1>6, <1>7, <1>8, <1>9 DEF Forgetting

LEMMA OutsideCleared == Typed /\ Cleared /\ Outside => Cleared'
<1> SUFFICES ASSUME Typed, Cleared, Outside PROVE Cleared'
  OBVIOUS
<1>1. ASSUME NEW m \in Mems, Edit(m), UNCHANGED << commit, compaction, explicit, ghosts >>
      PROVE  Cleared'
  <2>1. /\ UNCHANGED << archive, hold, written, works, upd, ret, staged, forgetting, forgotten >>
        /\ touched' = touched \cup {m} /\ Grows
    BY <1>1 DEF Edit, commit, explicit, compaction, ghosts, Grows
  <2>2. \A n \in Mems : n # m => head'[n] = head[n]
    BY <1>1 DEF Edit, Typed, FilesTyped
  <2>3. \A w : OpsIn(w)' = OpsIn(w)
    BY <2>1 DEF OpsIn
  <2>4. Existed(m)'
    BY <2>1 DEF Existed
  <2>5. \A n : Existed(n) => Existed(n)'
    BY <2>1, ExistedGrows
  <2>6. Existence'
    <3>1. (Asking("update") \/ Asking("retract") => Existed(Wants[hold.on]))'
      BY <2>1, <2>5 DEF Cleared, Existence, Asking
    <3>2. \A n \in Mems : head'[n] # Absent => head[n] # Absent \/ Existed(n)'
      BY <2>2, <2>4
    <3>3. QED
      BY <2>1, <3>1, <3>2, ExistenceKept DEF Cleared
  <2>7. Requested'
    <3>1. hold.op # "none" => stale' = TRUE
      <4>1. hold.op # "none" => hold # Free
        BY DEF Free
      <4>2. stale' = (hold # Free)
        BY <1>1 DEF Edit
      <4>3. QED
        BY <4>1, <4>2
    <3>2. QED
      BY <2>1, <3>1 DEF Cleared, Requested
  <2>8. Deleting'
    <3>1. hold.op = "forget" => hold.on \in Mems
      BY DEF Typed, Held
    <3>2. QED
      BY <2>1, <2>2, <2>3, <3>1 DEF Cleared, Deleting
  <2>9. ForgottenStaysForgotten'
    <3>1. \A n \in forgotten \ touched' : head'[n] = head[n]
      BY <2>1, <2>2 DEF Typed, GhostsTyped
    <3>2. \A n \in forgotten \ touched' : Over(n)'
      BY <2>1, Forgotten1, OverStill DEF Cleared
    <3>3. QED
      BY <2>1, <3>1, <3>2, ForgottenKept DEF Cleared
  <2>10. QED
    BY <2>6, <2>7, <2>8, <2>9 DEF Cleared
<1>2. CASE Asked1
  BY <1>2, StillCleared DEF Asked1, Ask, files, commit, compaction, ghosts, Grows
<1>3. CASE Hosted
  <2>1. UNCHANGED << head, archive, hold, stale, written, touched, works, upd, ret, staged, forgetting, forgotten >>
    BY <1>3 DEF Hosted, Revise, CleanUp, NewScope, UnchangedFiles, explicit, compaction, ghosts, trace
  <2>2. hold = Free
    BY <1>3 DEF Hosted, Revise, CleanUp, NewScope
  <2>3. QED
    BY <2>1, <2>2, StillCleared DEF Grows
<1>4. CASE Stop /\ UNCHANGED << commit, compaction, explicit, ghosts >>
  BY <1>4, StillCleared DEF Stop, Release, commit, compaction, explicit, ghosts, Grows
<1>5. QED
  BY <1>1, <1>2, <1>3, <1>4 DEF Outside, Asked1, Hosted

LEMMA NextCleared == Typed /\ Transacted /\ Receipted /\ Cleared /\ [Next]_vars => Cleared'
<1>1. Cleared /\ UNCHANGED vars => Cleared'
  <2> SUFFICES ASSUME Cleared, UNCHANGED vars PROVE Cleared'
    OBVIOUS
  <2>1. UNCHANGED << head, archive, hold, stale, written, touched, works, upd, ret, staged, forgetting, forgotten >>
    BY DEF vars, files, commit, explicit, compaction, ghosts
  <2>2. Existence'
    <3>1. (Asking("update") \/ Asking("retract") => Existed(Wants[hold.on]))'
      BY <2>1 DEF Cleared, Existence, Asking, Existed
    <3>2. QED
      BY <2>1, <3>1, ExistenceKept DEF Cleared, Grows
  <2>3. Requested' /\ Deleting'
    BY <2>1 DEF Cleared, Requested, Deleting, OpsIn
  <2>4. ForgottenStaysForgotten'
    BY <2>1, Forgotten1, OverStill, ForgottenKept DEF Cleared
  <2>5. QED
    BY <2>2, <2>3, <2>4 DEF Cleared
<1>2. Typed /\ Transacted /\ Receipted /\ Cleared /\ Service => Cleared'
  BY ServiceCases, RecoveredCleared, ReconciledCleared, CommittedCleared, CancelledWorkCleared,
     MutatedCleared, CompactedCleared, DeletedCleared
<1>3. QED
  BY <1>1, <1>2, EnterCleared, OutsideCleared DEF Next

LEMMA InitCleared == Init => Cleared
<1> SUFFICES ASSUME Init PROVE Cleared
  OBVIOUS
<1>1. /\ archive = {} /\ hold = Free /\ staged = {} /\ forgetting = {} /\ forgotten = {}
      /\ \A m \in Mems : head[m] # Absent => m \in Seeded
  BY DEF Init, InitFiles, InitCompaction
<1>2. Existence
  BY <1>1 DEF Existence, Existed, Asking, Free
<1>3. QED
  BY <1>1, <1>2 DEF Cleared, Requested, Deleting, ForgottenStaysForgotten, Free

-----------------------------------------------------------------------------
(* A receipt and the one it completes. *)

LEMMA InheritingKept ==
    ASSUME Inheriting,
           \A v \in Works : (Saved(v) => Saved(v)') /\ OpsIn(v)' = OpsIn(v),
           \A c \in Works : Begun(c)' => Begun(c),
           \A c \in Works : \A o \in OpsIn(Parent[c]) :
              Parent[c] # Absent /\ Begun(c) /\ works[Parent[c]].st[o] \in Terminal =>
                /\ works'[Parent[c]].st[o] \in Terminal
                /\ works'[Parent[c]].st[o] = "settled" => works[Parent[c]].st[o] = "settled",
           \A c \in Works : \A o \in OpsIn(c) :
              works[c].st[o] = "settled" => works'[c].st[o] = "settled" \/ Plan[o].mem \in forgetting',
           \A w \in Works : \A o \in OpsIn(w) :
              works'[w].st[o] = "settled" /\ Plan[o].mem \in forgetting => Plan[o].mem \in forgetting'
    PROVE  Inheriting'
<1> SUFFICES ASSUME NEW c \in Works, Parent[c] # Absent, Begun(c)'
             PROVE  /\ Saved(Parent[c])'
                    /\ \A o \in OpsIn(Parent[c])' :
                        /\ works'[Parent[c]].st[o] \in Terminal
                        /\ works'[Parent[c]].st[o] = "settled" =>
                            \/ o \in OpsIn(c)' /\ works'[c].st[o] = "settled"
                            \/ Plan[o].mem \in forgetting'
  BY DEF Inheriting
<1>1. Parent[c] \in Works /\ Begun(c)
  BY OrderAssumption
<1>2. Saved(Parent[c])' /\ OpsIn(Parent[c])' = OpsIn(Parent[c])
  BY <1>1 DEF Inheriting
<1>3. ASSUME NEW o \in OpsIn(Parent[c])
      PROVE  /\ works'[Parent[c]].st[o] \in Terminal
             /\ works'[Parent[c]].st[o] = "settled" =>
                  \/ o \in OpsIn(c)' /\ works'[c].st[o] = "settled"
                  \/ Plan[o].mem \in forgetting'
  BY <1>1, <1>3 DEF Inheriting
<1>4. QED
  BY <1>2, <1>3

\* Receipts and what Forget has begun stay, and no commit begins its work.
LEMMA InheritingStill ==
    ASSUME Inheriting, UNCHANGED << works, forgetting >>,
           \A c \in Works : Begun(c)' => Begun(c)
    PROVE  Inheriting'
<1>1. \A v : (Saved(v) => Saved(v)') /\ OpsIn(v)' = OpsIn(v)
  BY DEF Saved, OpsIn
<1>2. QED
  BY <1>1, InheritingKept

LEMMA NotBegun ==
    ASSUME UNCHANGED works, hold' = Free \/ hold'.op # "commit" \/ hold'.at \notin {"ops", "write", "wrote"}
    PROVE  \A c \in Works : Begun(c)' => Begun(c)
BY DEF Begun, Saved, Free

\* A receipt with an operation is saved.
LEMMA SavedWith == \A w : (OpsIn(w) # {} => Saved(w)) /\ (OpsIn(w)' # {} => Saved(w)')
<1>1. DOMAIN << >> = {}
  OBVIOUS
<1>2. QED
  BY <1>1 DEF Saved, NoWork, OpsIn

LEMMA ReconciledInheriting == Typed /\ Inheriting /\ Reconciled => Inheriting'
<1> SUFFICES ASSUME Typed, Inheriting, Reconciled PROVE Inheriting'
  OBVIOUS
<1>1. UNCHANGED forgetting
  BY DEF Reconciled, ghosts
<1>2. hold'.at \in {"reconcile", "begin"}
  <2>1. hold' = hold \/ hold' = [op |-> hold.op, on |-> hold.on, at |-> "begin", item |-> hold.item]
    BY Turns DEF Reconciled, Reconcile, Typed
  <2>2. QED
    BY <2>1 DEF Reconciled, Reconcile
<1>3. CASE UNCHANGED works
  BY <1>1, <1>2, <1>3, NotBegun, InheritingStill
<1>4. ASSUME NEW w \in Works, Unacknowledged(w) # {},
             works' = [works EXCEPT ![w].st =
                [o \in OpsIn(w) |-> IF o \in Unacknowledged(w) THEN "applied" ELSE @[o]]]
      PROVE  Inheriting'
  <2>1. /\ \A v \in Works : OpsIn(v)' = OpsIn(v)
        /\ \A v \in Works : \A p \in OpsIn(v) :
              works'[v].st[p] = IF v = w /\ p \in Unacknowledged(w) THEN "applied" ELSE works[v].st[p]
    BY <1>4, AcknowledgeEffect DEF Typed
  <2>2. \A o \in Unacknowledged(w) : o \in OpsIn(w) /\ works[w].st[o] = "prepared"
    BY DEF Unacknowledged
  <2>3. OpsIn(w) # {} /\ OpsIn(w)' # {}
    BY <1>4, <2>1, <2>2
  <2>4. Saved(w) /\ Saved(w)'
    BY <2>3, SavedWith
  <2>5. \A v \in Works : Saved(v)' <=> Saved(v)
    BY <1>4, <2>4 DEF Saved, Typed, CommitTyped
  <2>6. \A c \in Works : Begun(c)' => Begun(c)
    BY <1>2, <2>5 DEF Begun
  <2>7. \A c \in Works : Parent[c] # Absent => Parent[c] \in Works
    BY OrderAssumption
  <2>8. QED
    BY <1>1, <2>1, <2>2, <2>5, <2>6, <2>7, InheritingKept DEF Terminal
<1>5. QED
  BY <1>3, <1>4 DEF Reconciled, Reconcile

LEMMA CancelledWorkInheriting == Typed /\ Cleared /\ Inheriting /\ CancelledWork => Inheriting'
<1> SUFFICES ASSUME Typed, Cleared, Inheriting, CancelledWork PROVE Inheriting'
  OBVIOUS
<1>1. PICK m \in Mems, w \in Works : CancelWork(m, w)
  BY DEF CancelledWork
<1>2. /\ UNCHANGED << hold, forgetting >> /\ hold.op = "forget" /\ hold.at = "cancel" /\ hold.on = m
      /\ Cancels(m, w) # {}
  BY <1>1 DEF CancelWork, Holding, CancelledWork
<1>3. m \in forgetting
  BY <1>2 DEF Cleared, Deleting
<1>4. /\ \A v \in Works : OpsIn(v)' = OpsIn(v)
      /\ \A v \in Works : \A p \in OpsIn(v) :
            works'[v].st[p] = IF v = w /\ p \in Cancels(m, w) THEN "cancelled" ELSE works[v].st[p]
  BY <1>1, CancelEffect DEF Typed
<1>5. OpsIn(w) # {} /\ OpsIn(w)' # {}
  BY <1>2, <1>4 DEF Cancels
<1>6. Saved(w) /\ Saved(w)'
  BY <1>5, SavedWith
<1>7. \A v \in Works : Saved(v)' <=> Saved(v)
  BY <1>1, <1>6 DEF Saved, Typed, CommitTyped, CancelWork
<1>8. \A c \in Works : Begun(c)' => Begun(c)
  BY <1>2, <1>7 DEF Begun
<1>9. \A o \in Cancels(m, w) : works[w].st[o] = "settled" => Plan[o].mem \in forgetting
  BY <1>3 DEF Cancels, Terminal
<1>10. \A c \in Works : Parent[c] # Absent => Parent[c] \in Works
  BY OrderAssumption
<1>11. QED
  BY <1>2, <1>4, <1>7, <1>8, <1>9, <1>10, InheritingKept DEF Terminal

LEMMA ApplyInheriting ==
    ASSUME Typed, Inheriting, NEW w \in Works, Apply(w), UNCHANGED forgetting
    PROVE  Inheriting'
<1>1. /\ ~Saved(w) /\ OpsIn(w)' = Inherited(w) \cup Proposed(w)
      /\ \A o \in OpsIn(w)' :
            works'[w].st[o] = IF o \in Inherited(w) THEN works[Parent[w]].st[o] ELSE "prepared"
      /\ \A v \in Works : v # w => works'[v] = works[v]
  BY ApplyEffect DEF Typed
<1>2. \A v \in Works : v # w => OpsIn(v)' = OpsIn(v) /\ (Saved(v)' <=> Saved(v))
  BY <1>1 DEF OpsIn, Saved
<1>3. hold'.on = w
  <2>1. hold' = [op |-> hold.op, on |-> hold.on, at |-> "ops", item |-> hold.item]
    BY Turns DEF Apply, Typed
  <2>2. QED
    BY <2>1 DEF Apply
<1>4. SUFFICES ASSUME NEW c \in Works, Parent[c] # Absent, Begun(c)'
      PROVE  /\ Saved(Parent[c])'
             /\ \A o \in OpsIn(Parent[c])' :
                 /\ works'[Parent[c]].st[o] \in Terminal
                 /\ works'[Parent[c]].st[o] = "settled" =>
                     \/ o \in OpsIn(c)' /\ works'[c].st[o] = "settled"
                     \/ Plan[o].mem \in forgetting'
  BY DEF Inheriting
<1>5. Parent[c] \in Works
  BY <1>4, OrderAssumption
<1>6. CASE c = w
  <2>1. Saved(Parent[w]) /\ ~RecoveryRequired(Parent[w]) /\ Parent[w] # w
    BY <1>1, <1>4, <1>6 DEF Apply
  <2>2. \A o \in OpsIn(Parent[w]) : works[Parent[w]].st[o] \in Terminal
    BY <1>5, <1>6, <2>1, Statused DEF RecoveryRequired, Statuses, Typed
  <2>3. \A o \in OpsIn(Parent[w]) : works[Parent[w]].st[o] = "settled" => o \in Inherited(w)
    BY <1>4, <1>6 DEF Inherited
  <2>4. works'[Parent[w]] = works[Parent[w]]
    BY <1>1, <1>5, <1>6, <2>1
  <2>5. OpsIn(Parent[w])' = OpsIn(Parent[w]) /\ Saved(Parent[w])'
    BY <1>2, <1>5, <1>6, <2>1
  <2>6. QED
    BY <1>1, <1>6, <2>2, <2>3, <2>4, <2>5
<1>7. CASE c # w
  <2>1. Begun(c)
    BY <1>2, <1>3, <1>4, <1>7 DEF Begun
  <2>2. Saved(Parent[c]) /\ Parent[c] # w
    BY <1>1, <1>4, <2>1 DEF Inheriting
  <2>3. works'[Parent[c]] = works[Parent[c]] /\ works'[c] = works[c]
    BY <1>1, <1>5, <1>7, <2>2
  <2>4. OpsIn(Parent[c])' = OpsIn(Parent[c]) /\ OpsIn(c)' = OpsIn(c) /\ Saved(Parent[c])'
    BY <1>2, <1>5, <1>7, <2>2
  <2>5. ASSUME NEW o \in OpsIn(Parent[c])
        PROVE  /\ works[Parent[c]].st[o] \in Terminal
               /\ works[Parent[c]].st[o] = "settled" =>
                   \/ o \in OpsIn(c) /\ works[c].st[o] = "settled"
                   \/ Plan[o].mem \in forgetting
    BY <1>4, <2>1 DEF Inheriting
  <2>6. QED
    BY <2>3, <2>4, <2>5
<1>8. QED
  BY <1>6, <1>7

LEMMA SavedInheriting ==
    ASSUME Typed, Inheriting, NEW w \in Works, NEW o \in OpsIn(w), NEW s \in Statuses, SaveOp(w, o, s),
           works[w].st[o] \notin Terminal, UNCHANGED forgetting,
           hold' = Free \/ hold'.op # "commit" \/ hold'.on = w
    PROVE  Inheriting'
<1>1. /\ \A v \in Works : OpsIn(v)' = OpsIn(v)
      /\ \A v \in Works : \A p \in OpsIn(v) :
            works'[v].st[p] = IF v = w /\ p = o THEN s ELSE works[v].st[p]
  BY SaveOpEffect DEF Typed
<1>2. Saved(w) /\ Saved(w)'
  BY <1>1, SavedWith
<1>3. \A v \in Works : Saved(v)' <=> Saved(v)
  BY <1>2 DEF Saved, SaveOp
<1>4. \A c \in Works : Begun(c)' => Begun(c)
  BY <1>2, <1>3 DEF Begun, Free
<1>5. \A c \in Works : Parent[c] # Absent => Parent[c] \in Works
  BY OrderAssumption
<1>6. "settled" \in Terminal
  BY DEF Terminal
<1>7. QED
  BY <1>1, <1>3, <1>4, <1>5, <1>6, InheritingKept

LEMMA CommittedInheriting == Typed /\ Receipted /\ Inheriting /\ Committed => Inheriting'
<1> SUFFICES ASSUME Typed, Receipted, Inheriting, Committed PROVE Inheriting'
  OBVIOUS
<1>0. UNCHANGED forgetting
  BY DEF Committed
<1>1. ASSUME NEW w \in Works, Resume(w) \/ Refuse(w) PROVE Inheriting'
  <2>1. UNCHANGED works /\ hold.on = w
    BY <1>1 DEF Resume, Refuse, commit
  <2>2. hold' = Free \/ (Saved(w) /\ hold'.on = w)
    <3>1. hold' = Free \/ (Saved(w) /\
            hold' = [op |-> hold.op, on |-> hold.on, at |-> "ops", item |-> hold.item])
      BY <1>1, Turns DEF Resume, Refuse, Release, Typed
    <3>2. QED
      BY <2>1, <3>1
  <2>3. \A c \in Works : Begun(c)' => Begun(c)
    BY <2>1, <2>2 DEF Begun, Saved, Free
  <2>4. QED
    BY <1>0, <2>1, <2>3, InheritingStill
<1>2. ASSUME NEW w \in Works, SettleReceipt(w) PROVE Inheriting'
  <2>1. \A v \in Works : OpsIn(v)' = OpsIn(v) /\ works'[v].st = works[v].st
    BY <1>2, SettleReceiptEffect DEF Typed
  <2>2. Begun(w) /\ hold' = Free
    BY <1>2 DEF SettleReceipt, AtWork, Holding, Begun, Release
  <2>3. \A v \in Works : v # w => works'[v] = works[v]
    BY <1>2 DEF SettleReceipt, Typed, CommitTyped
  <2>4. Saved(w)'
    <3>1. works'[w].settled = TRUE
      BY <1>2 DEF SettleReceipt, Typed, CommitTyped, Receipt
    <3>2. QED
      BY <3>1 DEF Saved, NoWork
  <2>5. \A c \in Works : Begun(c)' => Begun(c)
    BY <2>2, <2>3 DEF Begun, Saved, Free
  <2>6. \A v \in Works : Saved(v) => Saved(v)'
    BY <2>3, <2>4 DEF Saved
  <2>7. \A c \in Works : Parent[c] # Absent => Parent[c] \in Works
    BY OrderAssumption
  <2>8. QED
    BY <1>0, <2>1, <2>5, <2>6, <2>7, InheritingKept
<1>3. ASSUME NEW w \in Works, NEW o \in OpsIn(w),
             \/ Register(w, o) \/ SettleOp(w, o) \/ Block(w, o) \/ SettleRead(w, o)
             \/ ArchiveBase(w, o) \/ WriteHead(w, o) \/ Acknowledge(w, o)
      PROVE  Inheriting'
  <2>1. /\ hold.op = "commit" /\ hold.on = w /\ hold.at \in {"ops", "write", "wrote"}
    BY <1>3 DEF Register, SettleOp, Block, SettleRead, ArchiveBase, WriteHead, Acknowledge, Pending,
                AtWork, Holding
  <2>2. hold' = Free \/ hold'.on = w
    <3>1. CommitFrame
      BY CommitFramed
    <3>2. QED
      BY <2>1, <3>1 DEF CommitFrame
  <2>3. CASE UNCHANGED works
    <3>1. \A c \in Works : Begun(c)' => Begun(c)
      BY <2>1, <2>2, <2>3 DEF Begun, Saved, Free
    <3>2. QED
      BY <1>0, <2>3, <3>1, InheritingStill
  <2>4. CASE ~UNCHANGED works
    <3>1. \E s \in Statuses : SaveOp(w, o, s)
      BY <1>3, <2>4 DEF Register, SettleOp, Block, SettleRead, ArchiveBase, WriteHead, Acknowledge, commit,
                  Statuses, Terminal
    <3>2. works[w].st[o] \notin Terminal
      <4>1. CASE SettleOp(w, o) \/ Block(w, o) \/ SettleRead(w, o)
        BY <4>1 DEF SettleOp, Block, SettleRead, Pending, Next1, Todo
      <4>2. CASE WriteHead(w, o) \/ Acknowledge(w, o)
        BY <2>1, <4>2 DEF WriteHead, Acknowledge, AtWork, Holding, Receipted, AtFile, Terminal
      <4>3. QED
        BY <1>3, <2>4, <4>1, <4>2 DEF Register, ArchiveBase, commit
    <3>3. QED
      BY <1>0, <2>2, <3>1, <3>2, SavedInheriting
  <2>5. QED
    BY <2>3, <2>4
<1>4. QED
  BY <1>0, <1>1, <1>2, <1>3, ApplyInheriting DEF Committed, Committing

LEMMA DeletedInheriting == Typed /\ Cleared /\ Inheriting /\ Deleted => Inheriting'
<1> SUFFICES ASSUME Typed, Cleared, Inheriting, Deleted PROVE Inheriting'
  OBVIOUS
<1>1. PICK m \in Mems : Forgetting(m)
  BY DEF Deleted
<1>2. UNCHANGED works /\ hold.op = "forget" /\ hold.on = m /\ (hold' = Free \/ hold'.op = "forget")
  <2>1. UNCHANGED works /\ hold.op = "forget" /\ hold.on = m
    BY <1>1 DEF Forgetting, BeginForget, NothingToForget, PendingCancelled, DeleteHistory, DeleteHead,
       Holding, commit
  <2>2. QED
    BY <2>1, DeletedInside DEF Inside
<1>3. \A c \in Works : Begun(c)' => Begun(c)
  BY <1>2, NotBegun
<1>4. \A v \in Works : (Saved(v) => Saved(v)') /\ OpsIn(v)' = OpsIn(v)
  BY <1>2 DEF Saved, OpsIn
<1>5. ASSUME NEW w \in Works, NEW o \in OpsIn(w), works[w].st[o] = "settled", Plan[o].mem \in forgetting
      PROVE  Plan[o].mem \in forgetting'
  <2>1. CASE DeleteHead(m)
    <3>1. forgetting' = forgetting \ {m} /\ hold.at = "history"
      BY <2>1 DEF DeleteHead, Holding
    <3>2. Plan[o].mem # m
      BY <1>2, <1>5, <3>1 DEF Cleared, Deleting
    <3>3. QED
      BY <1>5, <3>1, <3>2
  <2>2. CASE ~DeleteHead(m)
    BY <1>1, <1>5, <2>2 DEF Forgetting, BeginForget, NothingToForget, PendingCancelled, DeleteHistory, ghosts
  <2>3. QED
    BY <2>1, <2>2
<1>6. forgetting' \cup {m} = forgetting \cup {m}
  BY <1>1 DEF Forgetting, BeginForget, NothingToForget, PendingCancelled, DeleteHistory, DeleteHead, ghosts
<1>7. \A c \in Works : \A o \in OpsIn(c) :
         works[c].st[o] = "settled" => works'[c].st[o] = "settled" \/ Plan[o].mem \in forgetting'
  BY <1>2
<1>8. QED
  BY <1>2, <1>3, <1>4, <1>5, <1>7, InheritingKept

LEMMA NextInheriting == Typed /\ Transacted /\ Receipted /\ Cleared /\ Inheriting /\ [Next]_vars => Inheriting'
<1> SUFFICES ASSUME Typed, Transacted, Receipted, Cleared, Inheriting, [Next]_vars PROVE Inheriting'
  OBVIOUS
<1>1. CASE UNCHANGED vars
  BY <1>1, InheritingStill DEF vars, files, commit, ghosts, Begun, Saved
<1>2. CASE EnterSection
  BY <1>2, NotBegun, InheritingStill DEF EnterSection, Enter, commit, ghosts
<1>3. CASE Recovered
  <2>1. UNCHANGED << works, forgetting >>
    BY <1>3, RecoverySteps DEF commit, ghosts
  <2>2. hold' = Free \/ hold'.at \notin {"ops", "write", "wrote"}
    BY <1>3, RecoverySteps DEF Nothing, Complete, RollBack, Restore, Restored, Unarchive, Unarchived, Unjournal
  <2>3. QED
    BY <2>1, <2>2, NotBegun, InheritingStill
<1>4. CASE Mutated
  <2>1. UNCHANGED << works, forgetting >>
    BY <1>4 DEF Mutated, Kept, commit
  <2>2. hold' = Free \/ hold'.op # "commit"
    <3>1. hold.op # "commit"
      BY <1>4, MutatedCases DEF UpdateStep, RetractStep, RefuseUpdate, ReplayUpdate, PlanUpdate,
         ArchiveForUpdate, WriteUpdate, SettleUpdate, VoidRetraction, EndRetraction, PlanRetraction,
         ArchiveForRetraction, WriteRetraction, SettleRetraction, CancelRetraction, CancelUpdate, At, Holding
    <3>2. QED
      BY <1>4, <3>1, MutatedInside DEF Inside
  <2>3. QED
    BY <2>1, <2>2, NotBegun, InheritingStill
<1>5. CASE Compacted
  <2>1. UNCHANGED << works, forgetting >>
    BY <1>5 DEF Compacted, commit
  <2>2. hold' = Free \/ hold'.op # "commit"
    <3>1. Stage => hold' = [op |-> hold.op, on |-> staged', at |-> "staged", item |-> hold.item]
      BY Turns DEF Stage, Typed
    <3>2. CASE Snapshot \/ Stage \/ Decline
      BY <3>1, <3>2 DEF Snapshot, Stage, Decline, Holding, Release
    <3>3. CASE Transaction
      BY <3>3, TransactionMoves
    <3>4. QED
      BY <1>5, <3>2, <3>3 DEF Compacted
  <2>3. QED
    BY <2>1, <2>2, NotBegun, InheritingStill
<1>6. CASE Outside
  <2>1. UNCHANGED << works, forgetting >> /\ (hold' = hold \/ hold' = Free)
    BY <1>6 DEF Outside, Edit, Ask, files, Revise, CleanUp, NewScope, UnchangedFiles, Stop, Release, commit, ghosts
  <2>2. \A c \in Works : Begun(c)' => Begun(c)
    BY <2>1 DEF Begun, Saved, Free
  <2>3. QED
    BY <2>1, <2>2, InheritingStill
<1>7. CASE Service
  BY <1>3, <1>4, <1>5, <1>7, ServiceCases, ReconciledInheriting, CommittedInheriting,
     CancelledWorkInheriting, DeletedInheriting
<1>8. QED
  BY <1>1, <1>2, <1>6, <1>7 DEF Next

LEMMA InitInheriting == Init => Inheriting
BY DEF Init, InitFiles, InitCommit, Inheriting, Begun, Saved, Free

-----------------------------------------------------------------------------
(* What was written over is kept. *)

\* Nothing is written over.
LEMMA OriginalStill ==
    ASSUME OriginalKept, UNCHANGED << head, had >>, archive \subseteq archive',
           touched \subseteq touched', forgetting \subseteq forgetting',
           \A s \in staged : journal.phase # "none" => s \in staged' /\ journal'.phase # "none"
    PROVE  OriginalKept'
BY DEF OriginalKept, InHistory

\* One text is, and it is in the history or staged.
LEMMA OriginalReplaced ==
    ASSUME Typed, OriginalKept, Recall, NEW m \in Mems, NEW r, Replace(m, r),
           UNCHANGED << archive, touched, forgetting, staged, journal >>,
           head[m] # Absent =>
               InHistory(m, head[m]) \/ (<< m, head[m] >> \in staged /\ journal.phase # "none")
    PROVE  OriginalKept'
<1>1. \A n \in Mems : n # m => head'[n] = head[n]
  BY DEF Replace, Typed, FilesTyped
<1>2. Absent \notin Known
  BY Marked DEF Known, Typed, FilesTyped
<1>3. \A pair \in had' : pair \in had \/ (pair = << m, head[m] >> /\ head[m] # Absent)
  BY <1>1 DEF Recall
<1>4. \A pair \in had : pair[1] \in Mems /\ pair[2] # Absent /\ pair = << pair[1], pair[2] >>
  BY <1>2 DEF Typed, GhostsTyped
<1>5. ASSUME NEW pair \in had'
      PROVE  \/ InHistory(pair[1], pair[2]) \/ head'[pair[1]] = pair[2]
             \/ pair \in staged /\ journal.phase # "none"
             \/ pair[1] \in touched \cup forgetting
  <2>1. CASE pair = << m, head[m] >> /\ head[m] # Absent
    BY <2>1
  <2>2. CASE pair \in had /\ pair # << m, head[m] >>
    <3>1. head[pair[1]] = pair[2] => head'[pair[1]] = pair[2]
      BY <1>1, <1>4, <2>2
    <3>2. QED
      BY <2>2, <3>1 DEF OriginalKept
  <2>3. QED
    BY <1>3, <1>4, <2>1, <2>2
<1>6. QED
  BY <1>5 DEF OriginalKept, InHistory

LEMMA RecoveredOriginal == Typed /\ Transacted /\ OriginalKept /\ Recovered => OriginalKept'
<1> SUFFICES ASSUME Typed, Transacted, OriginalKept, Recovered PROVE OriginalKept'
  OBVIOUS
<1>1. UNCHANGED << touched, had, forgetting >>
  BY RecoverySteps DEF ghosts
<1>2. \A pair \in had : pair[1] \in Mems /\ pair[2] \in Known /\ pair = << pair[1], pair[2] >>
  BY DEF Typed, GhostsTyped
<1>3. CASE Nothing \/ RollBack \/ Restored
  BY <1>1, <1>3, OriginalStill DEF Nothing, RollBack, Restored, compaction
<1>4. CASE Complete
  <2>1. UNCHANGED << head, archive, staged >> /\ journal.phase = "committed"
    BY <1>4 DEF Complete, Unjournal
  <2>2. \A pair \in had : pair \in staged => InHistory(pair[1], pair[2])
    BY <2>1 DEF Transacted, Journalled, InHand, InHistory
  <2>3. QED
    BY <1>1, <2>1, <2>2 DEF OriginalKept, InHistory
<1>5. CASE Restore
  <2>1. UNCHANGED << archive, staged, journal >>
    BY <1>5 DEF Restore, compaction
  <2>2. PICK n \in Sources : Ours(n) /\ head' = [head EXCEPT ![n] = SourceOf(n)]
    BY <1>5 DEF Restore
  <2>3. PICK s \in staged : s[1] = n
    BY <1>5, <2>2 DEF Restore, Transacted, Phased, Journalled, Sources
  <2>4. << n, Short(n) >> \notin had /\ n \in Mems
    BY <2>3 DEF Transacted, Shadowed, Typed, CompactionTyped
  <2>5. Absent \notin Known
    BY Marked DEF Known, Typed, FilesTyped
  <2>6. ASSUME NEW pair \in had PROVE head[pair[1]] = pair[2] => head'[pair[1]] = pair[2]
    <3>1. CASE pair[1] = n
      BY <1>2, <2>2, <2>4, <2>5, <3>1 DEF Ours
    <3>2. CASE pair[1] # n
      BY <1>2, <2>2, <3>2 DEF Typed, FilesTyped
    <3>3. QED
      BY <3>1, <3>2
  <2>7. QED
    BY <1>1, <2>1, <2>6 DEF OriginalKept, InHistory
<1>6. CASE Unarchive
  <2>1. UNCHANGED << head, staged, journal >> /\ hold.at = "unarchive"
    BY <1>6 DEF Unarchive, compaction
  <2>2. PICK entry \in Entries : archive' = archive \ {entry}
    BY <1>6 DEF Unarchive
  <2>3. journal.phase # "none" /\ journal.of = staged
    BY <2>1 DEF Transacted, Phased, Journalled
  <2>4. PICK s \in staged : entry = << s[1], s[2], "compactor" >>
    BY <2>2, <2>3 DEF Entries
  <2>5. s = << s[1], s[2] >>
    BY DEF Typed, CompactionTyped
  <2>6. ASSUME NEW pair \in had, InHistory(pair[1], pair[2]), ~InHistory(pair[1], pair[2])'
        PROVE  pair \in staged
    <3>1. << pair[1], pair[2], "compactor" >> = entry
      BY <2>2, <2>4, <2>6 DEF InHistory
    <3>2. QED
      BY <1>2, <2>4, <2>5, <3>1
  <2>7. QED
    BY <1>1, <2>1, <2>3, <2>6 DEF OriginalKept
<1>7. CASE Unarchived
  <2>1. UNCHANGED << head, archive, staged >> /\ hold.at = "unarchive"
    BY <1>7 DEF Unarchived, Unjournal
  <2>2. \A s \in staged : head[s[1]] = s[2] \/ s[1] \in touched
    BY <2>1 DEF Transacted, Shadowed
  <2>3. QED
    BY <1>1, <2>1, <2>2 DEF OriginalKept, InHistory
<1>8. QED
  BY <1>3, <1>4, <1>5, <1>6, <1>7 DEF Recovered, Recovery

LEMMA CommittedOriginal == Typed /\ Receipted /\ OriginalKept /\ Committed => OriginalKept'
<1> SUFFICES ASSUME Typed, Receipted, OriginalKept, Committed PROVE OriginalKept'
  OBVIOUS
<1>1. CommitFrame /\ Recall
  BY CommitFramed DEF Committed
<1>2. UNCHANGED << touched, forgetting, staged, journal >>
  BY <1>1 DEF CommitFrame, trace, compaction
<1>3. CASE UNCHANGED << head, written >>
  <2>1. archive \subseteq archive'
    BY <1>1 DEF CommitFrame, ArchiveBase, Archived
  <2>2. had' = had
    BY <1>1, <1>3, RecallNone
  <2>3. QED
    BY <1>2, <1>3, <2>1, <2>2, OriginalStill
<1>4. CASE \E w \in Works : \E o \in OpsIn(w) : WriteHead(w, o) /\ ~stale /\ Replace(Plan[o].mem, o)
  <2>0. PICK w \in Works : \E o \in OpsIn(w) : WriteHead(w, o) /\ ~stale /\ Replace(Plan[o].mem, o)
    BY <1>4
  <2>1. PICK o \in OpsIn(w) : WriteHead(w, o) /\ ~stale /\ Replace(Plan[o].mem, o)
    BY <2>0
  <2>2. hold.op = "commit" /\ hold.at = "write" /\ hold.on = w /\ hold.item = o /\ UNCHANGED archive
    BY <2>1 DEF WriteHead, AtWork, Holding
  <2>3. Writes(o) /\ Plan[o].mem \in Mems
    BY <2>2, Statused, MemoryOf DEF Receipted, AtFile, Typed
  <2>4. head[Plan[o].mem] # Absent => InHistory(Plan[o].mem, head[Plan[o].mem])
    BY <2>1, <2>2, <2>3 DEF Receipted, AtFile, Writes, InHistory
  <2>5. QED
    BY <1>1, <1>2, <2>1, <2>2, <2>3, <2>4, OriginalReplaced
<1>5. QED
  BY <1>1, <1>3, <1>4 DEF CommitFrame

LEMMA MutatedOriginal == Typed /\ Cleared /\ OriginalKept /\ Mutated => OriginalKept'
<1> SUFFICES ASSUME Typed, Cleared, OriginalKept, Mutated PROVE OriginalKept'
  OBVIOUS
<1>1. Recall /\ UNCHANGED << forgetting, staged, journal >>
  BY DEF Mutated, Kept, compaction
<1>2. UNCHANGED touched /\ archive \subseteq archive'
  BY MutatedCases DEF UpdateStep, RetractStep, RefuseUpdate, ReplayUpdate, PlanUpdate, ArchiveForUpdate,
     WriteUpdate, SettleUpdate, VoidRetraction, EndRetraction, PlanRetraction, ArchiveForRetraction,
     WriteRetraction, SettleRetraction, CancelRetraction, CancelUpdate, trace, Archived
<1>3. CASE UNCHANGED head
  BY <1>1, <1>2, <1>3, RecallNone, OriginalStill
<1>4. CASE \E q \in Updates : WriteUpdate(q) /\ ~UNCHANGED head
  <2>1. PICK q \in Updates : WriteUpdate(q) /\ Replace(Wants[q], q) /\ ~stale
    BY <1>4 DEF WriteUpdate
  <2>2. hold.op = "update" /\ hold.at = "write" /\ hold.on = q /\ UNCHANGED archive
    BY <2>1 DEF WriteUpdate, At, Holding
  <2>3. InHistory(Wants[q], head[Wants[q]]) /\ Wants[q] \in Mems
    BY <2>1, <2>2, RequestsAssumption DEF Cleared, Requested, InHistory
  <2>4. QED
    BY <1>1, <1>2, <2>1, <2>2, <2>3, OriginalReplaced
<1>5. CASE \E q \in Retractions : WriteRetraction(q) /\ ~UNCHANGED head
  <2>1. PICK q \in Retractions :
            /\ WriteRetraction(q) /\ head[Wants[q]] = ret[Wants[q]].base
            /\ Replace(Wants[q], ret[Wants[q]].req)
    BY <1>5 DEF WriteRetraction
  <2>2. hold.op = "retract" /\ hold.at = "write" /\ hold.on = q /\ UNCHANGED archive
    BY <2>1 DEF WriteRetraction, At, Holding
  <2>3. InHistory(Wants[q], head[Wants[q]]) /\ Wants[q] \in Mems
    BY <2>1, <2>2, RequestsAssumption DEF Cleared, Requested, InHistory
  <2>4. QED
    BY <1>1, <1>2, <2>1, <2>2, <2>3, OriginalReplaced
<1>6. QED
  BY <1>3, <1>4, <1>5, MutatedCases DEF UpdateStep, RetractStep, RefuseUpdate, ReplayUpdate, PlanUpdate,
     ArchiveForUpdate, SettleUpdate, VoidRetraction, EndRetraction, PlanRetraction,
     ArchiveForRetraction, SettleRetraction, CancelRetraction, CancelUpdate

LEMMA CompactedOriginal == Typed /\ Transacted /\ OriginalKept /\ Compacted => OriginalKept'
<1> SUFFICES ASSUME Typed, Transacted, OriginalKept, Compacted PROVE OriginalKept'
  OBVIOUS
<1>1. Recall /\ UNCHANGED forgetting
  BY DEF Compacted
<1>2. \A pair \in had : pair[1] \in Mems /\ pair[2] \in Known /\ pair = << pair[1], pair[2] >>
  BY DEF Typed, GhostsTyped
<1>3. CASE Snapshot \/ Stage \/ Decline
  <2>1. UNCHANGED << head, archive, touched, journal >> /\ journal.phase = "none"
    BY <1>3, NothingOpen DEF Snapshot, Stage, Decline, trace
  <2>2. QED
    BY <1>1, <2>1, RecallNone, OriginalStill
<1>4. CASE Transaction
  <2>1. /\ Working /\ hold.on = staged /\ journal.phase = PhaseAt[hold.at]
    BY <1>4, TransactionMoves DEF Transacted, Phased, Typed, Held
  <2>2. UNCHANGED touched
    BY <1>4 DEF Transaction, Mark, ArchiveSources, Shorten, Disturbed, Shortened, Unjournal, Unstage, Caught,
           trace
  <2>3. ASSUME NEW at, NEW phase, NEW next, Mark(at, phase, next), phase # "none"
        PROVE  OriginalKept'
    BY <1>1, <2>2, <2>3, RecallNone, OriginalStill DEF Mark
  <2>4. CASE ArchiveSources \/ Disturbed \/ Caught
    BY <1>1, <2>2, <2>4, RecallNone, OriginalStill DEF ArchiveSources, Disturbed, Caught, compaction
  <2>5. CASE Shortened
    <3>1. journal'.phase = "replacements"
      BY <2>5 DEF Shortened, Typed, CompactionTyped
    <3>2. QED
      BY <1>1, <2>2, <2>5, <3>1, RecallNone, OriginalStill DEF Shortened
  <2>6. CASE Unstage
    <3>1. journal.phase = "none"
      BY <2>1, <2>6 DEF Unstage, PhaseAt
    <3>2. QED
      BY <1>1, <2>2, <2>6, <3>1, RecallNone, OriginalStill DEF Unstage
  <2>7. CASE Unjournal("committed", "clear")
    <3>1. journal.phase = "committed" /\ UNCHANGED << head, archive, staged >>
      BY <2>1, <2>7 DEF Unjournal, PhaseAt
    <3>2. \A pair \in had : pair \in staged => InHistory(pair[1], pair[2])
      BY <3>1 DEF Transacted, Journalled, InHand, InHistory
    <3>3. had' = had
      BY <1>1, <3>1, RecallNone
    <3>4. QED
      BY <1>1, <2>2, <3>1, <3>2, <3>3 DEF OriginalKept, InHistory
  <2>8. CASE Shorten
    <3>1. PICK s \in staged : head[s[1]] = s[2] /\ Replace(s[1], Short(s[1]))
      BY <2>1, <2>8 DEF Shorten
    <3>2. journal.phase = "histories" /\ UNCHANGED << archive, staged, journal >>
      BY <2>1, <2>8 DEF Shorten, Holding, PhaseAt, compaction
    <3>3. s[1] \in Mems /\ s = << s[1], s[2] >>
      BY DEF Typed, CompactionTyped
    <3>4. << s[1], head[s[1]] >> \in staged
      BY <3>1, <3>3
    <3>5. QED
      BY <1>1, <2>2, <3>1, <3>2, <3>3, <3>4, OriginalReplaced
  <2>9. QED
    BY <1>4, <2>3, <2>4, <2>5, <2>6, <2>7, <2>8 DEF Transaction
<1>5. QED
  BY <1>3, <1>4 DEF Compacted

LEMMA DeletedOriginal == Typed /\ Cleared /\ OriginalKept /\ Deleted => OriginalKept'
<1> SUFFICES ASSUME Typed, Cleared, OriginalKept, NEW m \in Mems, Forgetting(m), UNCHANGED compaction
             PROVE  OriginalKept'
  BY DEF Deleted
<1>1. UNCHANGED << touched, staged, journal >>
  BY DEF Forgetting, BeginForget, NothingToForget, PendingCancelled, DeleteHistory, DeleteHead, trace, compaction
<1>2. CASE BeginForget(m) \/ NothingToForget(m) \/ PendingCancelled(m)
  BY <1>1, <1>2, OriginalStill DEF BeginForget, NothingToForget, PendingCancelled, ghosts
<1>3. CASE DeleteHistory(m)
  <2>1. hold.op = "forget" /\ hold.at = "history" /\ hold.on = m /\ UNCHANGED << head, had, forgetting >>
    BY <1>3 DEF DeleteHistory, Holding, ghosts
  <2>2. m \in forgetting
    BY <2>1 DEF Cleared, Deleting
  <2>3. PICK entry \in HistoryOf(m) : archive' = archive \ {entry}
    BY <1>3 DEF DeleteHistory
  <2>4. \A n, r : n # m /\ InHistory(n, r) => InHistory(n, r)'
    BY <2>3 DEF InHistory, HistoryOf
  <2>5. QED
    BY <1>1, <2>1, <2>2, <2>4 DEF OriginalKept
<1>4. CASE DeleteHead(m)
  <2>1. UNCHANGED archive /\ had' = {pair \in had : pair[1] # m} /\ forgetting' = forgetting \ {m}
    BY <1>4 DEF DeleteHead
  <2>2. \A n \in Mems : n # m => head'[n] = head[n]
    BY <1>4 DEF DeleteHead, Typed, FilesTyped
  <2>3. \A pair \in had : pair[1] \in Mems
    BY DEF Typed, GhostsTyped
  <2>4. QED
    BY <1>1, <2>1, <2>2, <2>3 DEF OriginalKept, InHistory
<1>5. QED
  BY <1>2, <1>3, <1>4 DEF Forgetting

LEMMA NextOriginal == Typed /\ Transacted /\ Receipted /\ Cleared /\ OriginalKept /\ [Next]_vars => OriginalKept'
<1> SUFFICES ASSUME Typed, Transacted, Receipted, Cleared, OriginalKept, [Next]_vars PROVE OriginalKept'
  OBVIOUS
<1>1. CASE UNCHANGED vars \/ EnterSection
  BY <1>1, OriginalStill DEF vars, files, compaction, ghosts, EnterSection, trace
<1>2. CASE Reconciled
  BY <1>2, OriginalStill DEF Reconciled, Reconcile, UnchangedFiles, trace, compaction, ghosts
<1>3. CASE CancelledWork
  <2>1. UNCHANGED << head, archive, touched, staged, journal, forgetting >> /\ Recall
    BY <1>3 DEF CancelledWork, CancelWork, UnchangedFiles, trace, compaction
  <2>2. QED
    BY <2>1, RecallNone, OriginalStill
<1>4. CASE Outside
  <2>1. ASSUME NEW m \in Mems, Edit(m), UNCHANGED << compaction, ghosts >> PROVE OriginalKept'
    <3>1. UNCHANGED << archive, staged, journal, had, forgetting >> /\ touched' = touched \cup {m}
      BY <2>1 DEF Edit, compaction, ghosts
    <3>2. \A n \in Mems : n # m => head'[n] = head[n]
      BY <2>1 DEF Edit, Typed, FilesTyped
    <3>3. \A pair \in had : pair[1] \in Mems
      BY DEF Typed, GhostsTyped
    <3>4. QED
      BY <3>1, <3>2, <3>3 DEF OriginalKept, InHistory
  <2>2. CASE ~\E m \in Mems : Edit(m)
    <3>1. UNCHANGED << head, archive, touched, compaction, ghosts >>
      BY <1>4, <2>2 DEF Outside, Ask, files, Revise, CleanUp, NewScope, UnchangedFiles, Stop, trace
    <3>2. QED
      BY <3>1, OriginalStill DEF compaction, ghosts
  <2>3. QED
    BY <1>4, <2>1, <2>2 DEF Outside, Edit, Ask, Revise, CleanUp, NewScope, UnchangedFiles, Stop
<1>5. QED
  BY <1>1, <1>2, <1>3, <1>4, ServiceCases, RecoveredOriginal, CommittedOriginal, MutatedOriginal,
     CompactedOriginal, DeletedOriginal DEF Next

-----------------------------------------------------------------------------
(* What the vault keeps. *)

LEMMA Invariant == Spec => []Inv
<1>1. Init => Inv
  <2>1. Init => OriginalKept
    BY DEF Init, OriginalKept
  <2>2. QED
    BY <2>1, InitTyped, InitTransacted, InitReceipted, InitInheriting, InitCleared DEF Inv
<1>2. Inv /\ [Next]_vars => Inv'
  BY NextTyped, NextTransacted, NextReceipted, NextInheriting, NextCleared, NextOriginal DEF Inv
<1>3. QED
  BY <1>1, <1>2, PTL DEF Spec

\* Every file the vault's sections leave, at each write, has a shape that the
\* next reader of it accepts: a compaction journal names each memory once, a
\* receipt knows its operations, a journal of an update or a retraction is of
\* a request for its memory (load_work, _read_journal_unlocked, _load).
THEOREM TypesHold == Spec => []TypeOK
<1>1. ASSUME Inv PROVE TypeOK
  <2>1. FilesType
    BY <1>1 DEF Inv, Typed, FilesTyped, Held, FilesType
  <2>2. JournalType
    BY <1>1 DEF Inv, Typed, CompactionTyped, Transacted, Journalled, JournalType
  <2>3. ASSUME NEW w \in Works PROVE WorkType(w)
    BY <1>1 DEF Inv, Typed, CommitTyped, Receipt, Statuses, WorkType, OpsIn
  <2>4. ASSUME NEW m \in Mems PROVE UpdateJournalType(m) /\ RetractionJournalType(m)
    <3>1. Absent \notin Known
      BY <1>1, Marked DEF Inv, Known, Typed, FilesTyped
    <3>2. upd[m] \in Plans(Updates, Known, m) /\ ret[m] \in Plans(Retractions, Known \ Retired, m)
      BY <1>1 DEF Inv, Typed, ExplicitTyped
    <3>3. QED
      BY <3>1, <3>2 DEF Plans, UpdateJournalType, RetractionJournalType
  <2>5. QED
    BY <2>1, <2>2, <2>3, <2>4 DEF TypeOK
<1>2. QED
  BY <1>1, Invariant, PTL

\* However a commit is interrupted and whoever else works in between, its
\* receipt says of each write what happened to the file: none that reached the
\* head is reported blocked unless a person edited the memory, and none is
\* reported written that was not (_resume_unlocked, reconcile_applied_unlocked).
THEOREM ReceiptsTrue == Spec => []ReceiptsAreTrue
<1>1. Inv => ReceiptsAreTrue
  BY DEF Inv, Receipted
<1>2. QED
  BY <1>1, Invariant, PTL

\* A memory merged into another is retired only after the survivor holds the
\* merged text, over crashes, blocked peers and Forget (bind_merges, merged_into).
THEOREM SurvivorsWritten == Spec => []SurvivorFirst
<1>1. Inv => SurvivorFirst
  BY DEF Inv, Receipted
<1>2. QED
  BY <1>1, Invariant, PTL

\* After Forget has returned, nothing that any other section left pending for
\* the memory brings it back: no open operation, journal or staged copy is
\* there, and only a person makes the file again (forget_records_unlocked).
THEOREM ForgottenForGood == Spec => []ForgottenStaysForgotten
<1>1. Inv => ForgottenStaysForgotten
  BY DEF Inv, Cleared
<1>2. QED
  BY <1>1, Invariant, PTL

\* What the program wrote over is in the history, current again, or staged by
\* an unfinished compaction, wherever a section stops; a person's edits and an
\* unfinished Forget are excused (_write_history, _rollback_pending_unlocked).
THEOREM OriginalsKept == Spec => []OriginalKept
<1>1. Inv => OriginalKept
  BY DEF Inv
<1>2. QED
  BY <1>1, Invariant, PTL

\* The receipt that completes another one repeats its settled decisions, so
\* that their turn can be cleaned up; only an interrupted Forget may separate
\* them (cumulative_result, resolved_parent_ids).
THEOREM ParentsAgree == Spec => []ParentAgrees
<1>1. Inv => ParentAgrees
  BY DEF Inv, Inheriting, ParentAgrees, Begun
<1>2. QED
  BY <1>1, Invariant, PTL

\* A compaction ends whole: when its journal goes, either every source is in
\* the history and every shorter text was written, or no shorter text and no
\* archive of the compaction is left (_commit, _rollback_pending_unlocked).
LEMMA EndsWhole ==
    Inv /\ [Next]_vars /\ journal.phase # "none" /\ journal'.phase = "none" =>
        \A s \in journal.of :
            IF journal.phase = "committed"
            THEN << s[1], s[2], "compactor" >> \in archive' /\ Short(s[1]) \in written
            ELSE /\ head'[s[1]] # Short(s[1])
                 /\ head'[s[1]] = Absent => s[1] \in touched
                 /\ << s[1], s[2], "compactor" >> \notin archive'
<1> SUFFICES ASSUME Inv, [Next]_vars, journal.phase # "none", journal'.phase = "none", NEW s \in journal.of
             PROVE  IF journal.phase = "committed"
                    THEN << s[1], s[2], "compactor" >> \in archive' /\ Short(s[1]) \in written
                    ELSE /\ head'[s[1]] # Short(s[1])
                         /\ head'[s[1]] = Absent => s[1] \in touched
                         /\ << s[1], s[2], "compactor" >> \notin archive'
  OBVIOUS
<1>0. Typed /\ Transacted /\ journal.of = staged
  BY DEF Inv, Transacted, Journalled
<1>1. Complete \/ Unarchived \/ (Unjournal("committed", "clear") /\ Working)
  <2>1. ~UNCHANGED compaction
    BY DEF compaction
  <2>2. Recovered \/ Compacted
    BY <2>1, ServiceCases DEF Next, vars, EnterSection, Outside, Reconciled, Committed, CancelledWork,
       Mutated, Kept, Deleted, Edit, Ask, Revise, CleanUp, NewScope, Stop
  <2>3. CASE Recovered
    <3>1. Nothing \/ RollBack \/ Restore \/ Restored \/ Unarchive => UNCHANGED journal
      BY DEF Nothing, RollBack, Restore, Restored, Unarchive, compaction
    <3>2. QED
      BY <2>3, <3>1 DEF Recovered, Recovery
  <2>4. CASE Transaction
    <3>1. Working
      BY <1>0, <2>4, TransactionMoves
    <3>2. Shortened => journal'.phase = "replacements"
      BY <1>0 DEF Shortened, Typed, CompactionTyped
    <3>3. QED
      BY <2>4, <3>1, <3>2 DEF Transaction, Mark, ArchiveSources, Shorten, Disturbed, Unstage, Caught, compaction
  <2>5. CASE Snapshot \/ Stage \/ Decline
    BY <2>5 DEF Snapshot, Stage, Decline
  <2>6. QED
    BY <2>2, <2>3, <2>4, <2>5 DEF Compacted
<1>2. CASE Complete \/ (Unjournal("committed", "clear") /\ Working)
  <2>1. journal.phase = "committed" /\ UNCHANGED archive
    BY <1>0, <1>2 DEF Complete, Unjournal, Transacted, Phased, PhaseAt
  <2>2. InHand(s[1], s[2]) /\ Short(s[1]) \in written
    BY <1>0, <2>1 DEF Transacted, Journalled
  <2>3. QED
    BY <2>1, <2>2 DEF InHand
<1>3. CASE Unarchived
  <2>1. /\ hold.at = "unarchive" /\ archive \cap Entries = {} /\ UNCHANGED << head, archive >>
    BY <1>3 DEF Unarchived, Unjournal
  <2>2. journal.phase # "committed" /\ << s[1], s[2], "compactor" >> \notin archive
    BY <1>0, <2>1 DEF Transacted, Phased, Entries
  <2>3. head[s[1]] # Short(s[1]) /\ (head[s[1]] = s[2] \/ s[1] \in touched)
    BY <1>0, <2>1 DEF Transacted, Shadowed
  <2>4. s[2] # Absent
    BY <1>0, Marked DEF Typed, CompactionTyped, FilesTyped, Known
  <2>5. QED
    BY <2>1, <2>2, <2>3, <2>4
<1>4. QED
  BY <1>1, <1>2, <1>3

\* So every compaction of every execution ends whole, whatever stopped it and
\* whoever recovered it (_commit, _recover_pending_unlocked).
THEOREM CompactionsEndWhole == Spec => WholeOrUndone
<1>1. Inv /\ [Next]_vars =>
        [(journal.phase # "none" /\ journal'.phase = "none") =>
            \A s \in journal.of :
                IF journal.phase = "committed"
                THEN << s[1], s[2], "compactor" >> \in archive' /\ Short(s[1]) \in written
                ELSE /\ head'[s[1]] # Short(s[1])
                     /\ head'[s[1]] = Absent => s[1] \in touched
                     /\ << s[1], s[2], "compactor" >> \notin archive']_journal
  BY EndsWhole
<1>2. QED
  BY <1>1, Invariant, PTL DEF Spec, WholeOrUndone

=============================================================================
