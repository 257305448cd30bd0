---------------------------- MODULE ModelRunsSafety ----------------------------
(* Theorems about ModelRuns, for any number of runs, invocations, processes *)
(* and requests: types, one request at a time, the allowance, outcomes.     *)
EXTENDS ModelRuns, FiniteSetTheorems, TLAPS

-----------------------------------------------------------------------------
(* The types, with attempts as sequences of any length; that they stay      *)
(* within the limit follows from their ordinals, which only ascend.         *)

Attempt == [n: 1..Limit, out: Outcomes]

RunRecord ==
    [st: Statuses, stage: {"none", "review", "reviewed"}, kind: Answers \cup {"none"},
     att: Seq(Attempt), reserved: 0..Limit, round: Rounds,
     mode: {"none", "repair", "replan"}, rescued: BOOLEAN, finalized: BOOLEAN]

\* The last ordinal counts at least the attempts made.
Ascends(k) == k.att # << >> => Len(k.att) <= k.att[Len(k.att)].n

Record(k) == k \in RunRecord /\ Ascends(k)

Entry ==
    [at: Places, run: Runs, model: BOOLEAN, n: 0..Limit, got: Ends \cup {"none"},
     done: BOOLEAN]

CommitType == [Runs -> [Rounds -> Ends \cup {"none", "open", "cut"}]]
BudgetType == [Runs -> [n: 0..Limit, done: BOOLEAN, maint: BOOLEAN]]

Counts == asked \in [Runs -> Nat] /\ tended \in [Runs -> Nat]
Bounds == faults \in 0..MaxFaults /\ kills \in 0..MaxKills /\ lapses \in 0..MaxLapses

RunTyped  == DOMAIN run = Runs /\ \A r \in Runs : Record(run[r])
CallTyped == call \in [Callers -> {Idle} \cup Entry]

Files ==
    /\ owner \in Callers \cup Procs \cup {Nobody}
    /\ commit \in CommitType
    /\ budget \in BudgetType
    /\ moved \in [Runs -> BOOLEAN]

Typed == RunTyped /\ CallTyped /\ Files /\ Counts /\ Bounds

\* An attempt has an ordinal, so there are not more than the limit.
LEMMA RecordIsRun ==
    ASSUME NEW k, Record(k)
    PROVE  IsRun(k)
<1>1. k \in RunRecord /\ Ascends(k) /\ Limit \in Nat
  BY LimitAssumption DEF Record
<1>2. k.att \in Seq(Attempt)
  BY <1>1 DEF RunRecord
<1>3. \A j \in DOMAIN k.att : k.att[j] \in Attempt
  BY <1>2
<1>4. Len(k.att) <= Limit
  <2>1. CASE k.att = << >>
    BY <2>1, <1>1
  <2>2. CASE k.att # << >>
    <3>1. Len(k.att) \in DOMAIN k.att
      BY <2>2, <1>2
    <3>2. k.att[Len(k.att)].n \in 1..Limit
      BY <3>1, <1>3 DEF Attempt
    <3>3. QED
      BY <3>2, <2>2, <1>1, <1>2 DEF Ascends
  <2>3. QED
    BY <2>1, <2>2
<1>5. << >> \in BoundedSeq(Attempt, Limit)
  <2>1. << >> \in [1..0 -> Attempt]
    OBVIOUS
  <2>2. 0 \in 0..Limit
    BY <1>1
  <2>3. QED
    BY <2>1, <2>2 DEF BoundedSeq, SeqOf
<1>6. [k EXCEPT !.att = << >>] \in RunType
  BY <1>1, <1>5 DEF RunRecord, RunType, Attempt
<1>7. QED
  BY <1>3, <1>4, <1>6 DEF IsRun, Attempt

LEMMA TypedIsTypeOK == Typed => TypeOK
<1> SUFFICES ASSUME Typed PROVE TypeOK
  OBVIOUS
<1>1. \A r \in Runs : IsRun(run[r])
  BY RecordIsRun DEF Typed, RunTyped
<1>2. call \in [Callers -> CallType]
  BY DEF Typed, CallTyped, CallType, Entry
<1>3. QED
  BY <1>1, <1>2 DEF Typed, RunTyped, Files, Counts, Bounds, CommitType, BudgetType, TypeOK

-----------------------------------------------------------------------------
(* Records keep their type, and their attempts.                             *)

Keeps(k, m) == Record(m) /\ Attempts(m) = Attempts(k)

LEMMA FinishedKeeps ==
    ASSUME NEW k, Record(k), NEW st \in Statuses
    PROVE  Keeps(k, Finished(k, st))
BY DEF Record, RunRecord, Finished, Keeps, Attempts, Ascends

LEMMA OutcomeKeeps ==
    ASSUME NEW k, Record(k), NEW out \in Outcomes
    PROVE  Keeps(k, Outcome(k, out))
<1> DEFINE L == Len(k.att)
           a == [k.att EXCEPT ![L].out = out]
<1>1. k \in RunRecord /\ k.att \in Seq(Attempt) /\ L \in Nat /\ DOMAIN k.att = 1..L
  BY DEF Record, RunRecord
<1>2. \A j \in 1..L : k.att[j] \in Attempt
  BY <1>1
<1>3. \A j \in 1..L : a[j] \in Attempt /\ a[j].n = k.att[j].n
  <2> SUFFICES ASSUME NEW j \in 1..L PROVE a[j] \in Attempt /\ a[j].n = k.att[j].n
    OBVIOUS
  <2>1. CASE j = L
    <3>1. a[j] = [k.att[j] EXCEPT !.out = out]
      BY <2>1, <1>1
    <3>2. QED
      BY <3>1, <1>2 DEF Attempt
  <2>2. CASE j # L
    <3>1. a[j] = k.att[j]
      BY <2>2, <1>1
    <3>2. QED
      BY <3>1, <1>2
  <2>3. QED
    BY <2>1, <2>2
<1>4. a \in [1..L -> Attempt]
  <2>1. DOMAIN a = 1..L /\ a = [j \in 1..L |-> a[j]]
    BY <1>1
  <2>2. QED
    BY <2>1, <1>3
<1>5. a \in Seq(Attempt) /\ Len(a) = L
  <2>1. a \in Seq(Attempt)
    BY <1>4, <1>1
  <2>2. DOMAIN a = 1..Len(a) /\ Len(a) \in Nat
    BY <2>1
  <2>3. DOMAIN a = 1..L
    BY <1>4
  <2>4. QED
    BY <2>1, <2>2, <2>3, <1>1
<1>6. Outcome(k, out) = [k EXCEPT !.att = a]
  BY <1>1 DEF Outcome, Attempts, RunRecord
<1> HIDE DEF a
<1>7. Outcome(k, out) \in RunRecord /\ Outcome(k, out).att = a
  BY <1>1, <1>5, <1>6 DEF RunRecord
<1>8. Ascends(Outcome(k, out))
  <2>1. CASE L = 0
    BY <2>1, <1>5, <1>7 DEF Ascends
  <2>2. CASE L # 0
    <3>1. L \in 1..L /\ k.att # << >>
      BY <2>2, <1>1
    <3>2. QED
      BY <3>1, <1>3, <1>5, <1>7 DEF Ascends, Record
  <2>3. QED
    BY <2>1, <2>2
<1>9. QED
  BY <1>5, <1>7, <1>8 DEF Keeps, Record, Attempts

LEMMA KeepsAll ==
    ASSUME NEW k, NEW m, NEW p, Keeps(k, m), Keeps(m, p)
    PROVE  Keeps(k, p)
BY DEF Keeps

\* The plain fields of a receipt.
FieldsOf(k) ==
    [st: Statuses, stage: {"none", "review", "reviewed"}, kind: Answers \cup {"none"},
     att: {k.att}, reserved: 0..Limit, round: Rounds, mode: {"none", "repair", "replan"},
     rescued: BOOLEAN, finalized: BOOLEAN]

LEMMA FieldsKeep ==
    ASSUME NEW k, Record(k), NEW m,
           m \in FieldsOf(k)
    PROVE  Keeps(k, m)
<1>1. m.att = k.att /\ k.att \in Seq(Attempt)
  BY DEF Record, RunRecord, FieldsOf
<1>2. m \in RunRecord
  BY <1>1 DEF RunRecord, FieldsOf
<1>3. QED
  BY <1>1, <1>2 DEF Keeps, Record, Ascends, Attempts
-----------------------------------------------------------------------------
(* Where an invocation is. *)

LEMMA InPlace ==
    ASSUME Typed, NEW d \in Callers, call[d].at # "idle"
    PROVE  /\ call[d] \in Entry
           /\ call[d].run \in Runs /\ call[d].n \in 0..Limit /\ call[d].at \in Places
           /\ Record(Here(d))
<1>1. call[d] \in {Idle} \cup Entry
  BY DEF Typed, CallTyped
<1>2. call[d] # Idle
  BY DEF Idle
<1>3. call[d] \in Entry
  BY <1>1, <1>2
<1>4. QED
  BY <1>3 DEF Entry, Typed, RunTyped, Here

\* A call that moves on, or ends, is still one.
Moves(d, after) == \E c \in {Idle} \cup Entry : after = [call EXCEPT ![d] = c]

LEMMA MovesTyped ==
    ASSUME Typed, NEW d \in Callers, NEW after, Moves(d, after)
    PROVE  after \in [Callers -> {Idle} \cup Entry]
BY DEF Typed, CallTyped, Moves

LEMMA ToMoves ==
    ASSUME Typed, NEW d \in Callers, call[d].at # "idle", NEW p \in Places
    PROVE  Moves(d, To(d, p))
<1>1. call[d] \in Entry
  BY InPlace
<1>2. [call[d] EXCEPT !.at = p] \in Entry
  BY <1>1 DEF Entry
<1>3. To(d, p) = [call EXCEPT ![d] = [call[d] EXCEPT !.at = p]]
  BY DEF To, Typed, CallTyped
<1>4. QED
  BY <1>2, <1>3 DEF Moves

LEMMA EndMoves ==
    ASSUME Typed, NEW d \in Callers
    PROVE  Moves(d, [call EXCEPT ![d] = Idle])
BY DEF Moves

LEMMA EnterMoves ==
    ASSUME Typed, NEW d \in Callers, NEW r \in Runs, NEW m \in BOOLEAN, NEW p \in Places
    PROVE  Moves(d, [call EXCEPT ![d] = Enter(r, m, p)])
<1>1. Enter(r, m, p) \in Entry
  BY LimitAssumption DEF Enter, Entry, Ends
<1>2. QED
  BY <1>1 DEF Moves

\* A save keeps the types, whether it succeeds or fails.
LEMMA SaveTyped ==
    ASSUME Typed, NEW d \in Callers, call[d].at # "idle", NEW k, Record(k),
           NEW good, NEW bad, Moves(d, good), Moves(d, bad), Save(d, k, good, bad)
    PROVE  RunTyped' /\ CallTyped' /\ faults' \in 0..MaxFaults
<1>1. CASE run' = [run EXCEPT ![call[d].run] = k] /\ call' = good /\ UNCHANGED faults
  BY <1>1, MovesTyped DEF Typed, RunTyped, CallTyped, Bounds
<1>2. CASE Fails /\ call' = bad /\ UNCHANGED run
  BY <1>2, MovesTyped, BoundsAssumption DEF Typed, RunTyped, CallTyped, Bounds, Fails
<1>3. QED
  BY <1>1, <1>2 DEF Save

-----------------------------------------------------------------------------
(* The first layer of the invariant.  Between taking the owner's token and  *)
(* giving it back an invocation is the owner, so there is one.  Requests    *)
(* are covered by attempts on file, those and the maintenance by the        *)
(* budget, the one that is about to be sent or entered included.            *)

Held == Places \ {"start", "final", "seal"}

Owned == \A d \in Callers : call[d].at \in Held => owner = d

Pending(d, r, p) == call[d].at = p /\ call[d].run = r

Sent(r) ==
    /\ asked[r] <= Attempts(run[r])
    /\ \A d \in Callers : Pending(d, r, "send") => asked[r] + 1 <= Attempts(run[r])

Paid(r) ==
    /\ Attempts(run[r]) + tended[r] <= budget[r].n
    /\ \A d \in Callers :
          \/ Pending(d, r, "attach") /\ call[d].n > 0
          \/ Pending(d, r, "tend")
          => Attempts(run[r]) + tended[r] + 1 <= budget[r].n

Counting == \A r \in Runs : Sent(r) /\ (lapses = 0 => Paid(r))

Inv == Typed /\ Owned /\ Counting

\* What the owner is for.
LEMMA OwnerIsOne ==
    ASSUME Owned, NEW d \in Callers, NEW e \in Callers,
           call[d].at \in Held, call[e].at \in Held
    PROVE  d = e
BY DEF Owned

-----------------------------------------------------------------------------
(* Steps that neither reserve nor send a request nor touch the owner.       *)

Counted == {"attach", "send", "tend"}

Onward(d, after) ==
    /\ Moves(d, after)
    /\ after[d].at \notin Counted
    /\ after[d].at \in Held => call[d].at \in Held

LEMMA ToOnward ==
    ASSUME Typed, NEW d \in Callers, call[d].at # "idle", NEW p \in Places \ Counted,
           p \in Held => call[d].at \in Held
    PROVE  Onward(d, To(d, p))
<1>1. Moves(d, To(d, p))
  BY ToMoves
<1>2. To(d, p)[d].at = p
  <2>1. call[d] \in Entry
    BY InPlace
  <2>2. To(d, p)[d] = [call[d] EXCEPT !.at = p]
    BY DEF To, Typed, CallTyped
  <2>3. QED
    BY <2>1, <2>2 DEF Entry
<1>3. QED
  BY <1>1, <1>2 DEF Onward

LEMMA ReturnOnward ==
    ASSUME Typed, NEW d \in Callers, call[d].at \in Held
    PROVE  Onward(d, Return(d))
<1>1. call[d].at # "idle" /\ "release" \in Places \ Counted
  BY DEF Held, Places, Counted
<1>2. QED
  BY <1>1, ToOnward DEF Return

LEMMA EndOnward ==
    ASSUME Typed, NEW d \in Callers
    PROVE  Onward(d, [call EXCEPT ![d] = Idle])
<1>1. [call EXCEPT ![d] = Idle][d] = Idle
  BY DEF Typed, CallTyped
<1>2. QED
  BY <1>1, EndMoves DEF Onward, Idle, Held, Places, Counted

LEMMA StartOnward ==
    ASSUME Typed, NEW d \in Callers, NEW r \in Runs, NEW m \in BOOLEAN
    PROVE  Onward(d, [call EXCEPT ![d] = Enter(r, m, "start")])
<1>1. [call EXCEPT ![d] = Enter(r, m, "start")][d] = Enter(r, m, "start")
  BY DEF Typed, CallTyped
<1>2. "start" \in Places
  BY DEF Places
<1>3. QED
  BY <1>1, <1>2, EnterMoves DEF Onward, Enter, Held, Counted

\* Nothing counted begins, so what is counted stays covered.
LEMMA StillOwned ==
    ASSUME Inv, NEW d \in Callers, NEW after, Onward(d, after), call' = after, UNCHANGED owner
    PROVE  Owned'
<1>1. \A e \in Callers : e # d => call'[e] = call[e]
  BY DEF Onward, Moves, Inv, Typed, CallTyped
<1>2. QED
  BY <1>1 DEF Inv, Owned, Onward

LEMMA StillCovered ==
    ASSUME Inv, NEW d \in Callers, NEW after, Onward(d, after) \/ after = call, call' = after,
           UNCHANGED << asked, tended >>, lapses' = 0 => lapses = 0,
           \A r \in Runs : Attempts(run'[r]) = Attempts(run[r]),
           \A r \in Runs : lapses' = 0 => budget'[r].n = budget[r].n
    PROVE  Counting'
<1>1. \A e \in Callers : e # d => call'[e] = call[e]
  BY DEF Onward, Moves, Inv, Typed, CallTyped
<1>2. ASSUME NEW e \in Callers, call'[e].at \in Counted
      PROVE  call'[e] = call[e]
  BY <1>1, <1>2 DEF Onward
<1>3. ASSUME NEW r \in Runs PROVE Sent(r)'
  <2>1. Sent(r)
    BY DEF Inv, Counting
  <2>2. \A e \in Callers : Pending(e, r, "send")' => Pending(e, r, "send")
    BY <1>2 DEF Pending, Counted
  <2>3. QED
    BY <2>1, <2>2 DEF Sent
<1>4. ASSUME NEW r \in Runs, lapses' = 0 PROVE Paid(r)'
  <2>1. Paid(r)
    BY <1>4 DEF Inv, Counting
  <2>2. \A e \in Callers :
          /\ Pending(e, r, "attach")' => Pending(e, r, "attach") /\ call'[e] = call[e]
          /\ Pending(e, r, "tend")' => Pending(e, r, "tend")
    BY <1>2 DEF Pending, Counted
  <2>3. Attempts(run'[r]) = Attempts(run[r]) /\ budget'[r].n = budget[r].n
        /\ tended'[r] = tended[r]
    BY <1>4
  <2>4. QED
    BY <2>1, <2>2, <2>3 DEF Paid
<1>5. QED
  BY <1>3, <1>4 DEF Counting

\* A step that moves one invocation on, and changes no number of attempts.
LEMMA QuietStep ==
    ASSUME Inv, NEW d \in Callers, NEW after, Onward(d, after) \/ after = call, call' = after,
           UNCHANGED << owner, budget, asked, tended, kills, lapses >>,
           faults' \in 0..MaxFaults, commit' \in CommitType, moved' \in [Runs -> BOOLEAN],
           RunTyped', \A r \in Runs : Attempts(run'[r]) = Attempts(run[r])
    PROVE  Inv'
<1>1. CallTyped'
  BY MovesTyped DEF Onward, CallTyped, Inv, Typed
<1>2. Typed'
  BY <1>1 DEF Inv, Typed, Files, Counts, Bounds
<1>3. Owned'
  BY StillOwned DEF Inv, Owned
<1>4. Counting'
  BY StillCovered
<1>5. QED
  BY <1>2, <1>3, <1>4 DEF Inv

LEMMA WalkStep ==
    ASSUME Inv, NEW d \in Callers, NEW after, Onward(d, after), call' = after,
           UNCHANGED << run, owner, budget, asked, tended, kills, lapses >>,
           faults' \in 0..MaxFaults, commit' \in CommitType, moved' \in [Runs -> BOOLEAN]
    PROVE  Inv'
<1>1. RunTyped' /\ \A r \in Runs : Attempts(run'[r]) = Attempts(run[r])
  BY DEF Inv, Typed, RunTyped
<1>2. QED
  BY <1>1, QuietStep

LEMMA Failing ==
    ASSUME Inv, Fails \/ UNCHANGED faults
    PROVE  faults' \in 0..MaxFaults
BY BoundsAssumption DEF Inv, Typed, Bounds, Fails

LEMMA RunKeeps ==
    ASSUME Inv, NEW r \in Runs, NEW k, Keeps(run[r], k), run' = [run EXCEPT ![r] = k]
    PROVE  RunTyped' /\ \A q \in Runs : Attempts(run'[q]) = Attempts(run[q])
<1>1. DOMAIN run' = Runs /\ \A q \in Runs : run'[q] = IF q = r THEN k ELSE run[q]
  BY DEF Inv, Typed, RunTyped
<1>2. QED
  BY <1>1 DEF Inv, Typed, RunTyped, Keeps

LEMMA SaveStep ==
    ASSUME Inv, NEW d \in Callers, call[d].at # "idle", NEW k, Keeps(Here(d), k),
           NEW good, NEW bad, Onward(d, good), Onward(d, bad), Save(d, k, good, bad),
           UNCHANGED << owner, commit, budget, asked, tended, moved, kills, lapses >>
    PROVE  Inv'
<1>1. call[d].run \in Runs /\ commit' \in CommitType /\ moved' \in [Runs -> BOOLEAN]
  BY InPlace DEF Inv, Typed, Files
<1>2. faults' \in 0..MaxFaults
  BY Failing DEF Save
<1>3. RunTyped' /\ \A r \in Runs : Attempts(run'[r]) = Attempts(run[r])
  <2>1. CASE run' = [run EXCEPT ![call[d].run] = k]
    BY <2>1, <1>1, RunKeeps DEF Here
  <2>2. CASE UNCHANGED run
    BY <2>2 DEF Inv, Typed, RunTyped
  <2>3. QED
    BY <2>1, <2>2 DEF Save
<1>4. PICK after \in {good, bad} : call' = after
  BY DEF Save
<1>5. QED
  BY <1>1, <1>2, <1>3, <1>4, QuietStep

LEMMA HeldOnward ==
    ASSUME Typed, NEW d \in Callers, call[d].at \in Held
    PROVE  /\ call[d].at # "idle"
           /\ \A p \in Places \ Counted : Onward(d, To(d, p))
           /\ Onward(d, Return(d))
           /\ Onward(d, [call EXCEPT ![d] = Idle])
<1>1. call[d].at # "idle"
  BY DEF Held, Places
<1>2. QED
  BY <1>1, ToOnward, ReturnOnward, EndOnward

-----------------------------------------------------------------------------
(* Each action, in the order of ModelRuns. *)

LEMMA InitInv == Init => Inv
<1> SUFFICES ASSUME Init PROVE Inv
  OBVIOUS
<1>1. RunTyped
  <2>1. << >> \in Seq(Attempt)
    OBVIOUS
  <2>2. NoRun \in RunRecord
    BY <2>1, LimitAssumption DEF NoRun, RunRecord, Statuses, Rounds
  <2>3. Ascends(NoRun)
    BY DEF Ascends, NoRun
  <2>4. QED
    BY <2>2, <2>3 DEF Init, RunTyped, Record
<1>2. CallTyped
  BY DEF Init, CallTyped
<1>3. Files
  BY LimitAssumption DEF Init, Files, CommitType, BudgetType
<1>4. Counts /\ Bounds
  BY BoundsAssumption DEF Init, Counts, Bounds
<1>5. \A d \in Callers : call[d].at = "idle"
  BY DEF Init, Idle
<1>6. Owned
  BY <1>5 DEF Owned, Held, Places
<1>7. Counting
  <2> SUFFICES ASSUME NEW r \in Runs PROVE Sent(r) /\ Paid(r)
    BY DEF Counting
  <2>1. Attempts(run[r]) = 0 /\ asked[r] = 0 /\ tended[r] = 0 /\ budget[r].n = 0
    BY DEF Init, Attempts, NoRun
  <2>2. QED
    BY <2>1, <1>5 DEF Sent, Paid, Pending
<1>8. QED
  BY <1>1, <1>2, <1>3, <1>4, <1>6, <1>7 DEF Inv, Typed

LEMMA PrepareStep ==
    ASSUME Inv, NEW d \in Callers, NEW r \in Runs, NEW m \in BOOLEAN, Prepare(d, r, m)
    PROVE  Inv'
<1> USE DEF Unbudgeted, Uncalled, Elsewhere
<1>1. faults' \in 0..MaxFaults /\ commit' \in CommitType /\ moved' \in [Runs -> BOOLEAN]
  BY Failing DEF Prepare, Inv, Typed, Files
<1>2. CASE run' = [run EXCEPT ![r].st = "ready"]
           /\ call' = [call EXCEPT ![d] = Enter(r, m, "start")]
  <2>1. Record(run[r])
    BY DEF Inv, Typed, RunTyped
  <2>2. Keeps(run[r], [run[r] EXCEPT !.st = "ready"])
    BY <2>1, FieldsKeep DEF Record, RunRecord, Statuses, FieldsOf
  <2>3. run' = [run EXCEPT ![r] = [run[r] EXCEPT !.st = "ready"]]
    BY <1>2
  <2>4. RunTyped' /\ \A q \in Runs : Attempts(run'[q]) = Attempts(run[q])
    BY <2>2, <2>3, RunKeeps
  <2>5. Onward(d, call')
    BY <1>2, StartOnward DEF Inv
  <2>6. QED
    BY <1>1, <2>4, <2>5, QuietStep DEF Prepare
<1>3. CASE UNCHANGED << run, call >>
  <2>1. RunTyped'
    BY <1>3 DEF Inv, Typed, RunTyped
  <2>2. QED
    BY <1>1, <1>3, <2>1, QuietStep DEF Prepare
<1>4. QED
  BY <1>2, <1>3 DEF Prepare

LEMMA ResumeStep ==
    ASSUME Inv, NEW d \in Callers, NEW r \in Runs, NEW m \in BOOLEAN, Resume(d, r, m)
    PROVE  Inv'
<1>1. Onward(d, call')
  BY StartOnward DEF Resume, Inv
<1>2. QED
  BY <1>1, WalkStep DEF Resume, Inv, Typed, Files, Bounds, Unbudgeted, Uncalled, Elsewhere

\* Nobody lives that holds the token: nobody is past it.
LEMMA NobodyHeld ==
    ASSUME Inv, NEW d \in Callers, ~Live(d)
    PROVE  \A e \in Callers : call[e].at \notin Held
BY DEF Live, Inv, Owned

\* The token is taken: by d, and nothing else is held.
LEMMA TakenStep ==
    ASSUME Inv, NEW d \in Callers, ~Live(d), owner' = d,
           \A e \in Callers : e # d => call'[e] = call[e]
    PROVE  Owned'
BY NobodyHeld DEF Owned

LEMMA StartStep ==
    ASSUME Inv, NEW d \in Callers, Start(d)
    PROVE  Inv'
<1> USE DEF Unbudgeted, Uncalled, Elsewhere
<1>1. call[d].at # "idle"
  BY DEF Start
<1>2. faults' \in 0..MaxFaults /\ commit' \in CommitType /\ moved' \in [Runs -> BOOLEAN]
  BY Failing DEF Start, Inv, Typed, Files
<1>3. CASE UNCHANGED owner /\ call' \in {To(d, "final"), [call EXCEPT ![d] = Idle]}
  <2>1. "final" \in Places \ Counted /\ "final" \notin Held
    BY DEF Places, Counted, Held
  <2>2. Onward(d, call')
    BY <1>1, <1>3, <2>1, ToOnward, EndOnward DEF Inv
  <2>3. QED
    BY <1>2, <1>3, <2>2, WalkStep DEF Start
<1>4. CASE ~Live(d) /\ owner' = d /\ call' = To(d, "look")
  <2>1. "look" \in Places
    BY DEF Places
  <2>2. Moves(d, call') /\ call[d] \in Entry
    BY <1>1, <1>4, <2>1, ToMoves, InPlace DEF Inv
  <2>3. CallTyped' /\ RunTyped'
    BY <2>2, MovesTyped DEF Inv, Typed, CallTyped, RunTyped, Start
  <2>4. Typed'
    BY <1>2, <1>4, <2>3 DEF Start, Inv, Typed, Files, Counts, Bounds
  <2>5. \A e \in Callers : e # d => call'[e] = call[e]
    BY <2>2 DEF Moves, Inv, Typed, CallTyped
  <2>6. Owned'
    BY <1>4, <2>5, TakenStep
  <2>7. call'[d].at = "look"
    BY <1>4, <2>2 DEF To, Entry, Inv, Typed, CallTyped
  <2>8. \A e \in Callers, r \in Runs, p \in Counted : Pending(e, r, p)' => Pending(e, r, p)
    BY <2>5, <2>7 DEF Pending, Counted
  <2>9. Counting'
    <3>1. UNCHANGED << run, budget, asked, tended, lapses >>
      BY DEF Start
    <3>2. \A e \in Callers : call'[e].at \in Counted => call'[e] = call[e]
      BY <2>5, <2>7 DEF Counted
    <3>3. QED
      BY <2>8, <3>1, <3>2 DEF Inv, Counting, Sent, Paid, Pending, Counted
  <2>10. QED
    BY <2>4, <2>6, <2>9 DEF Inv
<1>5. QED
  BY <1>3, <1>4 DEF Start

LEMMA RevokedStep ==
    ASSUME Inv, NEW d \in Callers, Revoked(d)
    PROVE  Inv'
<1>1. call[d].at \in Held
  BY DEF Revoked, Held, Places
<1>2. Onward(d, Return(d))
  BY <1>1, HeldOnward DEF Inv
<1>3. QED
  BY <1>2, WalkStep DEF Revoked, Inv, Typed, Files, Bounds, Unbudgeted, Uncalled, Elsewhere

\* What an invocation that holds the token has before it.
LEMMA Holding ==
    ASSUME Inv, NEW d \in Callers, call[d].at \in Held
    PROVE  /\ call[d].at # "idle" /\ call[d] \in Entry /\ call[d].run \in Runs
           /\ Record(Here(d)) /\ owner = d
           /\ \A p \in Held \ Counted : Onward(d, To(d, p))
           /\ Onward(d, Return(d)) /\ Onward(d, [call EXCEPT ![d] = Idle])
BY HeldOnward, InPlace DEF Inv, Owned, Held

LEMMA LookHeld ==
    ASSUME Inv, NEW d \in Callers, Looks(d)
    PROVE  /\ call[d].at \in Held
           /\ \A p \in {"look", "commit", "check"} : Onward(d, To(d, p))
<1>1. call[d].at \in Held /\ {"look", "commit", "check"} \subseteq Held \ Counted
  BY DEF Looks, Held, Places, Counted
<1>2. QED
  BY <1>1, Holding

LEMMA LookCommitStep ==
    ASSUME Inv, NEW d \in Callers, LookCommit(d)
    PROVE  Inv'
<1>1. Onward(d, To(d, "commit"))
  BY LookHeld DEF LookCommit
<1>2. QED
  BY <1>1, WalkStep DEF LookCommit, Inv, Typed, Files, Bounds, Unbudgeted, Uncalled, Elsewhere

LEMMA LookMovedStep ==
    ASSUME Inv, NEW d \in Callers, LookMoved(d)
    PROVE  Inv'
<1>1. call[d].at \in Held
  BY LookHeld DEF LookMoved
<1>2. Keeps(Here(d), Finished(Here(d), "blocked"))
  BY <1>1, Holding, FinishedKeeps DEF Statuses, Terminal
<1>3. QED
  BY <1>1, <1>2, Holding, SaveStep DEF LookMoved, Unbudgeted, Uncalled, Elsewhere

LEMMA LookAnswerStep ==
    ASSUME Inv, NEW d \in Callers, LookAnswer(d)
    PROVE  Inv'
<1> DEFINE k == Here(d)
           o == Outcome(k, "invalid")
<1>1. call[d].at \in Held /\ Onward(d, To(d, "look")) /\ Onward(d, To(d, "commit"))
  BY LookHeld DEF LookAnswer, Planned
<1>2. Record(k) /\ call[d].at # "idle" /\ Onward(d, Return(d))
  BY <1>1, Holding
<1>3. Keeps(k, Finished(k, "failed")) /\ Keeps(k, Finished(k, "blocked"))
  BY <1>2, FinishedKeeps DEF Statuses, Terminal
<1>4. Keeps(k, [o EXCEPT !.st = "retryable", !.kind = "none"])
  <2>1. Keeps(k, o)
    BY <1>2, OutcomeKeeps DEF Outcomes
  <2> HIDE DEF o
  <2>2. Keeps(o, [o EXCEPT !.st = "retryable", !.kind = "none"])
    BY <2>1, FieldsKeep DEF Keeps, Record, RunRecord, Statuses, FieldsOf
  <2>3. QED
    BY <2>1, <2>2, KeepsAll
<1>5. Keeps(k, [k EXCEPT !.st = "ready", !.stage = "review", !.kind = "none"])
  <2>1. k \in RunRecord
    BY <1>2 DEF Record
  <2> HIDE DEF k
  <2>2. k.att \in {k.att} /\ "ready" \in Statuses
    BY DEF Statuses
  <2>3. [k EXCEPT !.st = "ready", !.stage = "review", !.kind = "none"] \in FieldsOf(k)
    BY <2>1, <2>2 DEF RunRecord, FieldsOf
  <2>4. QED
    BY <1>2, <2>3, FieldsKeep
<1>6. Keeps(k, [k EXCEPT !.st = "committing"])
  BY <1>2, FieldsKeep DEF Record, RunRecord, Statuses, FieldsOf
<1>7. PICK m : Keeps(k, m) /\ \E good \in {To(d, "look"), To(d, "commit"), Return(d)} :
                                 Save(d, m, good, Return(d))
  BY <1>3, <1>4, <1>5, <1>6 DEF LookAnswer
<1>8. PICK good \in {To(d, "look"), To(d, "commit"), Return(d)} : Save(d, m, good, Return(d))
  BY <1>7
<1>9. QED
  BY <1>1, <1>2, <1>7, <1>8, SaveStep DEF LookAnswer, Unbudgeted, Uncalled, Elsewhere

LEMMA LookAskStep ==
    ASSUME Inv, NEW d \in Callers, LookAsk(d)
    PROVE  Inv'
<1> USE DEF Unbudgeted, Uncalled, Elsewhere
<1>1. call[d].at \in Held /\ Onward(d, To(d, "check"))
  BY LookHeld DEF LookAsk, Planned
<1>2. CASE call[d].model
  BY <1>1, <1>2, WalkStep DEF LookAsk, Inv, Typed, Files, Bounds
<1>3. CASE ~call[d].model
  <2>1. Keeps(Here(d), Finished(Here(d), "retryable"))
    BY <1>1, Holding, FinishedKeeps DEF Statuses, Terminal
  <2>2. QED
    BY <1>1, <1>3, <2>1, Holding, SaveStep DEF LookAsk
<1>4. QED
  BY <1>2, <1>3

LEMMA CheckStep ==
    ASSUME Inv, NEW d \in Callers, Check(d)
    PROVE  Inv'
<1>1. call[d].at \in Held /\ {"lost", "reserve"} \subseteq Held \ Counted
  BY DEF Check, Held, Places, Counted
<1>2. Onward(d, call')
  BY <1>1, Holding DEF Check
<1>3. QED
  BY <1>2, WalkStep DEF Check, Inv, Typed, Files, Bounds, Unbudgeted, Uncalled, Elsewhere

LEMMA LostStep ==
    ASSUME Inv, NEW d \in Callers, Lost(d)
    PROVE  Inv'
<1>1. call[d].at \in Held
  BY DEF Lost, Held, Places
<1>2. Keeps(Here(d), Finished(Here(d), "blocked"))
  BY <1>1, Holding, FinishedKeeps DEF Statuses, Terminal
<1>3. QED
  BY <1>1, <1>2, Holding, SaveStep DEF Lost, Unbudgeted, Uncalled, Elsewhere

\* A step of the one invocation that holds the token, which goes on holding it.
LEMMA AloneStep ==
    ASSUME Inv, NEW d \in Callers, call[d].at \in Held, NEW c \in Entry,
           call' = [call EXCEPT ![d] = c], UNCHANGED owner
    PROVE  /\ CallTyped' /\ Owned' /\ call'[d] = c
           /\ \A e \in Callers : e # d => call'[e] = call[e] /\ call'[e].at \notin Held
<1>1. /\ CallTyped' /\ call'[d] = c
      /\ \A e \in Callers : e # d => call'[e] = call[e]
  BY DEF Inv, Typed, CallTyped
<1>2. \A e \in Callers : e # d => call[e].at \notin Held
  BY OwnerIsOne DEF Inv
<1>3. Owned'
  BY <1>1, <1>2 DEF Inv, Owned
<1>4. QED
  BY <1>1, <1>2, <1>3

LEMMA ReserveStep ==
    ASSUME Inv, NEW d \in Callers, Reserve(d)
    PROVE  Inv'
<1> DEFINE r == call[d].run
           b == budget[r]
           At(n) == [call[d] EXCEPT !.at = "attach", !.n = n]
<1> USE DEF Uncalled, Elsewhere
<1>1. call[d].at \in Held /\ {"release", "lost"} \subseteq Held \ Counted
  BY DEF Reserve, Held, Places, Counted
<1>2. r \in Runs /\ call[d] \in Entry
  BY <1>1, Holding
<1>3. faults' \in 0..MaxFaults /\ RunTyped' /\ Counts'
  BY Failing DEF Reserve, Inv, Typed, RunTyped, Counts
<1>4. ASSUME UNCHANGED budget, call' \in {To(d, "release"), To(d, "lost")}
      PROVE  Inv'
  BY <1>1, <1>3, <1>4, Holding, WalkStep DEF Reserve, Inv, Typed, Files
<1>5. \A n : [call EXCEPT ![d].at = "attach", ![d].n = n] = [call EXCEPT ![d] = At(n)]
  BY DEF Inv, Typed, CallTyped
<1>6. \A n \in 0..Limit : At(n) \in Entry /\ At(n).at = "attach" /\ At(n).n = n /\ At(n).run = r
  BY <1>2 DEF Entry, Places
<1> HIDE DEF At
<1>7. ASSUME NEW n \in 0..Limit, call' = [call EXCEPT ![d] = At(n)],
             \/ n = 0 /\ UNCHANGED budget
             \/ ~Spent(b) /\ budget' = [budget EXCEPT ![r].n = @ + 1],
             UNCHANGED << run, owner, commit, moved, kills, lapses, asked, tended >>
      PROVE  Inv'
  <2>1. /\ CallTyped' /\ Owned' /\ call'[d] = At(n)
        /\ \A e \in Callers : e # d => call'[e] = call[e] /\ call'[e].at \notin Held
    BY <1>1, <1>6, <1>7, AloneStep
  <2>2. b \in [n: 0..Limit, done: BOOLEAN, maint: BOOLEAN] /\ budget \in BudgetType
    BY <1>2 DEF Inv, Typed, Files, BudgetType
  <2>3. budget' \in BudgetType
    <3>1. CASE UNCHANGED budget
      BY <3>1, <2>2
    <3>2. CASE ~Spent(b) /\ budget' = [budget EXCEPT ![r].n = @ + 1]
      <4>1. b.n + 1 \in 0..Limit
        BY <2>2, <3>2, LimitAssumption DEF Spent
      <4>2. [b EXCEPT !.n = b.n + 1] \in [n: 0..Limit, done: BOOLEAN, maint: BOOLEAN]
        BY <4>1, <2>2
      <4>3. budget' = [budget EXCEPT ![r] = [b EXCEPT !.n = b.n + 1]]
        BY <3>2, <2>2 DEF BudgetType
      <4>4. QED
        BY <4>2, <4>3, <2>2 DEF BudgetType
    <3>3. QED
      BY <1>7, <3>1, <3>2
  <2>4. Typed'
    BY <1>3, <1>7, <2>1, <2>3 DEF Inv, Typed, Files, Counts, Bounds
  <2>5. ASSUME NEW q \in Runs PROVE Sent(q)'
    <3>1. \A e \in Callers : ~Pending(e, q, "send")'
      BY <1>6, <2>1 DEF Pending, Held, Places
    <3>2. QED
      BY <3>1, <1>7 DEF Inv, Counting, Sent
  <2>6. ASSUME NEW q \in Runs, lapses' = 0 PROVE Paid(q)'
    <3>1. Attempts(run[q]) + tended[q] <= budget[q].n
      BY <1>7, <2>6 DEF Inv, Counting, Paid
    <3>2. Attempts(run[q]) \in Nat /\ tended[q] \in Nat /\ budget[q].n \in Nat
      BY DEF Inv, Typed, RunTyped, Record, RunRecord, Attempts, Counts, Files, BudgetType
    <3>3. budget'[q].n = IF n # 0 /\ q = r THEN budget[q].n + 1 ELSE budget'[q].n
      BY <1>7, <2>2, <2>3 DEF BudgetType
    <3>4. budget'[q].n >= budget[q].n
      BY <1>7, <2>2, <2>3, <3>2 DEF BudgetType
    <3>5. ASSUME NEW e \in Callers,
                 \/ Pending(e, q, "attach")' /\ call'[e].n > 0
                 \/ Pending(e, q, "tend")'
          PROVE  n # 0 /\ q = r
      BY <1>6, <2>1, <3>5 DEF Pending, Held, Places
    <3>6. QED
      <4>1. Attempts(run[q]) + tended[q] <= budget'[q].n
        BY <3>1, <3>2, <3>4, <2>3 DEF BudgetType
      <4>2. n # 0 /\ q = r => Attempts(run[q]) + tended[q] + 1 <= budget'[q].n
        BY <3>1, <3>2, <3>3
      <4>3. QED
        BY <4>1, <4>2, <3>5, <1>7 DEF Paid
  <2>7. QED
    BY <2>1, <2>4, <2>5, <2>6 DEF Inv, Counting
<1>8. CASE Spent(b) /\ call' = [call EXCEPT ![d].at = "attach", ![d].n = 0] /\ UNCHANGED budget
  <2>1. 0 \in 0..Limit
    BY LimitAssumption
  <2>2. call' = [call EXCEPT ![d] = At(0)]
    BY <1>5, <1>8
  <2>3. UNCHANGED << run, owner, commit, moved, kills, lapses, asked, tended >>
    BY DEF Reserve
  <2>4. QED
    BY <1>7, <1>8, <2>1, <2>2, <2>3
<1>9. CASE /\ ~Spent(b) /\ budget' = [budget EXCEPT ![r].n = @ + 1]
           /\ call' = [call EXCEPT ![d].at = "attach", ![d].n = b.n + 1]
  <2>1. b.n + 1 \in 0..Limit
    BY <1>2, <1>9, LimitAssumption DEF Inv, Typed, Files, BudgetType, Spent
  <2>2. QED
    BY <1>5, <1>7, <1>9, <2>1 DEF Reserve
<1>10. QED
  BY <1>4, <1>8, <1>9 DEF Reserve

\* An attempt is entered with an ordinal above the last.
LEMMA AppendRecord ==
    ASSUME NEW k, Record(k), NEW n \in 1..Limit, Later(k, n), NEW b \in 0..Limit,
           NEW m, m = [k EXCEPT !.att = Append(@, [n |-> n, out |-> "unknown"]), !.reserved = b]
    PROVE  Record(m) /\ Attempts(m) = Attempts(k) + 1
<1> DEFINE x == [n |-> n, out |-> "unknown"]
           a == Append(k.att, x)
<1>1. k \in RunRecord /\ k.att \in Seq(Attempt) /\ Len(k.att) \in Nat /\ Ascends(k)
  BY DEF Record, RunRecord
<1>2. x \in Attempt
  BY DEF Attempt, Outcomes
<1>3. a \in Seq(Attempt) /\ Len(a) = Len(k.att) + 1 /\ a[Len(k.att) + 1] = x
  BY <1>1, <1>2
<1>4. Len(k.att) + 1 <= n
  <2>1. CASE k.att = << >>
    BY <2>1
  <2>2. CASE k.att # << >>
    <3>1. n > k.att[Len(k.att)].n
      BY <2>2 DEF Later, Last
    <3>2. Len(k.att) \in DOMAIN k.att
      BY <1>1, <2>2
    <3>3. k.att[Len(k.att)] \in Attempt
      BY <1>1, <3>2
    <3>4. k.att[Len(k.att)].n \in Nat
      BY <3>3, LimitAssumption DEF Attempt
    <3>5. QED
      BY <1>1, <2>2, <3>1, <3>4, LimitAssumption DEF Ascends
  <2>3. QED
    BY <2>1, <2>2
<1> HIDE DEF a
<1>5. m \in RunRecord /\ m.att = a
  BY <1>1, <1>3 DEF RunRecord, a
<1>6. QED
  BY <1>1, <1>3, <1>4, <1>5 DEF Record, Ascends, Attempts

LEMMA EnterAttempt ==
    ASSUME Inv, NEW d \in Callers, call[d].at = "attach", call[d].n > 0, NEW m, Record(m),
           Attempts(m) = Attempts(Here(d)) + 1, NEW p \in {"send", "release"},
           run' = [run EXCEPT ![call[d].run] = m], call' = To(d, p),
           UNCHANGED << owner, commit, budget, moved, asked, tended, faults, kills, lapses >>
    PROVE  Inv'
<1> DEFINE r == call[d].run
           c == [call[d] EXCEPT !.at = p]
<1>1. call[d].at \in Held /\ p \in Places
  BY DEF Held, Places
<1>2. r \in Runs /\ call[d] \in Entry
  BY <1>1, Holding
<1>3. c \in Entry /\ c.at = p /\ c.run = r /\ call' = [call EXCEPT ![d] = c]
  BY <1>1, <1>2 DEF Entry, To, Inv, Typed, CallTyped
<1> HIDE DEF c
<1>4. /\ CallTyped' /\ Owned' /\ call'[d] = c
      /\ \A e \in Callers : e # d => call'[e] = call[e] /\ call'[e].at \notin Held
  BY <1>1, <1>3, AloneStep
<1>5. DOMAIN run' = Runs /\ \A q \in Runs : run'[q] = IF q = r THEN m ELSE run[q]
  BY DEF Inv, Typed, RunTyped
<1>6. Typed'
  BY <1>4, <1>5 DEF Inv, Typed, RunTyped, Files, Counts, Bounds
<1>7. \A q \in Runs : Attempts(run[q]) \in Nat
  BY DEF Inv, Typed, RunTyped, Record, RunRecord, Attempts
<1>8. \A q \in Runs : asked[q] \in Nat /\ tended[q] \in Nat /\ budget[q].n \in Nat
  BY DEF Inv, Typed, Counts, Files, BudgetType
<1>9. Attempts(run'[r]) = Attempts(run[r]) + 1
  BY <1>2, <1>5 DEF Here
<1>10. ASSUME NEW q \in Runs PROVE Sent(q)'
  <2>1. asked[q] <= Attempts(run[q])
    BY DEF Inv, Counting, Sent
  <2>2. CASE q = r
    BY <2>1, <2>2, <1>7, <1>8, <1>9 DEF Sent
  <2>3. CASE q # r
    <3>1. \A e \in Callers : ~Pending(e, q, "send")'
      BY <2>3, <1>3, <1>4 DEF Pending, Held, Places
    <3>2. QED
      BY <2>1, <2>3, <3>1, <1>5 DEF Sent
  <2>4. QED
    BY <2>2, <2>3
<1>11. ASSUME NEW q \in Runs, lapses' = 0 PROVE Paid(q)'
  <2>1. Paid(q)
    BY <1>11 DEF Inv, Counting
  <2>2. \A e \in Callers : ~Pending(e, q, "attach")' /\ ~Pending(e, q, "tend")'
    BY <1>3, <1>4 DEF Pending, Held, Places
  <2>3. Attempts(run'[q]) + tended[q] <= budget[q].n
    <3>1. CASE q = r
      <4>1. Pending(d, r, "attach") /\ call[d].n > 0
        BY DEF Pending
      <4>2. Attempts(run[r]) + tended[r] + 1 <= budget[r].n
        BY <2>1, <3>1, <4>1 DEF Paid
      <4>3. QED
        BY <3>1, <4>2, <1>2, <1>7, <1>8, <1>9
    <3>2. CASE q # r
      BY <2>1, <3>2, <1>5 DEF Paid
    <3>3. QED
      BY <3>1, <3>2
  <2>4. QED
    BY <2>2, <2>3 DEF Paid
<1>12. QED
  BY <1>4, <1>6, <1>10, <1>11 DEF Inv, Counting

LEMMA AttachStep ==
    ASSUME Inv, NEW d \in Callers, Attach(d)
    PROVE  Inv'
<1> DEFINE k == Here(d)
           n == call[d].n
           b == budget[call[d].run].n
<1> USE DEF Unbudgeted, Uncalled, Elsewhere
<1>1. call[d].at = "attach" /\ call[d].at \in Held
  BY DEF Attach, Held, Places
<1>2. Record(k) /\ n \in 0..Limit /\ call[d].run \in Runs /\ Onward(d, Return(d))
  BY <1>1, Holding DEF Entry
<1>3. b \in 0..Limit
  BY <1>2 DEF Inv, Typed, Files, BudgetType
<1>4. CASE n = 0
  <2>1. Keeps(k, Finished(k, "failed"))
    BY <1>2, FinishedKeeps DEF Statuses, Terminal
  <2>2. Keeps(Finished(k, "failed"), [Finished(k, "failed") EXCEPT !.reserved = b])
    BY <2>1, <1>3, FieldsKeep DEF Keeps, Record, RunRecord, FieldsOf
  <2>3. Keeps(k, [Finished(k, "failed") EXCEPT !.reserved = b])
    BY <2>1, <2>2, KeepsAll
  <2>4. Save(d, [Finished(k, "failed") EXCEPT !.reserved = b], Return(d), Return(d))
    BY <1>4 DEF Attach, Exhausted
  <2>5. QED
    BY <1>1, <1>2, <2>3, <2>4, SaveStep DEF Attach
<1>5. CASE n > 0 /\ ~Later(k, n)
  <2>1. call' = Return(d) /\ UNCHANGED << run, faults >>
    BY <1>2, <1>5, LimitAssumption DEF Attach
  <2>2. QED
    BY <2>1, <1>2, WalkStep DEF Attach, Inv, Typed, Files, Bounds
<1>6. CASE n > 0 /\ Later(k, n)
  <2> DEFINE t == Attached(d)
  <2>1. Record(t) /\ Attempts(t) = Attempts(k) + 1
    <3>1. n \in 1..Limit
      BY <1>2, <1>6, LimitAssumption
    <3>2. t = [k EXCEPT !.att = Append(@, [n |-> n, out |-> "unknown"]), !.reserved = b]
      BY DEF Attached
    <3>3. Record(k) /\ Later(k, n) /\ b \in 0..Limit
      BY <1>2, <1>3, <1>6
    <3> HIDE DEF t, k, n, b
    <3>4. QED
      BY <3>1, <3>2, <3>3, AppendRecord, ZenonT(60)
  <2> HIDE DEF t
  <2>2. Keeps(t, Finished(t, "blocked"))
    BY <2>1, FinishedKeeps DEF Statuses, Terminal
  <2>3. Keeps(t, [t EXCEPT !.st = "dispatching"])
    BY <2>1, FieldsKeep DEF Record, RunRecord, Statuses, FieldsOf
  <2>4. PICK m : Keeps(t, m) /\ \E p \in {"send", "release"} :
                                   Save(d, m, To(d, p), Return(d))
    <3>1. CASE moved[call[d].run]
      <4>1. Save(d, Finished(t, "blocked"), To(d, "release"), Return(d))
        BY <1>6, <1>2, <3>1, LimitAssumption DEF Attach, Return, t
      <4>2. QED
        BY <2>2, <4>1
    <3>2. CASE ~moved[call[d].run]
      <4>1. Save(d, [t EXCEPT !.st = "dispatching"], To(d, "send"), Return(d))
        BY <1>6, <1>2, <3>2, LimitAssumption DEF Attach, t
      <4>2. QED
        BY <2>3, <4>1
    <3>3. QED
      BY <3>1, <3>2
  <2>5. Record(m) /\ Attempts(m) = Attempts(k) + 1
    BY <2>1, <2>4 DEF Keeps
  <2>6. PICK p \in {"send", "release"} : Save(d, m, To(d, p), Return(d))
    BY <2>4
  <2>7. CASE run' = [run EXCEPT ![call[d].run] = m] /\ call' = To(d, p) /\ UNCHANGED faults
    BY <1>1, <1>6, <2>5, <2>7, EnterAttempt DEF Attach
  <2>8. CASE Fails /\ call' = Return(d) /\ UNCHANGED run
    BY <1>2, <2>8, Failing, WalkStep DEF Attach, Inv, Typed, Files
  <2>9. QED
    BY <2>6, <2>7, <2>8 DEF Save
<1>7. QED
  BY <1>2, <1>4, <1>5, <1>6, LimitAssumption

LEMMA SendStep ==
    ASSUME Inv, NEW d \in Callers, Send(d)
    PROVE  Inv'
<1> DEFINE r == call[d].run
           c == [call[d] EXCEPT !.at = "call"]
<1> USE DEF Unbudgeted, Elsewhere
<1>1. call[d].at \in Held /\ "call" \in Places
  BY DEF Send, Held, Places
<1>2. r \in Runs /\ call[d] \in Entry
  BY <1>1, Holding
<1>3. c \in Entry /\ c.at = "call" /\ call' = [call EXCEPT ![d] = c]
  BY <1>1, <1>2 DEF Send, Entry, To, Inv, Typed, CallTyped
<1> HIDE DEF c
<1>4. /\ CallTyped' /\ Owned' /\ call'[d] = c
      /\ \A e \in Callers : e # d => call'[e] = call[e] /\ call'[e].at \notin Held
  BY <1>1, <1>3, AloneStep DEF Send
<1>5. /\ asked' \in [Runs -> Nat]
      /\ \A q \in Runs : asked'[q] = IF q = r THEN asked[q] + 1 ELSE asked[q]
  BY <1>2 DEF Send, Inv, Typed, Counts
<1>6. Typed'
  BY <1>4, <1>5 DEF Send, Inv, Typed, RunTyped, Files, Counts, Bounds
<1>7. \A e \in Callers, q \in Runs, p \in Counted : ~Pending(e, q, p)'
  BY <1>3, <1>4 DEF Pending, Counted, Held, Places
<1>8. ASSUME NEW q \in Runs PROVE Sent(q)'
  <2>1. q = r => Pending(d, q, "send")
    BY DEF Pending, Send
  <2>2. Sent(q)
    BY DEF Inv, Counting
  <2>3. QED
    BY <1>5, <1>7, <2>1, <2>2 DEF Sent, Send, Counted
<1>9. ASSUME NEW q \in Runs, lapses' = 0 PROVE Paid(q)'
  BY <1>7, <1>9 DEF Send, Inv, Counting, Paid, Counted
<1>10. QED
  BY <1>4, <1>6, <1>8, <1>9 DEF Inv, Counting

\* An answer's fields, on top of its attempt.
LEMMA ReceiptKeeps ==
    ASSUME NEW k, NEW o, Keeps(k, o), NEW st \in Statuses,
           NEW stage \in {"none", "review", "reviewed"}, NEW kind \in Answers \cup {"none"}
    PROVE  Keeps(k, [o EXCEPT !.st = st, !.stage = stage, !.kind = kind])
<1>1. o \in RunRecord /\ Record(o) /\ o.att \in {o.att}
  BY DEF Keeps, Record
<1>2. [o EXCEPT !.st = st, !.stage = stage, !.kind = kind] \in FieldsOf(o)
  BY <1>1 DEF RunRecord, FieldsOf
<1>3. Keeps(o, [o EXCEPT !.st = st, !.stage = stage, !.kind = kind])
  BY <1>1, <1>2, FieldsKeep
<1>4. QED
  BY <1>3, KeepsAll

LEMMA ReplyHeld ==
    ASSUME Inv, NEW d \in Callers, Replied(d)
    PROVE  /\ call[d].at \in Held /\ call[d].at # "idle" /\ Record(Here(d))
           /\ Onward(d, To(d, "look")) /\ Onward(d, Return(d))
           /\ \A out \in Outcomes : Keeps(Here(d), Outcome(Here(d), out))
<1>1. call[d].at \in Held /\ "look" \in Held \ Counted
  BY DEF Replied, Held, Places, Counted
<1>2. QED
  BY <1>1, Holding, OutcomeKeeps

LEMMA FinishedToo ==
    ASSUME NEW k, NEW o, Keeps(k, o), NEW st \in Statuses
    PROVE  Keeps(k, Finished(o, st))
<1>1. Keeps(o, Finished(o, st))
  BY FinishedKeeps DEF Keeps
<1>2. QED
  BY <1>1, KeepsAll

LEMMA AnswerErrorStep ==
    ASSUME Inv, NEW d \in Callers, AnswerError(d)
    PROVE  Inv'
<1>1. Replied(d)
  BY DEF AnswerError
<1>2. PICK e \in {"transient", "unclear", "denied"} :
          Save(d, Finished(Outcome(Here(d), e),
                           IF e = "transient" /\ Here(d).reserved < Limit THEN "retryable"
                                                                         ELSE "failed"),
               Return(d), Return(d))
  BY DEF AnswerError
<1>3. e \in Outcomes /\ {"retryable", "failed"} \subseteq Statuses
  BY DEF Outcomes, Statuses, Terminal
<1>4. \A st \in {"retryable", "failed"} : Keeps(Here(d), Finished(Outcome(Here(d), e), st))
  BY <1>1, <1>3, ReplyHeld, FinishedToo
<1>5. QED
  BY <1>1, <1>2, <1>4, ReplyHeld, SaveStep DEF AnswerError, Unbudgeted, Uncalled, Elsewhere

LEMMA AnswerUnusableStep ==
    ASSUME Inv, NEW d \in Callers, AnswerUnusable(d)
    PROVE  Inv'
<1> DEFINE o == Outcome(Here(d), "invalid")
<1>1. Replied(d) /\ "invalid" \in Outcomes /\ {"retryable", "failed"} \subseteq Statuses
  BY DEF AnswerUnusable, Outcomes, Statuses, Terminal
<1>2. \A st \in {"retryable", "failed"} : Keeps(Here(d), Finished(o, st))
  BY <1>1, ReplyHeld, FinishedToo
<1> HIDE DEF o
<1>3. \/ Save(d, Finished(o, "failed"), Return(d), Return(d))
      \/ Save(d, Finished(o, "retryable"), To(d, "look"), Return(d))
  BY DEF AnswerUnusable, o
<1>4. QED
  BY <1>1, <1>2, <1>3, ReplyHeld, SaveStep DEF AnswerUnusable, Unbudgeted, Uncalled, Elsewhere

LEMMA AnswerStep ==
    ASSUME Inv, NEW d \in Callers, Answer(d)
    PROVE  Inv'
<1> DEFINE o == Outcome(Here(d), "response")
           R(a) == [o EXCEPT !.st = "response_ready", !.kind = a]
<1>1. Replied(d) /\ "response" \in Outcomes /\ "response_ready" \in Statuses
  BY DEF Answer, Outcomes, Statuses
<1>2. PICK a \in Answers : Save(d, R(a), To(d, "look"), Return(d))
  BY DEF Answer
<1>3. Keeps(Here(d), o)
  BY <1>1, ReplyHeld
<1> HIDE DEF o
<1>4. o \in RunRecord
  BY <1>3 DEF Keeps, Record
<1>5. R(a) = [o EXCEPT !.st = "response_ready", !.stage = o.stage, !.kind = a]
      /\ o.stage \in {"none", "review", "reviewed"}
  BY <1>4 DEF RunRecord
<1>6. Keeps(Here(d), R(a))
  <2>1. a \in Answers \cup {"none"} /\ o.stage \in {"none", "review", "reviewed"}
    BY <1>5
  <2>2. Keeps(Here(d), [o EXCEPT !.st = "response_ready", !.stage = o.stage, !.kind = a])
    BY <1>1, <1>3, <2>1, ReceiptKeeps
  <2>3. QED
    BY <1>5, <2>2
<1>7. QED
  BY <1>1, <1>2, <1>6, ReplyHeld, SaveStep DEF Answer, Unbudgeted, Uncalled, Elsewhere

LEMMA AnswerReviewStep ==
    ASSUME Inv, NEW d \in Callers, AnswerReview(d)
    PROVE  Inv'
<1> DEFINE o == Outcome(Here(d), "response")
           R(a) == [o EXCEPT !.st = "response_ready", !.stage = "reviewed", !.kind = a]
<1> USE DEF Unbudgeted, Uncalled, Elsewhere
<1>1. /\ Replied(d) /\ {"response", "invalid"} \subseteq Outcomes
      /\ {"response_ready", "failed"} \subseteq Statuses
  BY DEF AnswerReview, Outcomes, Statuses, Terminal
<1>2. Keeps(Here(d), o) /\ Keeps(Here(d), Outcome(Here(d), "invalid"))
  BY <1>1, ReplyHeld
<1>3. ASSUME NEW a \in {"good", "junk"}, Save(d, R(a), To(d, "look"), Return(d))
      PROVE  Inv'
  <2>1. Keeps(Here(d), R(a))
    BY <1>1, <1>2, ReceiptKeeps DEF Answers
  <2>2. QED
    BY <1>1, <1>3, <2>1, ReplyHeld, SaveStep DEF AnswerReview
<1>4. CASE Save(d, Finished(Outcome(Here(d), "invalid"), "failed"), Return(d), Return(d))
  <2>1. Keeps(Here(d), Finished(Outcome(Here(d), "invalid"), "failed"))
    BY <1>1, <1>2, FinishedToo
  <2>2. QED
    BY <1>1, <1>4, <2>1, ReplyHeld, SaveStep DEF AnswerReview
<1>5. QED
  BY <1>3, <1>4 DEF AnswerReview

LEMMA SettleOnward ==
    ASSUME Typed, NEW d \in Callers, call[d].at \in Held, NEW e \in Ends
    PROVE  Onward(d, [call EXCEPT ![d].at = "settle", ![d].got = e])
<1> DEFINE c == [call[d] EXCEPT !.at = "settle", !.got = e]
<1>1. call[d].at # "idle" /\ "settle" \in Places \ Counted
  BY DEF Held, Places, Counted
<1>2. call[d] \in Entry
  BY <1>1, InPlace
<1>3. c \in Entry /\ c.at = "settle"
  BY <1>1, <1>2 DEF Entry
<1>4. [call EXCEPT ![d].at = "settle", ![d].got = e] = [call EXCEPT ![d] = c]
  BY DEF Typed, CallTyped
<1> HIDE DEF c
<1>5. [call EXCEPT ![d] = c][d] = c
  BY DEF Typed, CallTyped
<1>6. QED
  BY <1>1, <1>3, <1>4, <1>5 DEF Onward, Moves

LEMMA ReceiptTyped ==
    ASSUME Inv, NEW r \in Runs, NEW c \in Ends \cup {"none", "open", "cut"}
    PROVE  Receipt(r, c) \in CommitType
BY DEF Inv, Typed, Files, CommitType, Receipt

LEMMA CommitStep ==
    ASSUME Inv, NEW d \in Callers, Commit(d)
    PROVE  Inv'
<1> DEFINE r == call[d].run
<1>1. call[d].at \in Held /\ "refused" \in Held \ Counted
  BY DEF Commit, Held, Places, Counted
<1>2. r \in Runs /\ Onward(d, To(d, "refused")) /\ Onward(d, Return(d))
  BY <1>1, Holding
<1>3. \A e \in Ends : Onward(d, [call EXCEPT ![d].at = "settle", ![d].got = e])
  BY <1>1, SettleOnward DEF Inv
<1>4. Onward(d, call')
  BY <1>2, <1>3 DEF Commit, EndsOf, Ends
<1>5. faults' \in 0..MaxFaults
  BY Failing DEF Commit
<1>6. commit' \in CommitType /\ moved' \in [Runs -> BOOLEAN]
  <2>1. commit \in CommitType /\ moved \in [Runs -> BOOLEAN]
    BY DEF Inv, Typed, Files
  <2>2. \A c \in Ends \cup {"open"} : Receipt(r, c) \in CommitType
    BY <1>2, ReceiptTyped
  <2>3. commit' \in CommitType
    BY <2>1, <2>2 DEF Commit, EndsOf, Ends
  <2>4. moved' \in [Runs -> BOOLEAN]
    BY <2>1 DEF Commit
  <2>5. QED
    BY <2>3, <2>4
<1>7. QED
  BY <1>4, <1>5, <1>6, WalkStep DEF Commit, Uncalled

LEMMA RefusedStep ==
    ASSUME Inv, NEW d \in Callers, Refused(d)
    PROVE  Inv'
<1>1. call[d].at \in Held
  BY DEF Refused, Held, Places
<1>2. Keeps(Here(d), Finished(Here(d), "blocked"))
  BY <1>1, Holding, FinishedKeeps DEF Statuses, Terminal
<1>3. QED
  BY <1>1, <1>2, Holding, SaveStep DEF Refused, Unbudgeted, Uncalled, Elsewhere

LEMMA DoneOnward ==
    ASSUME Typed, NEW d \in Callers, call[d].at \in Held, NEW done \in BOOLEAN
    PROVE  Onward(d, [Return(d) EXCEPT ![d].done = done])
<1> DEFINE c == [[call[d] EXCEPT !.at = "release"] EXCEPT !.done = done]
<1>1. call[d].at # "idle" /\ "release" \in Places \ Counted
  BY DEF Held, Places, Counted
<1>2. call[d] \in Entry
  BY <1>1, InPlace
<1>3. c \in Entry /\ c.at = "release"
  BY <1>1, <1>2 DEF Entry
<1>4. [Return(d) EXCEPT ![d].done = done] = [call EXCEPT ![d] = c]
  BY DEF Typed, CallTyped, Return, To
<1> HIDE DEF c
<1>5. [call EXCEPT ![d] = c][d] = c
  BY DEF Typed, CallTyped
<1>6. QED
  BY <1>1, <1>3, <1>4, <1>5 DEF Onward, Moves

LEMMA SettleStep ==
    ASSUME Inv, NEW d \in Callers, Settle(d)
    PROVE  Inv'
<1> DEFINE st == IF call[d].got = "whole" THEN "completed" ELSE "unresolved"
           good == [Return(d) EXCEPT ![d].done = call[d].got = "whole"]
<1>1. call[d].at \in Held
  BY DEF Settle, Held, Places
<1>2. Keeps(Here(d), Finished(Here(d), st))
  BY <1>1, Holding, FinishedKeeps DEF Statuses, Terminal
<1>3. Onward(d, good)
  BY <1>1, DoneOnward DEF Inv
<1>4. Save(d, Finished(Here(d), st), good, Return(d))
  BY DEF Settle
<1> HIDE DEF st, good
<1>5. QED
  BY <1>1, <1>2, <1>3, <1>4, Holding, SaveStep DEF Settle, Unbudgeted, Uncalled, Elsewhere

\* A step in which d takes the token from nobody, or gives up what it has; at
\* what is counted there is afterwards only what was there before.
LEMMA TokenStep ==
    ASSUME Inv, NEW d \in Callers, NEW c \in {Idle} \cup Entry, c.at \notin Counted,
           call' = [call EXCEPT ![d] = c], owner' \in Callers \cup Procs \cup {Nobody},
           Owned', faults' \in 0..MaxFaults,
           UNCHANGED << run, commit, budget, moved, asked, tended, kills, lapses >>
    PROVE  Inv'
<1>1. /\ CallTyped' /\ call'[d] = c
      /\ \A e \in Callers : e # d => call'[e] = call[e]
  BY DEF Inv, Typed, CallTyped
<1>2. Typed'
  BY <1>1 DEF Inv, Typed, RunTyped, Files, Counts, Bounds
<1>3. \A e \in Callers : call'[e].at \in Counted => call'[e] = call[e]
  BY <1>1
<1>4. Counting'
  BY <1>3 DEF Inv, Counting, Sent, Paid, Pending, Counted
<1>5. QED
  BY <1>2, <1>4 DEF Inv

LEMMA ReleaseStep ==
    ASSUME Inv, NEW d \in Callers, Release(d)
    PROVE  Inv'
<1> USE DEF Unbudgeted, Uncalled, Elsewhere
<1>1. call[d].at = "release" /\ call[d].at \in Held
  BY DEF Release, Held, Places
<1>2. owner = d /\ call[d] \in Entry /\ call[d].run \in Runs
  BY <1>1, Holding
<1> DEFINE f == [call[d] EXCEPT !.at = "final"]
<1>3. f \in Entry /\ f.at = "final"
  BY <1>2 DEF Entry, Places
<1>4. PICK c \in {Idle, f} : call' = [call EXCEPT ![d] = c]
  BY DEF Release, After, To, Inv, Typed, CallTyped
<1> HIDE DEF f
<1>5. c \in {Idle} \cup Entry /\ c.at \notin Held /\ c.at \notin Counted
  BY <1>3 DEF Idle, Held, Places, Counted
<1>6. owner' \in Callers \cup Procs \cup {Nobody}
  BY <1>2, HostsAssumption DEF Release
<1>7. Owned'
  <2>1. \A e \in Callers : e # d => call[e].at \notin Held
    BY <1>1, OwnerIsOne DEF Inv
  <2>2. \A e \in Callers : call'[e] = IF e = d THEN c ELSE call[e]
    BY <1>4 DEF Inv, Typed, CallTyped
  <2>3. QED
    BY <1>5, <2>1, <2>2 DEF Owned
<1>8. QED
  BY <1>4, <1>5, <1>6, <1>7, Failing, TokenStep DEF Release

LEMMA FinalStep ==
    ASSUME Inv, NEW d \in Callers, Final(d)
    PROVE  Inv'
<1> DEFINE r == call[d].run
<1> USE DEF Uncalled, Elsewhere
<1>1. call[d].at = "final" /\ call[d].at # "idle" /\ "seal" \in Places \ Counted
      /\ "seal" \notin Held
  BY DEF Final, Places, Counted, Held
<1>2. r \in Runs
  BY <1>1, InPlace DEF Inv
<1>3. Onward(d, To(d, "seal")) /\ Onward(d, [call EXCEPT ![d] = Idle])
  BY <1>1, ToOnward, EndOnward DEF Inv
<1>4. Onward(d, call') /\ faults' \in 0..MaxFaults
  BY <1>3, Failing DEF Final
<1>5. budget' \in BudgetType /\ \A q \in Runs : budget'[q].n = budget[q].n
  <2>1. budget \in BudgetType
    BY DEF Inv, Typed, Files
  <2>2. CASE budget' = [budget EXCEPT ![r].done = TRUE]
    <3>1. [budget[r] EXCEPT !.done = TRUE] \in [n: 0..Limit, done: BOOLEAN, maint: BOOLEAN]
      BY <1>2, <2>1 DEF BudgetType
    <3>2. budget' = [budget EXCEPT ![r] = [budget[r] EXCEPT !.done = TRUE]]
      BY <2>1, <2>2 DEF BudgetType
    <3>3. [budget[r] EXCEPT !.done = TRUE].n = budget[r].n
      BY <1>2, <2>1 DEF BudgetType
    <3>4. QED
      BY <2>1, <3>1, <3>2, <3>3 DEF BudgetType
  <2>3. QED
    BY <2>1, <2>2 DEF Final
<1>6. CallTyped'
  BY <1>4, MovesTyped DEF Onward, Inv, CallTyped
<1>7. Typed'
  BY <1>4, <1>5, <1>6 DEF Final, Inv, Typed, RunTyped, Files, Counts, Bounds
<1>8. Owned'
  BY <1>4, StillOwned DEF Final
<1>9. Counting'
  BY <1>4, <1>5, StillCovered DEF Final
<1>10. QED
  BY <1>7, <1>8, <1>9 DEF Inv

LEMMA SealStep ==
    ASSUME Inv, NEW d \in Callers, Seal(d)
    PROVE  Inv'
<1> USE DEF Unbudgeted, Uncalled, Elsewhere
<1>1. call[d].at # "idle"
  BY DEF Seal
<1>2. Record(Here(d)) /\ Onward(d, [call EXCEPT ![d] = Idle])
  BY <1>1, InPlace, EndOnward DEF Inv
<1>3. CASE Here(d).st = "completed"
  <2>1. Keeps(Here(d), [Here(d) EXCEPT !.finalized = TRUE])
    <3>1. Here(d) \in RunRecord /\ Here(d).att \in {Here(d).att}
      BY <1>2 DEF Record
    <3>2. [Here(d) EXCEPT !.finalized = TRUE] \in FieldsOf(Here(d))
      BY <3>1 DEF RunRecord, FieldsOf
    <3>3. QED
      BY <1>2, <3>2, FieldsKeep
  <2>2. QED
    BY <1>1, <1>2, <1>3, <2>1, SaveStep DEF Seal
<1>4. CASE Here(d).st # "completed"
  BY <1>2, <1>4, WalkStep DEF Seal, Inv, Typed, Files, Bounds
<1>5. QED
  BY <1>3, <1>4

LEMMA ArmStep ==
    ASSUME Inv, NEW d \in Callers, NEW r \in Runs, NEW m \in BOOLEAN, NEW k,
           Keeps(run[r], k), Arm(d, r, m, k)
    PROVE  Inv'
<1> USE DEF Unbudgeted, Uncalled
<1>1. faults' \in 0..MaxFaults
  BY Failing DEF Arm
<1>2. commit' \in CommitType /\ moved' \in [Runs -> BOOLEAN]
  BY DEF Arm, Replanned, Inv, Typed, Files
<1>3. CASE run' = [run EXCEPT ![r] = k] /\ call' = [call EXCEPT ![d] = Enter(r, m, "start")]
  <2>1. RunTyped' /\ \A q \in Runs : Attempts(run'[q]) = Attempts(run[q])
    BY <1>3, RunKeeps
  <2>2. Onward(d, call')
    BY <1>3, StartOnward DEF Inv
  <2>3. QED
    BY <1>1, <1>2, <2>1, <2>2, QuietStep DEF Arm
<1>4. CASE UNCHANGED << run, call >>
  <2>1. RunTyped'
    BY <1>4 DEF Inv, Typed, RunTyped
  <2>2. QED
    BY <1>1, <1>2, <1>4, <2>1, QuietStep DEF Arm
<1>5. QED
  BY <1>3, <1>4 DEF Arm

LEMMA RecoverFailedStep ==
    ASSUME Inv, NEW d \in Callers, NEW r \in Runs, NEW m \in BOOLEAN, RecoverFailed(d, r, m)
    PROVE  Inv'
<1>1. Record(run[r]) /\ run[r] \in RunRecord /\ run[r].att \in {run[r].att}
  BY DEF Inv, Typed, RunTyped, Record
<1>2. Rescued(run[r]) \in FieldsOf(run[r])
  BY <1>1 DEF Rescued, FieldsOf, RunRecord, Statuses
<1>3. QED
  BY <1>1, <1>2, FieldsKeep, ArmStep DEF RecoverFailed

LEMMA RepairStep ==
    ASSUME Inv, NEW d \in Callers, NEW r \in Runs, Repair(d, r)
    PROVE  Inv'
<1> DEFINE k == [run[r] EXCEPT !.st = "response_ready", !.kind = "good",
                               !.round = 2, !.mode = "repair"]
<1>1. Record(run[r]) /\ run[r] \in RunRecord /\ run[r].att \in {run[r].att}
  BY DEF Inv, Typed, RunTyped, Record
<1>2. k \in FieldsOf(run[r])
  <2>1. "response_ready" \in Statuses /\ "good" \in Answers \cup {"none"} /\ 2 \in Rounds
    BY DEF Statuses, Answers, Rounds
  <2>2. QED
    BY <1>1, <2>1 DEF FieldsOf, RunRecord
<1>3. Arm(d, r, FALSE, k)
  BY DEF Repair
<1> HIDE DEF k
<1>4. QED
  BY <1>1, <1>2, <1>3, FieldsKeep, ArmStep

LEMMA ReplanStep ==
    ASSUME Inv, NEW d \in Callers, NEW r \in Runs, Replan(d, r)
    PROVE  Inv'
<1> DEFINE k == [run[r] EXCEPT !.st = "ready", !.stage = "none",
                               !.round = 2, !.mode = "replan"]
<1>1. Record(run[r]) /\ run[r] \in RunRecord /\ run[r].att \in {run[r].att}
  BY DEF Inv, Typed, RunTyped, Record
<1>2. k \in FieldsOf(run[r])
  <2>1. "ready" \in Statuses /\ 2 \in Rounds
    BY DEF Statuses, Rounds
  <2>2. QED
    BY <1>1, <2>1 DEF FieldsOf, RunRecord
<1>3. Arm(d, r, TRUE, k)
  BY DEF Replan
<1> HIDE DEF k
<1>4. QED
  BY <1>1, <1>2, <1>3, FieldsKeep, ArmStep

\* A budget that grows by one, and is closed to maintenance.
LEMMA TendedTyped ==
    ASSUME Inv, NEW r \in Runs, budget[r].n < Limit,
           budget' = [budget EXCEPT ![r] = Tended(budget[r])]
    PROVE  /\ budget' \in BudgetType
           /\ \A q \in Runs : budget'[q].n = IF q = r THEN budget[q].n + 1 ELSE budget[q].n
<1> DEFINE b == budget[r]
<1>1. budget \in BudgetType /\ b \in [n: 0..Limit, done: BOOLEAN, maint: BOOLEAN]
  BY DEF Inv, Typed, Files, BudgetType
<1>2. b.n + 1 \in 0..Limit
  BY <1>1, LimitAssumption
<1>3. Tended(b) \in [n: 0..Limit, done: BOOLEAN, maint: BOOLEAN] /\ Tended(b).n = b.n + 1
  BY <1>1, <1>2 DEF Tended
<1>4. QED
  BY <1>1, <1>3 DEF BudgetType

LEMMA Numbers ==
    ASSUME Inv, NEW q \in Runs
    PROVE  /\ Attempts(run[q]) \in Nat /\ asked[q] \in Nat /\ tended[q] \in Nat
           /\ budget[q].n \in Nat
BY DEF Inv, Typed, RunTyped, Record, RunRecord, Attempts, Counts, Files, BudgetType

LEMMA TendStep ==
    ASSUME Inv, NEW d \in Callers, NEW r \in Runs, Tend(d, r)
    PROVE  Inv'
<1> DEFINE c == Enter(r, TRUE, "tend")
<1> USE DEF Uncalled, Elsewhere
<1>1. ~Live(d) /\ budget[r].n < Limit
  BY DEF Tend, Free
<1>2. c \in Entry /\ c.at = "tend" /\ c.run = r
  BY LimitAssumption DEF Enter, Entry, Places, Ends
<1>3. faults' \in 0..MaxFaults
  BY Failing DEF Tend
<1>4. \A e \in Callers : call[e].at \notin Held
  BY <1>1, NobodyHeld
<1>5. /\ budget' \in BudgetType
      /\ \A q \in Runs : budget'[q].n \in {budget[q].n, budget[q].n + 1}
  <2>1. CASE UNCHANGED budget
    BY <2>1 DEF Inv, Typed, Files
  <2>2. CASE budget' = [budget EXCEPT ![r] = Tended(budget[r])]
    BY <2>2, <1>1, TendedTyped
  <2>3. QED
    BY <2>1, <2>2 DEF Tend
<1>6. ASSUME NEW q \in Runs, lapses' = 0
      PROVE  Attempts(run'[q]) + tended'[q] <= budget'[q].n
  <2>1. Attempts(run[q]) + tended[q] <= budget[q].n /\ UNCHANGED << run, tended >>
    BY <1>6 DEF Tend, Inv, Counting, Paid
  <2>2. QED
    BY <2>1, <1>5, Numbers
<1>7. CASE UNCHANGED << owner, call >>
  <2>1. Typed' /\ Owned'
    BY <1>3, <1>5, <1>7 DEF Tend, Inv, Typed, RunTyped, CallTyped, Files, Counts, Bounds, Owned
  <2>2. \A e \in Callers, q \in Runs, p \in Counted : ~Pending(e, q, p)'
    BY <1>4, <1>7 DEF Pending, Counted, Held, Places
  <2>3. Counting'
    BY <1>6, <2>2 DEF Tend, Inv, Counting, Sent, Paid, Counted
  <2>4. QED
    BY <2>1, <2>3 DEF Inv
<1>8. CASE /\ budget' = [budget EXCEPT ![r] = Tended(budget[r])] /\ owner' = d
           /\ call' = [call EXCEPT ![d] = c]
  <2> HIDE DEF c
  <2>1. CallTyped' /\ call'[d] = c /\ \A e \in Callers : e # d => call'[e] = call[e]
    BY <1>2, <1>8 DEF Inv, Typed, CallTyped
  <2>2. Typed' /\ Owned'
    BY <1>1, <1>3, <1>5, <1>8, <2>1, TakenStep
       DEF Tend, Inv, Typed, RunTyped, Files, Counts, Bounds
  <2>3. ASSUME NEW q \in Runs PROVE Sent(q)'
    <3>1. \A e \in Callers : ~Pending(e, q, "send")'
      BY <1>2, <1>4, <2>1 DEF Pending, Held, Places
    <3>2. QED
      BY <3>1 DEF Tend, Inv, Counting, Sent
  <2>4. ASSUME NEW q \in Runs, lapses' = 0 PROVE Paid(q)'
    <3>1. \A e \in Callers : ~Pending(e, q, "attach")' /\ (Pending(e, q, "tend")' => q = r)
      BY <1>2, <1>4, <2>1 DEF Pending, Held, Places
    <3>2. q = r => Attempts(run[q]) + tended[q] + 1 <= budget'[q].n
      <4>1. Attempts(run[q]) + tended[q] <= budget[q].n
        BY <2>4 DEF Tend, Inv, Counting, Paid
      <4>2. q = r => budget'[q].n = budget[q].n + 1
        BY <1>1, <1>8, TendedTyped
      <4>3. QED
        BY <4>1, <4>2, Numbers
    <3>3. QED
      BY <1>6, <2>4, <3>1, <3>2 DEF Tend, Paid
  <2>5. QED
    BY <2>2, <2>3, <2>4 DEF Inv, Counting
<1>9. QED
  BY <1>7, <1>8 DEF Tend

LEMMA TendSendStep ==
    ASSUME Inv, NEW d \in Callers, TendSend(d)
    PROVE  Inv'
<1> DEFINE r == call[d].run
           c == [call[d] EXCEPT !.at = "tending"]
<1> USE DEF Unbudgeted, Elsewhere
<1>1. call[d].at \in Held /\ "tending" \in Places
  BY DEF TendSend, Held, Places
<1>2. r \in Runs /\ call[d] \in Entry
  BY <1>1, Holding
<1>3. c \in Entry /\ c.at = "tending" /\ call' = [call EXCEPT ![d] = c]
  BY <1>1, <1>2 DEF TendSend, Entry, To, Inv, Typed, CallTyped
<1> HIDE DEF c
<1>4. /\ CallTyped' /\ Owned' /\ call'[d] = c
      /\ \A e \in Callers : e # d => call'[e] = call[e] /\ call'[e].at \notin Held
  BY <1>1, <1>3, AloneStep DEF TendSend
<1>5. /\ tended' \in [Runs -> Nat]
      /\ \A q \in Runs : tended'[q] = IF q = r THEN tended[q] + 1 ELSE tended[q]
  BY <1>2 DEF TendSend, Inv, Typed, Counts
<1>6. Typed'
  BY <1>4, <1>5 DEF TendSend, Inv, Typed, RunTyped, Files, Counts, Bounds
<1>7. \A e \in Callers, q \in Runs, p \in Counted : ~Pending(e, q, p)'
  BY <1>3, <1>4 DEF Pending, Counted, Held, Places
<1>8. ASSUME NEW q \in Runs PROVE Sent(q)'
  BY <1>7 DEF TendSend, Inv, Counting, Sent, Counted
<1>9. ASSUME NEW q \in Runs, lapses' = 0 PROVE Paid(q)'
  <2>1. Paid(q) /\ UNCHANGED << run, budget >>
    BY <1>9 DEF TendSend, Inv, Counting
  <2>2. q = r => Pending(d, q, "tend")
    BY DEF Pending, TendSend
  <2>3. Attempts(run[q]) + tended'[q] <= budget[q].n
    <3>1. q = r => Attempts(run[q]) + tended[q] + 1 <= budget[q].n
      BY <2>1, <2>2 DEF Paid
    <3>2. q # r => Attempts(run[q]) + tended[q] <= budget[q].n
      BY <2>1 DEF Paid
    <3>3. QED
      BY <1>5, <3>1, <3>2, Numbers
  <2>4. QED
    BY <1>7, <2>1, <2>3 DEF Paid, Counted
<1>10. QED
  BY <1>4, <1>6, <1>8, <1>9 DEF Inv, Counting

LEMMA TendReturnStep ==
    ASSUME Inv, NEW d \in Callers, TendReturn(d)
    PROVE  Inv'
<1>1. call[d].at \in Held
  BY DEF TendReturn, Held, Places
<1>2. Onward(d, Return(d))
  BY <1>1, HeldOnward DEF Inv
<1>3. QED
  BY <1>2, WalkStep DEF TendReturn, Inv, Typed, Files, Bounds, Unbudgeted, Uncalled, Elsewhere

\* A step of others: no invocation moves, no attempt is added.
LEMMA OthersStep ==
    ASSUME Inv, UNCHANGED << call, owner, asked, tended, kills >>, Typed',
           lapses' = 0 => lapses = 0,
           \A r \in Runs : Attempts(run'[r]) = Attempts(run[r]),
           lapses' = 0 => \A r \in Runs : budget'[r].n = budget[r].n
    PROVE  Inv'
BY DEF Inv, Owned, Counting, Sent, Paid, Pending

LEMMA ForgetStep ==
    ASSUME Inv, NEW r \in Runs, Forget(r)
    PROVE  Inv'
<1> USE DEF Uncalled, Elsewhere
<1>1. Record(run[r])
  BY DEF Inv, Typed, RunTyped
<1>2. Keeps(run[r], Cancelled(run[r]))
  <2> DEFINE f == Finished(run[r], "cancelled")
  <2>1. Keeps(run[r], f)
    BY <1>1, FinishedKeeps DEF Statuses, Terminal
  <2> HIDE DEF f
  <2>2. Keeps(f, [f EXCEPT !.kind = "none"])
    BY <2>1, FieldsKeep DEF Keeps, Record, RunRecord, FieldsOf
  <2>3. QED
    BY <2>1, <2>2, KeepsAll DEF Cancelled, f
<1>3. RunTyped' /\ \A q \in Runs : Attempts(run'[q]) = Attempts(run[q])
  <2>1. CASE run' = [run EXCEPT ![r] = Cancelled(@)]
    BY <1>2, <2>1, RunKeeps
  <2>2. CASE UNCHANGED run
    BY <2>2 DEF Inv, Typed, RunTyped
  <2>3. QED
    BY <2>1, <2>2 DEF Forget
<1>4. commit' \in CommitType
  <2>1. PICK c \in Cuts(r) : commit' = [commit EXCEPT ![r] = c]
    BY DEF Forget
  <2>2. QED
    BY <2>1 DEF Cuts, CommitType, Inv, Typed, Files
<1>5. UNCHANGED owner /\ faults' \in 0..MaxFaults
  BY Failing DEF Forget, OwnerAfterForget
<1>6. Typed'
  BY <1>3, <1>4, <1>5 DEF Forget, Inv, Typed, CallTyped, Files, Counts, Bounds
<1>7. QED
  BY <1>3, <1>5, <1>6, OthersStep DEF Forget

LEMMA SettleWorkStep ==
    ASSUME Inv, NEW r \in Runs, NEW k \in Rounds, SettleWork(r, k)
    PROVE  Inv'
<1>1. commit' \in CommitType /\ moved' \in [Runs -> BOOLEAN]
  BY DEF SettleWork, EndsOf, Ends, CommitType, Inv, Typed, Files
<1>2. Typed'
  BY <1>1 DEF SettleWork, Uncalled, Inv, Typed, RunTyped, CallTyped, Files, Counts, Bounds
<1>3. QED
  BY <1>2, OthersStep DEF SettleWork, Uncalled

LEMMA MoveStep ==
    ASSUME Inv, NEW r \in Runs, Move(r)
    PROVE  Inv'
<1>1. moved' \in [Runs -> BOOLEAN]
  BY DEF Move, Inv, Typed, Files
<1>2. Typed'
  BY <1>1 DEF Move, Uncalled, Inv, Typed, RunTyped, CallTyped, Files, Counts, Bounds
<1>3. QED
  BY <1>2, OthersStep DEF Move, Uncalled

LEMMA RestoreStep ==
    ASSUME Inv, NEW r \in Runs, Restore(r)
    PROVE  Inv'
<1>1. budget' \in BudgetType
  BY DEF Restore, BudgetType, Inv, Typed, Files
<1>2. lapses' \in 0..MaxLapses /\ lapses' # 0
  BY BoundsAssumption DEF Restore, Inv, Typed, Bounds
<1>3. Typed'
  BY <1>1, <1>2 DEF Restore, Uncalled, Inv, Typed, RunTyped, CallTyped, Files, Counts, Bounds
<1>4. UNCHANGED << call, owner, asked, tended, kills, run >>
  BY DEF Restore, Uncalled
<1>5. QED
  BY <1>2, <1>3, <1>4, OthersStep

\* A process dies with its invocations; the token of another still holds.
LEMMA KillStep ==
    ASSUME Inv, NEW p \in Procs, Kill(p)
    PROVE  Inv'
<1>1. \A e \in Callers : call'[e] = IF HostOf[e] = p THEN Idle ELSE call[e]
  BY DEF Kill
<1>2. CallTyped'
  BY <1>1 DEF Kill, Inv, Typed, CallTyped
<1>3. kills' \in 0..MaxKills /\ owner' \in Callers \cup Procs \cup {Nobody}
  BY BoundsAssumption DEF Kill, Inv, Typed, Bounds, Files
<1>4. Typed'
  BY <1>2, <1>3 DEF Kill, Uncalled, Inv, Typed, RunTyped, Files, Counts, Bounds
<1>5. \A e \in Callers : call'[e].at \in Places => call'[e] = call[e] /\ HostOf[e] # p
  BY <1>1 DEF Idle, Places
<1>6. Owned'
  <2> SUFFICES ASSUME NEW e \in Callers, call'[e].at \in Held PROVE owner' = e
    BY DEF Owned
  <2>1. call[e].at \in Held /\ HostOf[e] # p
    BY <1>5 DEF Held
  <2>2. owner = e
    BY <2>1 DEF Inv, Owned
  <2>3. e # p
    BY NobodyAssumption
  <2>4. QED
    BY <2>1, <2>2, <2>3 DEF Kill
<1>7. \A e \in Callers : call'[e].at \in Counted => call'[e] = call[e]
  BY <1>5 DEF Counted, Places
<1>8. Counting'
  BY <1>7 DEF Kill, Uncalled, Inv, Counting, Sent, Paid, Pending, Counted
<1>9. QED
  BY <1>4, <1>6, <1>8 DEF Inv

LEMMA StutterStep ==
    ASSUME Inv, UNCHANGED vars
    PROVE  Inv'
<1>1. Typed'
  BY DEF vars, Inv, Typed, RunTyped, CallTyped, Files, Counts, Bounds
<1>2. QED
  BY <1>1, OthersStep DEF vars

-----------------------------------------------------------------------------
(* Any step, and what follows. *)

LEMMA DriveInv ==
    ASSUME Inv, NEW d \in Callers, Drive(d)
    PROVE  Inv'
<1>1. CASE \/ Start(d) \/ Revoked(d) \/ LookCommit(d) \/ LookMoved(d) \/ LookAnswer(d)
           \/ LookAsk(d)
  BY <1>1, StartStep, RevokedStep, LookCommitStep, LookMovedStep, LookAnswerStep, LookAskStep
<1>2. CASE Check(d) \/ Lost(d) \/ Reserve(d) \/ Attach(d) \/ Send(d)
  BY <1>2, CheckStep, LostStep, ReserveStep, AttachStep, SendStep
<1>3. CASE AnswerError(d) \/ AnswerUnusable(d) \/ Answer(d) \/ AnswerReview(d)
  BY <1>3, AnswerErrorStep, AnswerUnusableStep, AnswerStep, AnswerReviewStep
<1>4. CASE Commit(d) \/ Refused(d) \/ Settle(d) \/ Release(d) \/ Final(d) \/ Seal(d)
  BY <1>4, CommitStep, RefusedStep, SettleStep, ReleaseStep, FinalStep, SealStep
<1>5. CASE TendSend(d) \/ TendReturn(d)
  BY <1>5, TendSendStep, TendReturnStep
<1>6. QED
  BY <1>1, <1>2, <1>3, <1>4, <1>5 DEF Drive

LEMMA InvokeInv ==
    ASSUME Inv, NEW d \in Callers, NEW r \in Runs, Invoke(d, r)
    PROVE  Inv'
BY PrepareStep, ResumeStep, RecoverFailedStep, RepairStep, ReplanStep, TendStep DEF Invoke

LEMMA NextInv == Inv /\ [Next]_vars => Inv'
<1> SUFFICES ASSUME Inv, [Next]_vars PROVE Inv'
  OBVIOUS
<1>1. ASSUME NEW d \in Callers, Drive(d) PROVE Inv'
  BY <1>1, DriveInv
<1>2. ASSUME NEW d \in Callers, NEW r \in Runs, Invoke(d, r) PROVE Inv'
  BY <1>2, InvokeInv
<1>3. ASSUME NEW r \in Runs, Forget(r) \/ Move(r) \/ Restore(r) PROVE Inv'
  BY <1>3, ForgetStep, MoveStep, RestoreStep
<1>4. ASSUME NEW r \in Runs, NEW k \in Rounds, SettleWork(r, k) PROVE Inv'
  BY <1>4, SettleWorkStep
<1>5. ASSUME NEW p \in Procs, Kill(p) PROVE Inv'
  BY <1>5, KillStep
<1>6. QED
  BY <1>1, <1>2, <1>3, <1>4, <1>5, StutterStep DEF Next

LEMMA AlwaysInv == Spec => []Inv
BY InitInv, NextInv, PTL DEF Spec

\* Receipts, budget and calls have their types in every reachable state; that
\* a receipt never holds more attempts than Limit is part of it.
THEOREM TypesHold == Spec => []TypeOK
<1>1. Inv => TypeOK
  BY TypedIsTypeOK DEF Inv
<1>2. QED
  BY <1>1, AlwaysInv, PTL

\* The owner's token keeps two requests of any runs, of any processes, apart.
THEOREM OneRequestOut == Spec => []OneCallAtATime
<1>1. ASSUME Inv PROVE OneCallAtATime
  <2> DEFINE S == {d \in Callers : call[d].at \in {"call", "tending"}}
  <2>1. S \subseteq {owner}
    BY <1>1 DEF Inv, Owned, Held, Places
  <2>2. IsFiniteSet({owner}) /\ Cardinality({owner}) = 1
    BY FS_Singleton
  <2>3. Cardinality(S) <= 1
    BY <2>1, <2>2, FS_Subset
  <2>4. QED
    BY <2>3 DEF OneCallAtATime
<1>2. QED
  BY <1>1, AlwaysInv, PTL

\* The allowance: the runner sends no more requests than Limit, each of them on
\* file, even with a budget file that was restored; runner and maintenance
\* together send no more than the budget counts when it was not.
THEOREM AllowanceKept == Spec => []CallsWithinBudget
<1>1. ASSUME Inv PROVE CallsWithinBudget
  <2> SUFFICES ASSUME NEW r \in Runs
               PROVE  /\ asked[r] <= Attempts(run[r]) /\ asked[r] <= Limit
                      /\ lapses = 0 => asked[r] + tended[r] <= budget[r].n
    BY DEF CallsWithinBudget
  <2>1. asked[r] <= Attempts(run[r])
    BY <1>1 DEF Inv, Counting, Sent
  <2>2. Attempts(run[r]) <= Limit
    BY <1>1, RecordIsRun DEF Inv, Typed, RunTyped, IsRun, Attempts
  <2>3. lapses = 0 => Attempts(run[r]) + tended[r] <= budget[r].n
    BY <1>1 DEF Inv, Counting, Paid
  <2>4. QED
    BY <1>1, <2>1, <2>2, <2>3, Numbers, LimitAssumption
<1>2. QED
  BY <1>1, AlwaysInv, PTL

-----------------------------------------------------------------------------
(* Answers, commits and outcomes.  The invariant relates the receipt of a   *)
(* run, the commit it stands for, and the place of the one invocation that  *)
(* holds the owner's token.                                                 *)

\* An answer is on file only while it awaits its commit.
Kept(k) == k.kind # "none" => Answered(k)

\* A receipt k and its commits c that leave something to be asked, unless the
\* run was revoked meanwhile.
Askable(k, c) == k.st = "cancelled" \/ (~Answered(k) /\ c[k.round] = "none")

Ended(k, c) == k.st \in {"completed", "unresolved"} => c[k.round] \in Ends

\* From the decision to ask to the answer.
Asking == {"check", "lost", "reserve", "attach", "send", "call"}

\* What is on file bears out where an invocation is: it asks for what is not
\* there, reports what is, and seals after the budget is closed.
Fits(d) ==
    /\ call[d].at \in Asking => Askable(Here(d), commit[call[d].run])
    /\ call[d].at = "settle" => Written(d) \in Ends
    /\ call[d].at = "seal" /\ lapses = 0 => budget[call[d].run].done

\* The receipt, the commit and the budget of a run agree.
Agree(r) ==
    /\ Kept(run[r]) /\ Ended(run[r], commit[r])
    /\ run[r].finalized /\ lapses = 0 => budget[r].done

Orderly == (\A d \in Callers : Fits(d)) /\ (\A r \in Runs : Agree(r))

Whole == Inv /\ Orderly

\* What a step may do to the receipt k of a run, n being the next one.
Stands(k, n) ==
    \/ n = k
    \/ k.st \notin Terminal
    \/ k.st = "completed" /\ n = [k EXCEPT !.finalized = TRUE]
    \/ n = Cancelled(k)
    \/ k.st = "failed" /\ ~k.rescued /\ n.rescued
    \/ k.st = "unresolved" /\ k.round = 1 /\ n.round = 2

\* No commit of a revoked run begins.
NotBegun(k, c, n) ==
    k.st = "cancelled" => \A j \in Rounds : c[j] = "none" => n[j] = "none"

Steady(r) == Stands(run[r], run'[r]) /\ NotBegun(run[r], commit[r], commit'[r])

\* A budget once closed stays closed, and the budget file is not restored.
Closing ==
    lapses' = 0 => lapses = 0 /\ \A r \in Runs : budget[r].done => budget'[r].done

Ordered == Orderly' /\ \A r \in Runs : Steady(r)

-----------------------------------------------------------------------------
(* Kinds of steps. *)

LEMMA HeldNames ==
    /\ Asking \cup {"settle"} \subseteq Held
    /\ {"look", "commit", "refused", "release"} \subseteq Held
    /\ Held \subseteq Places /\ "idle" \notin Places
BY DEF Asking, Held, Places

\* Nobody else is past the token.
LEMMA Others ==
    ASSUME Whole, NEW d \in Callers, call[d].at \in Held
    PROVE  \A e \in Callers : e # d => call[e].at \notin Held
BY OwnerIsOne DEF Whole, Inv

\* The files of one run are written by the one invocation past the token, or
\* while there is none.
LEMMA WriteOrder ==
    ASSUME Whole, NEW d \in Callers, NEW r \in Runs, Closing,
           \A e \in Callers : e # d => call[e].at \notin Held /\ call'[e] = call[e],
           \A q \in Runs : q # r => run'[q] = run[q] /\ commit'[q] = commit[q],
           Fits(d)', Agree(r)', Steady(r)
    PROVE  Ordered
<1>1. ASSUME NEW e \in Callers, e # d PROVE Fits(e)'
  <2>1. call'[e] = call[e] /\ call[e].at \notin Asking \cup {"settle"}
    BY <1>1, HeldNames
  <2>2. ASSUME call[e].at = "seal", lapses' = 0 PROVE budget'[call[e].run].done
    <3>1. call[e].run \in Runs
      BY <2>2, InPlace DEF Whole, Inv
    <3>2. lapses = 0 /\ budget[call[e].run].done
      BY <2>2 DEF Whole, Orderly, Fits, Closing
    <3>3. QED
      BY <2>2, <3>1, <3>2 DEF Closing
  <2>3. QED
    BY <2>1, <2>2 DEF Fits
<1>2. ASSUME NEW q \in Runs, q # r PROVE Agree(q)' /\ Steady(q)
  <2>1. Agree(q) /\ run'[q] = run[q] /\ commit'[q] = commit[q]
    BY <1>2 DEF Whole, Orderly
  <2>2. Agree(q)'
    BY <2>1 DEF Agree, Closing
  <2>3. QED
    BY <2>1, <2>2 DEF Steady, Stands, NotBegun
<1>3. QED
  BY <1>1, <1>2 DEF Ordered, Orderly

\* No receipt and no commit is written: invocations stay, or go where they fit.
LEMMA WalkOrder ==
    ASSUME Whole, Closing, UNCHANGED << run, commit >>,
           \A e \in Callers : call'[e] = call[e] \/ Fits(e)'
    PROVE  Ordered
<1>1. ASSUME NEW e \in Callers, call'[e] = call[e] PROVE Fits(e)'
  <2>1. Fits(e)
    BY DEF Whole, Orderly
  <2>2. ASSUME call[e].at = "seal", lapses' = 0 PROVE budget'[call[e].run].done
    <3>1. call[e].run \in Runs
      BY <2>2, InPlace DEF Whole, Inv
    <3>2. QED
      BY <2>1, <2>2, <3>1 DEF Fits, Closing
  <2>3. QED
    BY <1>1, <2>1, <2>2 DEF Fits, Here, Written
<1>2. ASSUME NEW q \in Runs PROVE Agree(q)' /\ Steady(q)
  <2>1. Agree(q)
    BY DEF Whole, Orderly
  <2>2. QED
    BY <2>1 DEF Agree, Closing, Steady, Stands, NotBegun
<1>3. QED
  BY <1>1, <1>2 DEF Ordered, Orderly

\* Where To leads.
LEMMA Placed ==
    ASSUME Typed, NEW d \in Callers, call[d].at # "idle", NEW p
    PROVE  /\ To(d, p)[d].at = p /\ To(d, p)[d].run = call[d].run
           /\ \A e \in Callers : e # d => To(d, p)[e] = call[e]
<1>1. call[d] \in Entry
  BY InPlace
<1>2. To(d, p)[d] = [call[d] EXCEPT !.at = p]
  BY DEF To, Typed, CallTyped
<1>3. QED
  BY <1>1, <1>2 DEF Entry, To, Typed, CallTyped

\* Places that need nothing on file.
Plain == {"idle", "start", "look", "commit", "refused", "release", "final", "tend", "tending"}

LEMMA PlainFits ==
    ASSUME NEW d \in Callers, call'[d].at \in Plain
    PROVE  Fits(d)'
BY DEF Plain, Fits, Asking

\* An invocation past the token saves the receipt of its run.
LEMMA SaveOrder ==
    ASSUME Whole, NEW d \in Callers, call[d].at \in Held, Mine(d), NEW k, Kept(k),
           Ended(k, commit[call[d].run]), k.finalized = Here(d).finalized,
           NEW good, NEW bad, Save(d, k, good, bad),
           \A e \in Callers : e # d => good[e] = call[e] /\ bad[e] = call[e],
           bad[d].at \in Plain,
           \/ good[d].at \in Plain
           \/ /\ good[d].at \in Asking /\ good[d].run = call[d].run
              /\ Askable(k, commit[call[d].run]),
           UNCHANGED << commit, budget, lapses >>
    PROVE  Ordered
<1>0. PICK r \in Runs : r = call[d].run
  BY InPlace, HeldNames DEF Whole, Inv
<1>1. Closing
  BY DEF Closing
<1>2. CASE Fails /\ call' = bad /\ UNCHANGED run
  <2>1. Fits(d)'
    BY <1>2, PlainFits
  <2>2. QED
    BY <1>1, <1>2, <2>1, WalkOrder
<1>3. CASE run' = [run EXCEPT ![call[d].run] = k] /\ call' = good /\ UNCHANGED faults
  <2>1. /\ run'[r] = k
        /\ \A q \in Runs : q # r => run'[q] = run[q] /\ commit'[q] = commit[q]
    BY <1>0, <1>3 DEF Whole, Inv, Typed, RunTyped
  <2>2. Fits(d)'
    <3>1. CASE good[d].at \in Plain
      BY <1>3, <3>1, PlainFits
    <3>2. CASE /\ good[d].at \in Asking /\ good[d].run = call[d].run
               /\ Askable(k, commit[call[d].run])
      <4>1. call'[d].at \in Asking /\ call'[d].run = r /\ Askable(run'[r], commit'[r])
        BY <1>0, <1>3, <2>1, <3>2
      <4>2. QED
        BY <4>1 DEF Fits, Here, Asking
    <3>3. QED
      BY <3>1, <3>2
  <2>3. Agree(r)'
    BY <1>0, <2>1 DEF Agree, Whole, Orderly, Here
  <2>4. Steady(r)
    BY <1>0, <2>1 DEF Steady, Stands, NotBegun, Mine, Here
  <2>5. \A e \in Callers : e # d => call[e].at \notin Held /\ call'[e] = call[e]
    BY <1>3, Others
  <2>6. QED
    BY <1>1, <2>1, <2>2, <2>3, <2>4, <2>5, WriteOrder
<1>4. QED
  BY <1>2, <1>3 DEF Save

LEMMA SaveTo ==
    ASSUME Whole, NEW d \in Callers, call[d].at \in Held, Mine(d), NEW k, Kept(k),
           Ended(k, commit[call[d].run]), k.finalized = Here(d).finalized,
           NEW p, Save(d, k, To(d, p), Return(d)),
           p \in Plain \/ (p \in Asking /\ Askable(k, commit[call[d].run])),
           UNCHANGED << commit, budget, lapses >>
    PROVE  Ordered
<1>1. Typed /\ call[d].at # "idle" /\ "release" \in Plain
  BY HeldNames DEF Whole, Inv, Plain
<1>2. /\ To(d, p)[d].at = p /\ To(d, p)[d].run = call[d].run /\ Return(d)[d].at = "release"
      /\ \A e \in Callers : e # d => To(d, p)[e] = call[e] /\ Return(d)[e] = call[e]
  BY <1>1, Placed DEF Return
<1>3. QED
  BY <1>1, <1>2, SaveOrder

\* An invocation moves on, and no receipt or commit is written.
LEMMA MoveOn ==
    ASSUME Whole, NEW d \in Callers, call[d].at # "idle", Closing, UNCHANGED << run, commit >>,
           NEW p, call' = To(d, p),
           p \in Plain \/ (p \in Asking /\ Askable(Here(d), commit[call[d].run]))
    PROVE  Ordered
<1>1. /\ call'[d].at = p /\ call'[d].run = call[d].run
      /\ \A e \in Callers : e # d => call'[e] = call[e]
  BY Placed DEF Whole, Inv
<1>2. Fits(d)'
  <2>1. CASE p \in Plain
    BY <1>1, <2>1, PlainFits
  <2>2. CASE p \in Asking /\ Askable(Here(d), commit[call[d].run])
    BY <1>1, <2>2 DEF Fits, Here, Asking
  <2>3. QED
    BY <2>1, <2>2
<1>3. QED
  BY <1>1, <1>2, WalkOrder

\* An invocation ends or begins, and no receipt or commit is written.
LEMMA Plainly ==
    ASSUME Whole, NEW d \in Callers, Closing, UNCHANGED << run, commit >>,
           NEW c, c.at \in Plain, call' = [call EXCEPT ![d] = c]
    PROVE  Ordered
<1>1. call'[d] = c /\ \A e \in Callers : e # d => call'[e] = call[e]
  BY DEF Whole, Inv, Typed, CallTyped
<1>2. QED
  BY <1>1, PlainFits, WalkOrder

LEMMA FinishedFields ==
    ASSUME NEW k, Record(k), NEW st
    PROVE  LET f == Finished(k, st)
           IN  /\ f.st = st /\ f.round = k.round /\ f.finalized = k.finalized
               /\ f.kind = IF st \in Terminal THEN "none" ELSE k.kind
BY DEF Finished, Record, RunRecord

LEMMA OutcomeFields ==
    ASSUME NEW k, Record(k), NEW out
    PROVE  LET o == Outcome(k, out)
           IN  o.st = k.st /\ o.round = k.round /\ o.finalized = k.finalized /\ o.kind = k.kind
BY DEF Outcome, Record, RunRecord

\* A receipt that says neither completed nor unresolved, with or without answer.
LEMMA FinishOrder ==
    ASSUME Whole, NEW d \in Callers, call[d].at \in Held, Mine(d),
           NEW k, Record(k), k.finalized = Here(d).finalized,
           NEW st \in {"blocked", "failed"},
           Save(d, Finished(k, st), Return(d), Return(d)),
           UNCHANGED << commit, budget, lapses >>
    PROVE  Ordered
<1> DEFINE f == Finished(k, st)
<1>1. f.st = st /\ f.kind = "none" /\ f.finalized = Here(d).finalized
  BY FinishedFields DEF Terminal
<1>2. Kept(f) /\ Ended(f, commit[call[d].run]) /\ "release" \in Plain
  BY <1>1 DEF Kept, Ended, Plain
<1> HIDE DEF f
<1>3. Save(d, f, To(d, "release"), Return(d))
  BY DEF f, Return
<1>4. QED
  BY <1>1, <1>2, <1>3, SaveTo

-----------------------------------------------------------------------------
(* Each action, in the order of ModelRuns. *)

LEMMA StartOrder ==
    ASSUME Whole, NEW d \in Callers, Start(d)
    PROVE  Ordered
<1>1. Closing /\ UNCHANGED << run, commit >> /\ call[d].at # "idle"
  BY DEF Start, Closing, Unbudgeted, Elsewhere
<1>2. \/ call' = [call EXCEPT ![d] = Idle]
      \/ \E p \in {"final", "look"} : call' = To(d, p)
  BY DEF Start
<1>3. Idle.at \in Plain /\ {"final", "look"} \subseteq Plain
  BY DEF Idle, Plain
<1>4. QED
  BY <1>1, <1>2, <1>3, MoveOn, Plainly

LEMMA RevokedOrder ==
    ASSUME Whole, NEW d \in Callers, Revoked(d)
    PROVE  Ordered
<1>1. Closing /\ UNCHANGED << run, commit >> /\ call[d].at # "idle" /\ "release" \in Plain
  BY DEF Revoked, Closing, Unbudgeted, Elsewhere, Plain
<1>2. call' = To(d, "release")
  BY DEF Revoked, Return
<1>3. QED
  BY <1>1, <1>2, MoveOn

LEMMA LookCommitOrder ==
    ASSUME Whole, NEW d \in Callers, LookCommit(d)
    PROVE  Ordered
<1>1. Closing /\ UNCHANGED << run, commit >> /\ call[d].at # "idle" /\ "commit" \in Plain
  BY DEF LookCommit, Looks, Closing, Unbudgeted, Elsewhere, Plain
<1>2. call' = To(d, "commit")
  BY DEF LookCommit
<1>3. QED
  BY <1>1, <1>2, MoveOn

LEMMA HereRecord ==
    ASSUME Whole, NEW d \in Callers, call[d].at # "idle"
    PROVE  Record(Here(d)) /\ Kept(Here(d)) /\ Ended(Here(d), commit[call[d].run])
BY InPlace DEF Whole, Inv, Orderly, Agree, Here

LEMMA LookMovedOrder ==
    ASSUME Whole, NEW d \in Callers, LookMoved(d)
    PROVE  Ordered
<1>1. call[d].at \in Held /\ call[d].at # "idle" /\ Mine(d)
  BY HeldNames DEF LookMoved, Looks
<1>2. Save(d, Finished(Here(d), "blocked"), Return(d), Return(d))
  BY DEF LookMoved
<1>3. UNCHANGED << commit, budget, lapses >>
  BY DEF LookMoved, Unbudgeted, Elsewhere
<1>4. QED
  BY <1>1, <1>2, <1>3, HereRecord, FinishOrder

LEMMA LostOrder ==
    ASSUME Whole, NEW d \in Callers, Lost(d)
    PROVE  Ordered
<1>1. call[d].at \in Held /\ call[d].at # "idle" /\ Mine(d)
  BY HeldNames DEF Lost, Asking
<1>2. Save(d, Finished(Here(d), "blocked"), Return(d), Return(d))
  BY DEF Lost
<1>3. UNCHANGED << commit, budget, lapses >>
  BY DEF Lost, Unbudgeted, Elsewhere
<1>4. QED
  BY <1>1, <1>2, <1>3, HereRecord, FinishOrder

LEMMA RefusedOrder ==
    ASSUME Whole, NEW d \in Callers, Refused(d)
    PROVE  Ordered
<1>1. call[d].at \in Held /\ call[d].at # "idle" /\ Mine(d)
  BY HeldNames DEF Refused
<1>2. Save(d, Finished(Here(d), "blocked"), Return(d), Return(d))
  BY DEF Refused
<1>3. UNCHANGED << commit, budget, lapses >>
  BY DEF Refused, Unbudgeted, Elsewhere
<1>4. QED
  BY <1>1, <1>2, <1>3, HereRecord, FinishOrder

LEMMA LookAnswerOrder ==
    ASSUME Whole, NEW d \in Callers, LookAnswer(d)
    PROVE  Ordered
<1> DEFINE k == Here(d)
           o == Outcome(k, "invalid")
           c == commit[call[d].run]
<1>1. call[d].at \in Held /\ call[d].at # "idle" /\ Mine(d)
  BY HeldNames DEF LookAnswer, Planned, Looks
<1>2. UNCHANGED << commit, budget, lapses >>
  BY DEF LookAnswer, Unbudgeted, Elsewhere
<1>3. Record(k)
  BY <1>1, HereRecord
<1>4. {"look", "commit"} \subseteq Plain
  BY DEF Plain
<1>5. ASSUME NEW st \in {"failed", "blocked"}, Save(d, Finished(k, st), Return(d), Return(d))
      PROVE  Ordered
  BY <1>1, <1>2, <1>3, <1>5, FinishOrder
<1>6. ASSUME NEW m, NEW p \in {"look", "commit"}, Save(d, m, To(d, p), Return(d)),
             m.finalized = k.finalized, m.st \in {"retryable", "ready", "committing"},
             m.kind = "none" \/ m.st = "committing"
      PROVE  Ordered
  <2>1. Kept(m) /\ Ended(m, c)
    BY <1>6 DEF Kept, Answered, Ended
  <2>2. QED
    BY <1>1, <1>2, <1>4, <1>6, <2>1, SaveTo
<1>7. ASSUME Save(d, [o EXCEPT !.st = "retryable", !.kind = "none"], To(d, "look"), Return(d))
      PROVE  Ordered
  <2> DEFINE m == [o EXCEPT !.st = "retryable", !.kind = "none"]
  <2>1. m.st = "retryable" /\ m.kind = "none" /\ m.finalized = k.finalized
    BY <1>3 DEF Record, RunRecord, Outcome
  <2> HIDE DEF m
  <2>2. Save(d, m, To(d, "look"), Return(d))
    BY <1>7 DEF m
  <2>3. QED
    BY <1>6, <2>1, <2>2
<1>8. ASSUME Save(d, [k EXCEPT !.st = "ready", !.stage = "review", !.kind = "none"],
                  To(d, "look"), Return(d))
      PROVE  Ordered
  <2> DEFINE m == [k EXCEPT !.st = "ready", !.stage = "review", !.kind = "none"]
  <2>1. m.st = "ready" /\ m.kind = "none" /\ m.finalized = k.finalized
    BY <1>3 DEF Record, RunRecord
  <2> HIDE DEF m
  <2>2. Save(d, m, To(d, "look"), Return(d))
    BY <1>8 DEF m
  <2>3. QED
    BY <1>6, <2>1, <2>2
<1>9. ASSUME Save(d, [k EXCEPT !.st = "committing"], To(d, "commit"), Return(d))
      PROVE  Ordered
  <2> DEFINE m == [k EXCEPT !.st = "committing"]
  <2>1. m.st = "committing" /\ m.finalized = k.finalized
    BY <1>3 DEF Record, RunRecord
  <2> HIDE DEF m
  <2>2. Save(d, m, To(d, "commit"), Return(d))
    BY <1>9 DEF m
  <2>3. QED
    BY <1>6, <2>1, <2>2
<1>10. \/ \E st \in {"failed", "blocked"} : Save(d, Finished(k, st), Return(d), Return(d))
       \/ Save(d, [o EXCEPT !.st = "retryable", !.kind = "none"], To(d, "look"), Return(d))
       \/ Save(d, [k EXCEPT !.st = "ready", !.stage = "review", !.kind = "none"],
               To(d, "look"), Return(d))
       \/ Save(d, [k EXCEPT !.st = "committing"], To(d, "commit"), Return(d))
  BY Zenon DEF LookAnswer
<1>11. QED
  BY <1>5, <1>7, <1>8, <1>9, <1>10

\* Where a request is wanted there is no answer on file, unless revoked.
LEMMA AskHere ==
    ASSUME Whole, NEW d \in Callers, call[d].at \in Asking
    PROVE  /\ call[d].at \in Held /\ call[d].at # "idle" /\ Record(Here(d))
           /\ Askable(Here(d), commit[call[d].run])
           /\ Mine(d) => /\ Here(d).kind = "none" /\ ~Answered(Here(d))
                         /\ commit[call[d].run][Here(d).round] = "none"
<1>1. call[d].at \in Held /\ call[d].at # "idle"
  BY HeldNames
<1>2. Askable(Here(d), commit[call[d].run])
  BY DEF Whole, Orderly, Fits
<1>3. Record(Here(d)) /\ Kept(Here(d))
  BY <1>1, HereRecord
<1>4. QED
  BY <1>1, <1>2, <1>3 DEF Askable, Kept, Mine, Terminal

LEMMA LookAskOrder ==
    ASSUME Whole, NEW d \in Callers, LookAsk(d)
    PROVE  Ordered
<1>1. call[d].at \in Held /\ call[d].at # "idle" /\ Mine(d)
  BY HeldNames DEF LookAsk, Planned, Looks
<1>2. UNCHANGED << commit, budget, lapses >> /\ Closing
  BY DEF LookAsk, Unbudgeted, Elsewhere, Closing
<1>3. ~Answered(Here(d)) /\ commit[call[d].run][Here(d).round] = "none"
  BY DEF LookAsk, Planned, Written
<1>4. CASE call[d].model
  <2>1. call' = To(d, "check") /\ UNCHANGED run /\ "check" \in Asking
    BY <1>4 DEF LookAsk, Asking
  <2>2. Askable(Here(d), commit[call[d].run])
    BY <1>3 DEF Askable
  <2>3. QED
    BY <1>1, <1>2, <2>1, <2>2, MoveOn
<1>5. CASE ~call[d].model
  <2> DEFINE f == Finished(Here(d), "retryable")
  <2>1. Record(Here(d)) /\ Kept(Here(d)) /\ "release" \in Plain
    BY <1>1, HereRecord DEF Plain
  <2>2. f.st = "retryable" /\ f.kind = Here(d).kind /\ f.finalized = Here(d).finalized
    BY <2>1, FinishedFields DEF Terminal
  <2>3. Here(d).kind = "none"
    BY <1>3, <2>1 DEF Kept
  <2>4. Kept(f) /\ Ended(f, commit[call[d].run])
    BY <2>2, <2>3 DEF Kept, Ended
  <2>5. Save(d, f, To(d, "release"), Return(d))
    BY <1>5 DEF LookAsk, Return
  <2> HIDE DEF f
  <2>6. QED
    BY <1>1, <1>2, <2>1, <2>2, <2>4, <2>5, SaveTo
<1>6. QED
  BY <1>4, <1>5

LEMMA CheckOrder ==
    ASSUME Whole, NEW d \in Callers, Check(d)
    PROVE  Ordered
<1>1. call[d].at \in Asking /\ {"lost", "reserve"} \subseteq Asking
  BY DEF Check, Asking
<1>2. Closing /\ UNCHANGED << run, commit >>
  BY DEF Check, Unbudgeted, Elsewhere, Closing
<1>3. PICK p \in {"lost", "reserve"} : call' = To(d, p)
  BY DEF Check
<1>4. QED
  BY <1>1, <1>2, <1>3, AskHere, MoveOn

LEMMA ReserveOrder ==
    ASSUME Whole, NEW d \in Callers, Reserve(d)
    PROVE  Ordered
<1>1. call[d].at \in Asking /\ {"attach", "lost"} \subseteq Asking /\ "release" \in Plain
  BY DEF Reserve, Asking, Plain
<1>2. UNCHANGED << run, commit >>
  BY DEF Reserve
<1>3. Closing
  <2>1. budget \in BudgetType
    BY DEF Whole, Inv, Typed, Files
  <2>2. \/ UNCHANGED budget
        \/ budget' = [budget EXCEPT ![call[d].run].n = @ + 1]
    BY DEF Reserve
  <2>3. \A r \in Runs : budget'[r].done = budget[r].done
    BY <2>1, <2>2 DEF BudgetType
  <2>4. QED
    BY <2>3 DEF Reserve, Elsewhere, Closing
<1>4. ASSUME NEW p \in {"release", "lost"}, call' = To(d, p) PROVE Ordered
  BY <1>1, <1>2, <1>3, <1>4, AskHere, MoveOn
<1>5. ASSUME NEW n, call' = [call EXCEPT ![d].at = "attach", ![d].n = n] PROVE Ordered
  <2>1. call[d] \in Entry
    BY <1>1, AskHere, InPlace DEF Whole, Inv
  <2>2. call'[d] = [call[d] EXCEPT !.at = "attach", !.n = n]
    BY <1>5 DEF Whole, Inv, Typed, CallTyped
  <2>3. /\ call'[d].at = "attach" /\ call'[d].run = call[d].run
        /\ \A e \in Callers : e # d => call'[e] = call[e]
    BY <1>5, <2>1, <2>2 DEF Entry, Whole, Inv, Typed, CallTyped
  <2>4. Fits(d)'
    BY <1>1, <1>2, <2>3, AskHere DEF Fits, Here
  <2>5. QED
    BY <1>2, <1>3, <2>3, <2>4, WalkOrder
<1>6. QED
  BY <1>4, <1>5 DEF Reserve

LEMMA AttachOrder ==
    ASSUME Whole, NEW d \in Callers, Attach(d)
    PROVE  Ordered
<1> DEFINE k == Here(d)
           c == commit[call[d].run]
           t == Attached(d)
           b == budget[call[d].run].n
<1>1. call[d].at \in Asking /\ Mine(d) /\ "release" \in Plain
  BY DEF Attach, Asking, Plain
<1>2. /\ call[d].at \in Held /\ call[d].at # "idle" /\ Record(k)
      /\ k.kind = "none" /\ c[k.round] = "none"
  BY <1>1, AskHere
<1>3. UNCHANGED << commit, budget, lapses >> /\ Closing
  BY DEF Attach, Unbudgeted, Elsewhere, Closing
<1>4. ASSUME NEW m, m.finalized = k.finalized, m.st \in {"failed", "blocked"},
             m.kind = "none", Save(d, m, Return(d), Return(d))
      PROVE  Ordered
  <2>1. Kept(m) /\ Ended(m, c)
    BY <1>4 DEF Kept, Ended
  <2>2. Save(d, m, To(d, "release"), Return(d))
    BY <1>4 DEF Return
  <2>3. QED
    BY <1>1, <1>2, <1>3, <1>4, <2>1, <2>2, SaveTo
<1>5. ASSUME Exhausted(d) PROVE Ordered
  <2> DEFINE m == [Finished(k, "failed") EXCEPT !.reserved = b]
  <2>1. m.st = "failed" /\ m.kind = "none" /\ m.finalized = k.finalized
    BY <1>2 DEF Finished, Terminal, Record, RunRecord
  <2>2. Save(d, m, Return(d), Return(d))
    BY <1>5 DEF Exhausted
  <2> HIDE DEF m
  <2>3. QED
    BY <1>4, <2>1, <2>2
<1>6. ASSUME call' = Return(d), UNCHANGED run PROVE Ordered
  <2>1. call' = To(d, "release")
    BY <1>6 DEF Return
  <2>2. QED
    BY <1>1, <1>2, <1>3, <1>6, <2>1, MoveOn
<1>7. ASSUME Save(d, Finished(t, "blocked"), Return(d), Return(d)) PROVE Ordered
  <2> DEFINE m == Finished(t, "blocked")
  <2>1. m.st = "blocked" /\ m.kind = "none" /\ m.finalized = k.finalized
    BY <1>2 DEF Finished, Terminal, Record, RunRecord, Attached
  <2> HIDE DEF m
  <2>2. Save(d, m, Return(d), Return(d))
    BY <1>7 DEF m
  <2>3. QED
    BY <1>4, <2>1, <2>2
<1>8. ASSUME Save(d, [t EXCEPT !.st = "dispatching"], To(d, "send"), Return(d))
      PROVE  Ordered
  <2> DEFINE m == [t EXCEPT !.st = "dispatching"]
  <2>1. /\ m.st = "dispatching" /\ m.kind = "none" /\ m.finalized = k.finalized
        /\ m.round = k.round
    BY <1>2 DEF Record, RunRecord, Attached
  <2>2. Save(d, m, To(d, "send"), Return(d))
    BY <1>8
  <2> HIDE DEF m
  <2>3. Kept(m) /\ Ended(m, c) /\ Askable(m, c) /\ "send" \in Asking
    BY <1>2, <2>1 DEF Kept, Ended, Askable, Answered, Asking
  <2>4. QED
    BY <1>1, <1>2, <1>3, <2>1, <2>2, <2>3, SaveTo
<1>9. \/ Exhausted(d)
      \/ call' = Return(d) /\ UNCHANGED run
      \/ Save(d, Finished(t, "blocked"), Return(d), Return(d))
      \/ Save(d, [t EXCEPT !.st = "dispatching"], To(d, "send"), Return(d))
  BY Zenon DEF Attach
<1>10. QED
  BY <1>5, <1>6, <1>7, <1>8, <1>9

LEMMA SendOrder ==
    ASSUME Whole, NEW d \in Callers, Send(d)
    PROVE  Ordered
<1>1. call[d].at \in Asking /\ "call" \in Asking /\ call' = To(d, "call")
  BY DEF Send, Asking
<1>2. Closing /\ UNCHANGED << run, commit >>
  BY DEF Send, Unbudgeted, Elsewhere, Closing
<1>3. QED
  BY <1>1, <1>2, AskHere, MoveOn

\* What an answer finds.
LEMMA ReplyHere ==
    ASSUME Whole, NEW d \in Callers, Replied(d)
    PROVE  /\ call[d].at \in Held /\ call[d].at # "idle" /\ Mine(d)
           /\ Record(Here(d)) /\ Here(d).kind = "none"
           /\ \A out \in Outcomes :
                LET o == Outcome(Here(d), out)
                IN  /\ Record(o) /\ o.kind = "none" /\ o.finalized = Here(d).finalized
                    /\ o.round = Here(d).round
<1>1. call[d].at \in Asking /\ Mine(d)
  BY DEF Replied, Asking
<1>2. /\ call[d].at \in Held /\ call[d].at # "idle" /\ Record(Here(d))
      /\ Here(d).kind = "none"
  BY <1>1, AskHere
<1>3. QED
  BY <1>1, <1>2, OutcomeFields, OutcomeKeeps DEF Keeps

LEMMA AnswerErrorOrder ==
    ASSUME Whole, NEW d \in Callers, AnswerError(d)
    PROVE  Ordered
<1>1. Replied(d) /\ UNCHANGED << commit, budget, lapses >>
  BY DEF AnswerError, Unbudgeted, Elsewhere
<1>2. PICK e \in Outcomes, st \in {"retryable", "failed"} :
          Save(d, Finished(Outcome(Here(d), e), st), Return(d), Return(d))
  BY DEF AnswerError, Outcomes
<1> DEFINE o == Outcome(Here(d), e)
           f == Finished(o, st)
<1>3. Record(o) /\ o.kind = "none" /\ o.finalized = Here(d).finalized
  BY <1>1, ReplyHere
<1>4. Save(d, f, To(d, "release"), Return(d)) /\ "release" \in Plain
  BY <1>2 DEF Return, Plain
<1> HIDE DEF o
<1>5. f.st = st /\ f.kind = "none" /\ f.finalized = Here(d).finalized
  BY <1>3, FinishedFields
<1> HIDE DEF f
<1>6. Kept(f) /\ Ended(f, commit[call[d].run])
  BY <1>5 DEF Kept, Ended
<1>7. QED
  BY <1>1, <1>4, <1>5, <1>6, ReplyHere, SaveTo

LEMMA AnswerUnusableOrder ==
    ASSUME Whole, NEW d \in Callers, AnswerUnusable(d)
    PROVE  Ordered
<1> DEFINE o == Outcome(Here(d), "invalid")
           f == Finished(o, "retryable")
<1>1. Replied(d) /\ UNCHANGED << commit, budget, lapses >>
  BY DEF AnswerUnusable, Unbudgeted, Elsewhere
<1>2. Record(o) /\ o.kind = "none" /\ o.finalized = Here(d).finalized
  BY <1>1, ReplyHere DEF Outcomes
<1>3. \/ Save(d, Finished(o, "failed"), Return(d), Return(d))
      \/ Save(d, f, To(d, "look"), Return(d))
  BY DEF AnswerUnusable
<1> HIDE DEF o
<1>4. ASSUME Save(d, Finished(o, "failed"), Return(d), Return(d)) PROVE Ordered
  BY <1>1, <1>2, <1>4, ReplyHere, FinishOrder
<1>5. ASSUME Save(d, f, To(d, "look"), Return(d)) PROVE Ordered
  <2>1. f.st = "retryable" /\ f.kind = "none" /\ f.finalized = Here(d).finalized
    BY <1>2, FinishedFields DEF Terminal
  <2> HIDE DEF f
  <2>2. Kept(f) /\ Ended(f, commit[call[d].run]) /\ "look" \in Plain
    BY <2>1 DEF Kept, Ended, Plain
  <2>3. QED
    BY <1>1, <1>5, <2>1, <2>2, ReplyHere, SaveTo
<1>6. QED
  BY <1>3, <1>4, <1>5

\* An answer that came is kept.
LEMMA KeepOrder ==
    ASSUME Whole, NEW d \in Callers, Replied(d), UNCHANGED << commit, budget, lapses >>,
           NEW m, m.st = "response_ready", m.finalized = Here(d).finalized,
           Save(d, m, To(d, "look"), Return(d))
    PROVE  Ordered
<1>1. Kept(m) /\ Ended(m, commit[call[d].run]) /\ "look" \in Plain
  BY DEF Kept, Answered, Ended, Plain
<1>2. QED
  BY <1>1, ReplyHere, SaveTo

LEMMA AnswerOrder ==
    ASSUME Whole, NEW d \in Callers, Answer(d)
    PROVE  Ordered
<1> DEFINE o == Outcome(Here(d), "response")
           R(a) == [o EXCEPT !.st = "response_ready", !.kind = a]
<1>1. Replied(d) /\ UNCHANGED << commit, budget, lapses >>
  BY DEF Answer, Unbudgeted, Elsewhere
<1>2. PICK a \in Answers : Save(d, R(a), To(d, "look"), Return(d))
  BY DEF Answer
<1>3. Record(o) /\ o.finalized = Here(d).finalized
  BY <1>1, ReplyHere DEF Outcomes
<1> HIDE DEF o
<1>4. R(a).st = "response_ready" /\ R(a).finalized = Here(d).finalized
  BY <1>3 DEF Record, RunRecord
<1> HIDE DEF R
<1>5. QED
  BY <1>1, <1>2, <1>4, KeepOrder

LEMMA AnswerReviewOrder ==
    ASSUME Whole, NEW d \in Callers, AnswerReview(d)
    PROVE  Ordered
<1> DEFINE o == Outcome(Here(d), "response")
           i == Outcome(Here(d), "invalid")
           R(a) == [o EXCEPT !.st = "response_ready", !.stage = "reviewed", !.kind = a]
<1>1. Replied(d) /\ UNCHANGED << commit, budget, lapses >>
  BY DEF AnswerReview, Unbudgeted, Elsewhere
<1>2. /\ Record(o) /\ o.finalized = Here(d).finalized
      /\ Record(i) /\ i.finalized = Here(d).finalized
  BY <1>1, ReplyHere DEF Outcomes
<1>3. \/ \E a \in {"good", "junk"} : Save(d, R(a), To(d, "look"), Return(d))
      \/ Save(d, Finished(i, "failed"), Return(d), Return(d))
  BY DEF AnswerReview
<1> HIDE DEF o, i
<1>4. \A a : R(a).st = "response_ready" /\ R(a).finalized = Here(d).finalized
  BY <1>2 DEF Record, RunRecord
<1> HIDE DEF R
<1>5. ASSUME NEW a, Save(d, R(a), To(d, "look"), Return(d)) PROVE Ordered
  BY <1>1, <1>4, <1>5, KeepOrder
<1>6. ASSUME Save(d, Finished(i, "failed"), Return(d), Return(d)) PROVE Ordered
  BY <1>1, <1>2, <1>6, ReplyHere, FinishOrder
<1>7. QED
  BY <1>3, <1>5, <1>6

LEMMA ReceiptAt ==
    ASSUME Whole, NEW r \in Runs, NEW c
    PROVE  /\ Receipt(r, c)[r][run[r].round] = c
           /\ \A q \in Runs : q # r => Receipt(r, c)[q] = commit[q]
<1>1. commit \in CommitType /\ run[r].round \in Rounds
  BY DEF Whole, Inv, Typed, Files, RunTyped, Record, RunRecord
<1>2. QED
  BY <1>1 DEF Receipt, CommitType

LEMMA CommitOrder ==
    ASSUME Whole, NEW d \in Callers, Commit(d)
    PROVE  Ordered
<1>0. call[d].at \in Held /\ call[d].at # "idle"
  BY HeldNames DEF Commit
<1>1. PICK r \in Runs : r = call[d].run
  BY <1>0, InPlace DEF Whole, Inv
<1>2. Closing /\ UNCHANGED << run, lapses >> /\ {"refused", "release"} \subseteq Plain
  BY DEF Commit, Closing, Plain
<1>3. ASSUME NEW e, call' = [call EXCEPT ![d].at = "settle", ![d].got = e]
      PROVE  /\ call'[d].at = "settle" /\ call'[d].run = r
             /\ \A f \in Callers : f # d => call'[f] = call[f]
  <2>1. call[d] \in Entry
    BY <1>0, InPlace DEF Whole, Inv
  <2>2. call'[d] = [call[d] EXCEPT !.at = "settle", !.got = e]
    BY <1>3 DEF Whole, Inv, Typed, CallTyped
  <2>3. QED
    BY <1>1, <1>3, <2>1, <2>2 DEF Entry, Whole, Inv, Typed, CallTyped
<1>4. CASE UNCHANGED commit /\ call' \in {To(d, "refused"), Return(d)}
  <2>1. \E p \in {"refused", "release"} : call' = To(d, p)
    BY <1>4 DEF Return
  <2>2. QED
    BY <1>0, <1>2, <1>4, <2>1, MoveOn
<1>5. CASE /\ Written(d) \in Ends /\ UNCHANGED commit
           /\ call' = [call EXCEPT ![d].at = "settle", ![d].got = Written(d)]
  <2>1. /\ call'[d].at = "settle" /\ call'[d].run = r
        /\ \A f \in Callers : f # d => call'[f] = call[f]
    BY <1>3, <1>5
  <2>2. Fits(d)'
    BY <1>1, <1>2, <1>5, <2>1 DEF Fits, Written, Here, Asking
  <2>3. QED
    BY <1>2, <1>5, <2>1, <2>2, WalkOrder
<1>6. ASSUME NEW c, commit' = Receipt(r, c), ~Stale(d),
             \A f \in Callers : f # d => call'[f] = call[f],
             \/ call'[d].at \in Plain
             \/ call'[d].at = "settle" /\ call'[d].run = r /\ c \in Ends
      PROVE  Ordered
  <2>1. /\ commit'[r][run[r].round] = c
        /\ \A q \in Runs : q # r => run'[q] = run[q] /\ commit'[q] = commit[q]
    BY <1>2, <1>6, ReceiptAt
  <2>2. run[r].st \notin Terminal /\ run'[r] = run[r]
    BY <1>1, <1>2, <1>6 DEF Stale, Mine, Here
  <2>3. Fits(d)'
    <3>1. CASE call'[d].at \in Plain
      BY <3>1, PlainFits
    <3>2. CASE call'[d].at = "settle" /\ call'[d].run = r /\ c \in Ends
      BY <2>1, <2>2, <3>2 DEF Fits, Written, Here, Asking
    <3>3. QED
      BY <1>6, <3>1, <3>2
  <2>4. Agree(r)'
    <3>1. Agree(r)
      BY DEF Whole, Orderly
    <3>2. QED
      BY <2>2, <3>1, <1>2 DEF Agree, Ended, Terminal, Closing
  <2>5. Steady(r)
    BY <2>2 DEF Steady, Stands, NotBegun, Terminal
  <2>6. \A f \in Callers : f # d => call[f].at \notin Held /\ call'[f] = call[f]
    BY <1>0, <1>6, Others
  <2>7. QED
    BY <1>2, <2>1, <2>3, <2>4, <2>5, <2>6, WriteOrder
<1>7. ASSUME NEW e \in Ends, ~Stale(d), commit' = Receipt(r, e),
             call' = [call EXCEPT ![d].at = "settle", ![d].got = e]
      PROVE  Ordered
  <2>1. /\ call'[d].at = "settle" /\ call'[d].run = r
        /\ \A f \in Callers : f # d => call'[f] = call[f]
    BY <1>3, <1>7
  <2>2. QED
    BY <1>6, <1>7, <2>1
<1>8. ASSUME ~Stale(d), commit' = Receipt(r, "open"), call' = Return(d)
      PROVE  Ordered
  <2>1. call'[d].at \in Plain /\ \A f \in Callers : f # d => call'[f] = call[f]
    BY <1>0, <1>2, <1>8, Placed DEF Return, Whole, Inv
  <2>2. QED
    BY <1>6, <1>8, <2>1
<1>9. QED
  BY <1>1, <1>4, <1>5, <1>7, <1>8 DEF Commit, EndsOf, Ends

LEMMA SettleOrder ==
    ASSUME Whole, NEW d \in Callers, Settle(d)
    PROVE  Ordered
<1> DEFINE whole == call[d].got = "whole"
           good == [Return(d) EXCEPT ![d].done = whole]
<1>1. call[d].at \in Held /\ call[d].at # "idle" /\ Mine(d)
  BY HeldNames DEF Settle
<1>2. UNCHANGED << commit, budget, lapses >> /\ "release" \in Plain
  BY DEF Settle, Unbudgeted, Elsewhere, Plain
<1>3. PICK st \in {"completed", "unresolved"} :
          Save(d, Finished(Here(d), st), good, Return(d))
  BY DEF Settle
<1> DEFINE f == Finished(Here(d), st)
<1>4. Record(Here(d)) /\ Written(d) \in Ends
  BY <1>1, HereRecord DEF Whole, Orderly, Fits, Settle
<1>5. /\ f.st = st /\ f.kind = "none" /\ f.finalized = Here(d).finalized
      /\ f.round = Here(d).round
  BY <1>4, FinishedFields DEF Terminal
<1>6. Kept(f) /\ Ended(f, commit[call[d].run])
  BY <1>4, <1>5 DEF Kept, Ended, Written
<1>7. /\ Return(d)[d].at = "release" /\ \A e \in Callers : e # d => Return(d)[e] = call[e]
  BY <1>1, Placed DEF Return, Whole, Inv
<1>8. DOMAIN Return(d) = Callers /\ Return(d)[d] \in Entry
  <2>1. Return(d)[d] = [call[d] EXCEPT !.at = "release"] /\ DOMAIN Return(d) = Callers
    BY DEF Return, To, Whole, Inv, Typed, CallTyped
  <2>2. call[d] \in Entry /\ "release" \in Places
    BY <1>1, InPlace DEF Whole, Inv, Places
  <2>3. QED
    BY <2>1, <2>2 DEF Entry
<1>9. good[d].at = "release" /\ \A e \in Callers : e # d => good[e] = call[e]
  BY <1>7, <1>8 DEF Entry
<1> HIDE DEF f, good
<1>10. Save(d, f, good, Return(d))
  BY <1>3 DEF f
<1>11. QED
  BY <1>1, <1>2, <1>5, <1>6, <1>7, <1>9, <1>10, SaveOrder

LEMMA ReleaseOrder ==
    ASSUME Whole, NEW d \in Callers, Release(d)
    PROVE  Ordered
<1>1. call[d].at # "idle" /\ Closing /\ UNCHANGED << run, commit >>
  BY DEF Release, Closing, Unbudgeted, Elsewhere
<1>2. "final" \in Plain /\ Idle.at \in Plain
  BY DEF Plain, Idle
<1>3. call' = To(d, "final") \/ call' = [call EXCEPT ![d] = Idle]
  BY DEF Release, After
<1>4. QED
  BY <1>1, <1>2, <1>3, MoveOn, Plainly

LEMMA FinalOrder ==
    ASSUME Whole, NEW d \in Callers, Final(d)
    PROVE  Ordered
<1>1. call[d].at # "idle" /\ UNCHANGED << run, commit >> /\ Idle.at \in Plain
  BY DEF Final, Idle, Plain
<1>2. PICK r \in Runs : r = call[d].run
  BY <1>1, InPlace DEF Whole, Inv
<1>3. CASE UNCHANGED budget /\ call' = [call EXCEPT ![d] = Idle]
  <2>1. Closing
    BY <1>3 DEF Final, Elsewhere, Closing
  <2>2. QED
    BY <1>1, <1>3, <2>1, Plainly
<1>4. CASE budget' = [budget EXCEPT ![call[d].run].done = TRUE] /\ call' = To(d, "seal")
  <2>1. budget'[r].done /\ \A q \in Runs : budget[q].done => budget'[q].done
    BY <1>2, <1>4 DEF Whole, Inv, Typed, Files, BudgetType
  <2>2. Closing
    BY <2>1 DEF Final, Elsewhere, Closing
  <2>3. /\ call'[d].at = "seal" /\ call'[d].run = r
        /\ \A e \in Callers : e # d => call'[e] = call[e]
    BY <1>1, <1>2, <1>4, Placed DEF Whole, Inv
  <2>4. Fits(d)'
    BY <2>1, <2>3 DEF Fits, Asking
  <2>5. QED
    BY <1>1, <2>2, <2>3, <2>4, WalkOrder
<1>5. QED
  BY <1>3, <1>4 DEF Final

LEMMA SealOrder ==
    ASSUME Whole, NEW d \in Callers, Seal(d)
    PROVE  Ordered
<1>1. /\ call[d].at # "idle" /\ Idle.at \in Plain /\ Closing
      /\ UNCHANGED << commit, budget, lapses >>
  BY DEF Seal, Idle, Plain, Closing, Unbudgeted, Elsewhere
<1>2. PICK r \in Runs : r = call[d].run
  BY <1>1, InPlace DEF Whole, Inv
<1>3. CASE UNCHANGED run /\ call' = [call EXCEPT ![d] = Idle]
  BY <1>1, <1>3, Plainly
<1>4. CASE /\ Here(d).st = "completed" /\ call' = [call EXCEPT ![d] = Idle]
           /\ run' = [run EXCEPT ![call[d].run] = [Here(d) EXCEPT !.finalized = TRUE]]
  <2>1. /\ run[r].st = "completed" /\ run'[r] = [run[r] EXCEPT !.finalized = TRUE]
        /\ \A q \in Runs : q # r => run'[q] = run[q]
    BY <1>2, <1>4 DEF Here, Whole, Inv, Typed, RunTyped
  <2>2. \A q \in Runs : /\ run'[q].st = run[q].st /\ run'[q].round = run[q].round
                        /\ run'[q].kind = run[q].kind
    BY <2>1 DEF Whole, Inv, Typed, RunTyped, Record, RunRecord
  <2>3. call'[d] = Idle /\ \A e \in Callers : e # d => call'[e] = call[e]
    BY <1>4 DEF Whole, Inv, Typed, CallTyped
  <2>4. ASSUME NEW e \in Callers PROVE Fits(e)'
    <3>1. CASE e = d
      BY <1>1, <2>3, <3>1, PlainFits
    <3>2. CASE e # d /\ call[e].at # "idle"
      <4>1. Fits(e) /\ call[e].run \in Runs
        BY <3>2, InPlace DEF Whole, Orderly, Inv
      <4>2. call'[e] = call[e]
        BY <2>3, <3>2
      <4>3. QED
        BY <1>1, <2>2, <4>1, <4>2 DEF Fits, Here, Written, Askable, Answered
    <3>3. CASE e # d /\ call[e].at = "idle"
      BY <2>3, <3>3, PlainFits DEF Plain
    <3>4. QED
      BY <3>1, <3>2, <3>3
  <2>5. ASSUME NEW q \in Runs PROVE Agree(q)' /\ Steady(q)
    <3>1. Agree(q)
      BY DEF Whole, Orderly
    <3>2. lapses = 0 => budget[r].done
      BY <1>2 DEF Seal, Whole, Orderly, Fits
    <3>3. Agree(q)'
      BY <1>1, <2>1, <2>2, <3>1, <3>2 DEF Agree, Kept, Ended, Answered
    <3>4. Steady(q)
      BY <1>1, <2>1 DEF Steady, Stands, NotBegun
    <3>5. QED
      BY <3>3, <3>4
  <2>6. QED
    BY <2>4, <2>5 DEF Ordered, Orderly
<1>5. QED
  BY <1>3, <1>4 DEF Seal, Save

LEMMA ResumeOrder ==
    ASSUME Whole, NEW d \in Callers, NEW r \in Runs, NEW m \in BOOLEAN, Resume(d, r, m)
    PROVE  Ordered
<1>1. Closing /\ UNCHANGED << run, commit >> /\ Enter(r, m, "start").at \in Plain
  BY DEF Resume, Closing, Unbudgeted, Elsewhere, Enter, Plain
<1>2. call' = [call EXCEPT ![d] = Enter(r, m, "start")]
  BY DEF Resume
<1>3. QED
  BY <1>1, <1>2, Plainly

\* A run is begun, or armed once more, while nobody is past the token.
LEMMA BeginOrder ==
    ASSUME Whole, NEW d \in Callers, NEW r \in Runs, NEW m \in BOOLEAN, ~Live(d),
           NEW k, Kept(k), Ended(k, commit[r]), k.finalized => run[r].finalized,
           Stands(run[r], k), UNCHANGED << commit, budget, lapses >>,
           \/ UNCHANGED << run, call >>
           \/ run' = [run EXCEPT ![r] = k] /\ call' = [call EXCEPT ![d] = Enter(r, m, "start")]
    PROVE  Ordered
<1>1. Closing
  BY DEF Closing
<1>2. CASE UNCHANGED << run, call >>
  BY <1>1, <1>2, WalkOrder
<1>3. CASE run' = [run EXCEPT ![r] = k] /\ call' = [call EXCEPT ![d] = Enter(r, m, "start")]
  <2>1. /\ run'[r] = k
        /\ \A q \in Runs : q # r => run'[q] = run[q] /\ commit'[q] = commit[q]
    BY <1>3 DEF Whole, Inv, Typed, RunTyped
  <2>2. /\ call'[d] = Enter(r, m, "start")
        /\ \A e \in Callers : e # d => call[e].at \notin Held /\ call'[e] = call[e]
    BY <1>3, NobodyHeld DEF Whole, Inv, Typed, CallTyped
  <2>3. Fits(d)'
    BY <2>2, PlainFits DEF Enter, Plain
  <2>4. Agree(r)' /\ Steady(r)
    BY <2>1 DEF Agree, Whole, Orderly, Steady, NotBegun
  <2>5. QED
    BY <1>1, <2>1, <2>2, <2>3, <2>4, WriteOrder
<1>4. QED
  BY <1>2, <1>3

LEMMA PrepareOrder ==
    ASSUME Whole, NEW d \in Callers, NEW r \in Runs, NEW m \in BOOLEAN, Prepare(d, r, m)
    PROVE  Ordered
<1> DEFINE k == [run[r] EXCEPT !.st = "ready"]
<1>1. Record(run[r]) /\ Kept(run[r]) /\ run[r].st = "absent" /\ ~Live(d)
  BY DEF Prepare, Whole, Orderly, Agree, Inv, Typed, RunTyped
<1>2. k.st = "ready" /\ k.kind = "none" /\ k.finalized = run[r].finalized
  BY <1>1 DEF Record, RunRecord, Kept, Answered
<1>3. Kept(k) /\ Ended(k, commit[r]) /\ Stands(run[r], k)
  BY <1>1, <1>2 DEF Kept, Ended, Stands, Terminal
<1>4. \/ UNCHANGED << run, call >>
      \/ run' = [run EXCEPT ![r] = k] /\ call' = [call EXCEPT ![d] = Enter(r, m, "start")]
  BY DEF Prepare
<1>5. UNCHANGED << commit, budget, lapses >>
  BY DEF Prepare, Unbudgeted, Elsewhere
<1> HIDE DEF k
<1>6. QED
  BY <1>1, <1>2, <1>3, <1>4, <1>5, BeginOrder

LEMMA ArmOrder ==
    ASSUME Whole, NEW d \in Callers, NEW r \in Runs, NEW m \in BOOLEAN, Free(d, r),
           NEW k, Kept(k), Ended(k, commit[r]), k.finalized => run[r].finalized,
           Stands(run[r], k), Arm(d, r, m, k)
    PROVE  Ordered
<1>1. UNCHANGED << commit, budget, lapses >> /\ ~Live(d)
  BY DEF Arm, Unbudgeted, Free
<1>2. \/ UNCHANGED << run, call >>
      \/ run' = [run EXCEPT ![r] = k] /\ call' = [call EXCEPT ![d] = Enter(r, m, "start")]
  BY DEF Arm
<1>3. QED
  BY <1>1, <1>2, BeginOrder

LEMMA RecoverFailedOrder ==
    ASSUME Whole, NEW d \in Callers, NEW r \in Runs, NEW m \in BOOLEAN, RecoverFailed(d, r, m)
    PROVE  Ordered
<1> DEFINE k == Rescued(run[r])
<1>1. Record(run[r]) /\ Kept(run[r]) /\ run[r].st = "failed" /\ ~run[r].rescued
  BY DEF RecoverFailed, Whole, Orderly, Agree, Inv, Typed, RunTyped
<1>2. k.st = "ready" /\ k.kind = "none" /\ k.rescued /\ k.finalized = run[r].finalized
  BY <1>1 DEF Rescued, Record, RunRecord, Kept, Answered
<1>3. Kept(k) /\ Ended(k, commit[r]) /\ Stands(run[r], k)
  BY <1>1, <1>2 DEF Kept, Ended, Stands
<1>4. Free(d, r) /\ Arm(d, r, m, k)
  BY DEF RecoverFailed
<1> HIDE DEF k
<1>5. QED
  BY <1>2, <1>3, <1>4, ArmOrder

LEMMA RepairOrder ==
    ASSUME Whole, NEW d \in Callers, NEW r \in Runs, Repair(d, r)
    PROVE  Ordered
<1> DEFINE k == [run[r] EXCEPT !.st = "response_ready", !.kind = "good",
                               !.round = 2, !.mode = "repair"]
<1>1. Record(run[r]) /\ run[r].st = "unresolved" /\ run[r].round = 1
  BY DEF Repair, Partial, Whole, Inv, Typed, RunTyped
<1>2. k.st = "response_ready" /\ k.round = 2 /\ k.finalized = run[r].finalized
  BY <1>1 DEF Record, RunRecord
<1>3. Kept(k) /\ Ended(k, commit[r]) /\ Stands(run[r], k)
  BY <1>1, <1>2 DEF Kept, Answered, Ended, Stands
<1>4. Free(d, r) /\ Arm(d, r, FALSE, k)
  BY DEF Repair, Partial
<1> HIDE DEF k
<1>5. QED
  BY <1>2, <1>3, <1>4, ArmOrder

LEMMA ReplanOrder ==
    ASSUME Whole, NEW d \in Callers, NEW r \in Runs, Replan(d, r)
    PROVE  Ordered
<1> DEFINE k == [run[r] EXCEPT !.st = "ready", !.stage = "none",
                               !.round = 2, !.mode = "replan"]
<1>1. Record(run[r]) /\ Kept(run[r]) /\ run[r].st = "unresolved" /\ run[r].round = 1
  BY DEF Replan, Partial, Whole, Orderly, Agree, Inv, Typed, RunTyped
<1>2. /\ k.st = "ready" /\ k.kind = "none" /\ k.round = 2
      /\ k.finalized = run[r].finalized
  BY <1>1 DEF Record, RunRecord, Kept, Answered
<1>3. Kept(k) /\ Ended(k, commit[r]) /\ Stands(run[r], k)
  BY <1>1, <1>2 DEF Kept, Ended, Stands
<1>4. Free(d, r) /\ Arm(d, r, TRUE, k)
  BY DEF Replan, Partial
<1> HIDE DEF k
<1>5. QED
  BY <1>2, <1>3, <1>4, ArmOrder

LEMMA TendOrder ==
    ASSUME Whole, NEW d \in Callers, NEW r \in Runs, Tend(d, r)
    PROVE  Ordered
<1>1. UNCHANGED << run, commit, lapses >> /\ Enter(r, TRUE, "tend").at \in Plain
  BY DEF Tend, Elsewhere, Enter, Plain
<1>2. Closing
  <2>1. budget \in BudgetType
    BY DEF Whole, Inv, Typed, Files
  <2>2. budget' = budget \/ budget' = [budget EXCEPT ![r] = Tended(budget[r])]
    BY DEF Tend
  <2>3. Tended(budget[r]).done = budget[r].done
    BY <2>1 DEF BudgetType, Tended
  <2>4. \A q \in Runs : budget'[q].done = budget[q].done
    BY <2>1, <2>2, <2>3 DEF BudgetType
  <2>5. QED
    BY <1>1, <2>4 DEF Closing
<1>3. CASE call' = [call EXCEPT ![d] = Enter(r, TRUE, "tend")]
  BY <1>1, <1>2, <1>3, Plainly
<1>4. CASE UNCHANGED call
  BY <1>1, <1>2, <1>4, WalkOrder
<1>5. QED
  BY <1>3, <1>4 DEF Tend

LEMMA TendSendOrder ==
    ASSUME Whole, NEW d \in Callers, TendSend(d)
    PROVE  Ordered
<1>1. /\ call[d].at # "idle" /\ Closing /\ UNCHANGED << run, commit >>
      /\ "tending" \in Plain /\ call' = To(d, "tending")
  BY DEF TendSend, Closing, Unbudgeted, Elsewhere, Plain
<1>2. QED
  BY <1>1, MoveOn

LEMMA TendReturnOrder ==
    ASSUME Whole, NEW d \in Callers, TendReturn(d)
    PROVE  Ordered
<1>1. /\ call[d].at # "idle" /\ Closing /\ UNCHANGED << run, commit >>
      /\ "release" \in Plain /\ call' = To(d, "release")
  BY DEF TendReturn, Closing, Unbudgeted, Elsewhere, Plain, Return
<1>2. QED
  BY <1>1, MoveOn

-----------------------------------------------------------------------------
(* What others do. *)

\* The commits of one run are cut or settled, and it may be revoked.
LEMMA OthersOrder ==
    ASSUME Whole, NEW r \in Runs, UNCHANGED << call, budget, lapses >>,
           run' = run \/ run' = [run EXCEPT ![r] = Cancelled(@)],
           \A q \in Runs : q # r => commit'[q] = commit[q],
           \A j \in Rounds : /\ commit[r][j] = "none" => commit'[r][j] = "none"
                             /\ commit[r][j] \in Ends => commit'[r][j] \in Ends
    PROVE  Ordered
<1> DEFINE k == run[r]
<1>1. Record(k) /\ k.round \in Rounds
  BY DEF Whole, Inv, Typed, RunTyped, Record, RunRecord
<1>2. /\ Cancelled(k).st = "cancelled" /\ Cancelled(k).kind = "none"
      /\ Cancelled(k).round = k.round /\ Cancelled(k).finalized = k.finalized
  BY <1>1 DEF Cancelled, Finished, Terminal, Record, RunRecord
<1>3. /\ run'[r] \in {k, Cancelled(k)}
      /\ \A q \in Runs : q # r => run'[q] = run[q]
  BY DEF Whole, Inv, Typed, RunTyped
<1>4. ASSUME NEW e \in Callers PROVE Fits(e)'
  <2>1. CASE call[e].at = "idle"
    BY <2>1, PlainFits DEF Plain
  <2>2. CASE call[e].at # "idle" /\ call[e].run # r
    <3>1. Fits(e) /\ call[e].run \in Runs
      BY <2>2, InPlace DEF Whole, Orderly, Inv
    <3>2. QED
      BY <1>3, <2>2, <3>1 DEF Fits, Here, Written
  <2>3. CASE call[e].run = r
    <3>1. Fits(e)
      BY DEF Whole, Orderly
    <3>2. /\ call[e].at \in Asking => Askable(k, commit[r])
          /\ call[e].at = "settle" => commit[r][k.round] \in Ends
          /\ call[e].at = "seal" /\ lapses = 0 => budget[r].done
      BY <2>3, <3>1 DEF Fits, Here, Written
    <3>3. run'[r].round = k.round
      BY <1>2, <1>3
    <3>4. call[e].at \in Asking => Askable(run'[r], commit'[r])
      <4>1. Askable(k, commit[r]) => Askable(k, commit'[r])
        BY <1>1 DEF Askable
      <4>2. Askable(Cancelled(k), commit'[r])
        BY <1>2 DEF Askable
      <4>3. QED
        BY <1>3, <3>2, <4>1, <4>2
    <3>5. call[e].at = "settle" => commit'[r][run'[r].round] \in Ends
      BY <1>1, <3>2, <3>3
    <3>6. QED
      BY <2>3, <3>2, <3>4, <3>5 DEF Fits, Here, Written
  <2>4. QED
    BY <2>1, <2>2, <2>3
<1>5. ASSUME NEW q \in Runs, q # r PROVE Agree(q)' /\ Steady(q)
  <2>1. Agree(q) /\ run'[q] = run[q] /\ commit'[q] = commit[q]
    BY <1>3, <1>5 DEF Whole, Orderly
  <2>2. QED
    BY <2>1 DEF Agree, Steady, Stands, NotBegun
<1>6. Agree(r)' /\ Steady(r)
  <2>1. Kept(k) /\ Ended(k, commit[r]) /\ (k.finalized /\ lapses = 0 => budget[r].done)
    BY DEF Whole, Orderly, Agree
  <2>2. Kept(run'[r]) /\ run'[r].finalized = k.finalized
    BY <1>2, <1>3, <2>1 DEF Kept
  <2>3. Ended(run'[r], commit'[r])
    BY <1>1, <1>2, <1>3, <2>1 DEF Ended
  <2>4. Stands(k, run'[r]) /\ NotBegun(k, commit[r], commit'[r])
    BY <1>3 DEF Stands, NotBegun
  <2>5. QED
    BY <2>1, <2>2, <2>3, <2>4 DEF Agree, Steady
<1>7. QED
  BY <1>4, <1>5, <1>6 DEF Ordered, Orderly

LEMMA ForgetOrder ==
    ASSUME Whole, NEW r \in Runs, Forget(r)
    PROVE  Ordered
<1>1. PICK c \in Cuts(r) : commit' = [commit EXCEPT ![r] = c]
  BY DEF Forget
<1>2. \A j \in Rounds : c[j] \in CutOf(commit[r][j])
  BY DEF Cuts
<1>3. /\ commit'[r] = c
      /\ \A q \in Runs : q # r => commit'[q] = commit[q]
  BY <1>1 DEF Whole, Inv, Typed, Files, CommitType
<1>4. \A j \in Rounds : /\ commit[r][j] = "none" => commit'[r][j] = "none"
                        /\ commit[r][j] \in Ends => commit'[r][j] \in Ends
  BY <1>2, <1>3 DEF CutOf, Ends
<1>5. UNCHANGED << call, budget, lapses >>
  BY DEF Forget, Elsewhere
<1>6. run' = run \/ run' = [run EXCEPT ![r] = Cancelled(@)]
  BY DEF Forget
<1>7. QED
  BY <1>3, <1>4, <1>5, <1>6, OthersOrder

LEMMA SettleWorkOrder ==
    ASSUME Whole, NEW r \in Runs, NEW k \in Rounds, SettleWork(r, k)
    PROVE  Ordered
<1>1. PICK e \in EndsOf(commit[r][k]) : commit' = [commit EXCEPT ![r][k] = e]
  BY DEF SettleWork
<1>2. commit[r][k] \in {"open", "cut"} /\ UNCHANGED << run, call, budget, lapses >>
  BY DEF SettleWork
<1>3. /\ \A q \in Runs : q # r => commit'[q] = commit[q]
      /\ \A j \in Rounds : commit'[r][j] = IF j = k THEN e ELSE commit[r][j]
  BY <1>1 DEF Whole, Inv, Typed, Files, CommitType
<1>4. \A j \in Rounds : /\ commit[r][j] = "none" => commit'[r][j] = "none"
                        /\ commit[r][j] \in Ends => commit'[r][j] \in Ends
  BY <1>2, <1>3 DEF Ends
<1>5. QED
  BY <1>2, <1>3, <1>4, OthersOrder

LEMMA ElseOrder ==
    ASSUME Whole, \/ \E r \in Runs : Move(r) \/ Restore(r)
                  \/ \E p \in Procs : Kill(p)
                  \/ UNCHANGED vars
    PROVE  Ordered
<1>1. ASSUME NEW r \in Runs, Move(r) PROVE Ordered
  BY <1>1, WalkOrder DEF Move, Closing
<1>2. ASSUME NEW r \in Runs, Restore(r) PROVE Ordered
  <2>1. lapses' # 0
    BY <1>2 DEF Restore, Whole, Inv, Typed, Bounds
  <2>2. QED
    BY <1>2, <2>1, WalkOrder DEF Restore, Closing
<1>3. ASSUME NEW p \in Procs, Kill(p) PROVE Ordered
  <2>1. \A e \in Callers : call'[e] = call[e] \/ call'[e] = Idle
    BY <1>3 DEF Kill
  <2>2. \A e \in Callers : call'[e] = Idle => Fits(e)'
    BY PlainFits DEF Idle, Plain
  <2>3. QED
    BY <1>3, <2>1, <2>2, WalkOrder DEF Kill, Closing
<1>4. ASSUME UNCHANGED vars PROVE Ordered
  BY <1>4, WalkOrder DEF vars, Closing
<1>5. QED
  BY <1>1, <1>2, <1>3, <1>4

-----------------------------------------------------------------------------
(* Any step, and what follows. *)

LEMMA DriveOrder ==
    ASSUME Whole, NEW d \in Callers, Drive(d)
    PROVE  Ordered
<1>1. CASE \/ Start(d) \/ Revoked(d) \/ LookCommit(d) \/ LookMoved(d) \/ LookAnswer(d)
           \/ LookAsk(d)
  BY <1>1, StartOrder, RevokedOrder, LookCommitOrder, LookMovedOrder, LookAnswerOrder,
     LookAskOrder
<1>2. CASE Check(d) \/ Lost(d) \/ Reserve(d) \/ Attach(d) \/ Send(d)
  BY <1>2, CheckOrder, LostOrder, ReserveOrder, AttachOrder, SendOrder
<1>3. CASE AnswerError(d) \/ AnswerUnusable(d) \/ Answer(d) \/ AnswerReview(d)
  BY <1>3, AnswerErrorOrder, AnswerUnusableOrder, AnswerOrder, AnswerReviewOrder
<1>4. CASE Commit(d) \/ Refused(d) \/ Settle(d) \/ Release(d) \/ Final(d) \/ Seal(d)
  BY <1>4, CommitOrder, RefusedOrder, SettleOrder, ReleaseOrder, FinalOrder, SealOrder
<1>5. CASE TendSend(d) \/ TendReturn(d)
  BY <1>5, TendSendOrder, TendReturnOrder
<1>6. QED
  BY <1>1, <1>2, <1>3, <1>4, <1>5 DEF Drive

LEMMA InvokeOrder ==
    ASSUME Whole, NEW d \in Callers, NEW r \in Runs, Invoke(d, r)
    PROVE  Ordered
BY PrepareOrder, ResumeOrder, RecoverFailedOrder, RepairOrder, ReplanOrder, TendOrder
   DEF Invoke

LEMMA NextOrder == Whole /\ [Next]_vars => Whole' /\ \A r \in Runs : Steady(r)
<1> SUFFICES ASSUME Whole, [Next]_vars PROVE Whole' /\ \A r \in Runs : Steady(r)
  OBVIOUS
<1>1. Inv'
  BY NextInv DEF Whole
<1>2. ASSUME NEW d \in Callers, Drive(d) PROVE Ordered
  BY <1>2, DriveOrder
<1>3. ASSUME NEW d \in Callers, NEW r \in Runs, Invoke(d, r) PROVE Ordered
  BY <1>3, InvokeOrder
<1>4. ASSUME NEW r \in Runs, Forget(r) \/ Move(r) \/ Restore(r) PROVE Ordered
  BY <1>4, ForgetOrder, ElseOrder
<1>5. ASSUME NEW r \in Runs, NEW k \in Rounds, SettleWork(r, k) PROVE Ordered
  BY <1>5, SettleWorkOrder
<1>6. ASSUME NEW p \in Procs, Kill(p) PROVE Ordered
  BY <1>6, ElseOrder
<1>7. Ordered
  BY <1>2, <1>3, <1>4, <1>5, <1>6, ElseOrder DEF Next
<1>8. QED
  BY <1>1, <1>7 DEF Whole, Ordered

LEMMA InitOrder == Init => Whole
<1> SUFFICES ASSUME Init PROVE Whole
  OBVIOUS
<1>1. Inv
  BY InitInv
<1>2. \A d \in Callers : Fits(d)
  BY DEF Init, Idle, Fits, Asking
<1>3. \A r \in Runs : Agree(r)
  BY DEF Init, NoRun, Agree, Kept, Ended
<1>4. QED
  BY <1>1, <1>2, <1>3 DEF Whole, Orderly

LEMMA AlwaysWhole == Spec => []Whole
BY InitOrder, NextOrder, PTL DEF Spec

\* A paid answer is used before another is asked for: whoever is about to send,
\* or has sent, a request found no answer and no commit on file, and none has
\* come since, unless the run was revoked.
THEOREM AnswersUsed == Spec => []NoAnswerThrownAway
<1>1. ASSUME Whole PROVE NoAnswerThrownAway
  <2> SUFFICES ASSUME NEW d \in Callers, call[d].at \in {"send", "call"},
                      Here(d).st # "cancelled"
               PROVE  Here(d).kind = "none" /\ Written(d) = "none"
    BY DEF NoAnswerThrownAway
  <2>1. call[d].at \in Asking /\ call[d].at # "idle"
    BY DEF Asking
  <2>2. Askable(Here(d), commit[call[d].run]) /\ Kept(Here(d))
    BY <1>1, <2>1, AskHere, HereRecord
  <2>3. QED
    BY <2>2 DEF Askable, Kept, Written
<1>2. QED
  BY <1>1, AlwaysWhole, PTL

\* A run reported completed, or completed with unresolved parts, has its commit
\* behind it; one sealed has its budget closed.
THEOREM CompletedStands == Spec => []CompletedIsCommitted
<1>1. ASSUME Whole PROVE CompletedIsCommitted
  BY <1>1 DEF Whole, Orderly, Agree, Ended, CompletedIsCommitted
<1>2. QED
  BY <1>1, AlwaysWhole, PTL

\* What was forgotten stays forgotten, whatever returns late.
THEOREM ForgottenForGood == Spec => ForgottenStaysCancelled
<1> DEFINE Stay(r) ==
      run[r].st = "cancelled" =>
         /\ run'[r].st = "cancelled" /\ run'[r].kind = "none" /\ run'[r].att = run[r].att
         /\ \A k \in Rounds : commit[r][k] = "none" => commit'[r][k] = "none"
<1>1. Whole /\ [Next]_vars => [\A r \in Runs : Stay(r)]_vars
  <2> SUFFICES ASSUME Whole, [Next]_vars, NEW r \in Runs, run[r].st = "cancelled"
               PROVE  Stay(r)
    OBVIOUS
  <2>1. Stands(run[r], run'[r]) /\ NotBegun(run[r], commit[r], commit'[r])
    BY NextOrder DEF Steady
  <2>2. Record(run[r]) /\ Kept(run[r])
    BY DEF Whole, Inv, Typed, RunTyped, Orderly, Agree
  <2>3. run'[r] = run[r] \/ run'[r] = Cancelled(run[r])
    BY <2>1 DEF Stands, Terminal
  <2>4. run'[r].st = "cancelled" /\ run'[r].kind = "none" /\ run'[r].att = run[r].att
    BY <2>2, <2>3 DEF Kept, Answered, Cancelled, Finished, Record, RunRecord
  <2>5. QED
    BY <2>1, <2>4 DEF NotBegun
<1>2. QED
  BY <1>1, AlwaysWhole, PTL DEF Spec, ForgottenStaysCancelled

\* An outcome is undone by Forget and by the two recoveries only, each once.
THEOREM OutcomesKept == Spec => OutcomesStand
<1> DEFINE Keep(r) ==
      run[r].st \in Terminal /\ run'[r].st # run[r].st =>
         \/ run'[r].st = "cancelled"
         \/ run[r].st = "failed" /\ ~run[r].rescued /\ run'[r].rescued
         \/ run[r].st = "unresolved" /\ run[r].round = 1 /\ run'[r].round = 2
<1>1. Whole /\ [Next]_vars => [\A r \in Runs : Keep(r)]_vars
  <2> SUFFICES ASSUME Whole, [Next]_vars, NEW r \in Runs PROVE Keep(r)
    OBVIOUS
  <2>1. Stands(run[r], run'[r]) /\ Record(run[r])
    BY NextOrder DEF Steady, Whole, Inv, Typed, RunTyped
  <2>2. QED
    BY <2>1 DEF Stands, Cancelled, Finished, Record, RunRecord
<1>2. QED
  BY <1>1, AlwaysWhole, PTL DEF Spec, OutcomesStand
=============================================================================
