-------------------------- MODULE ProcessJobsSafety --------------------------
(* The inductive invariants of ProcessJobs and what follows from them.  The  *)
(* invariant has three layers: what holds whoever fails (Sound); what holds  *)
(* unless a dispatcher fails between a launch and its record (Manned); and   *)
(* what holds if only workers die and launches fail (Serial).                *)
EXTENDS ProcessJobs, FiniteSetTheorems, WellFoundedInduction, TLAPS

-----------------------------------------------------------------------------
(* The first layer. *)

Job(j) == ledger.job[j]

Open == Active \cup {"pending"}

Launching == op.at \in {"launch", "record"}

\* What TypeOK leaves open: which fields a place uses.
Placed ==
    /\ \A p \in Pids : /\ proc[p].at # "none" => proc[p].job \in Jobs
                       /\ Holds(p) => proc[p].at = "finish"
    /\ op.at = "choose" => /\ op.session \in Sessions /\ op.args \in Args /\ op.by = None
                           /\ op.mem.accepted < MaxJobs
    /\ Launching => op.job \in Jobs
    /\ op.at = "record" => op.child \in Pids

\* The copy of the holder is the file, but that it may know an active job that
\* the file has lost.
Copied ==
    op # Free =>
        /\ op.mem.job = ledger.job
        /\ op.mem.accepted = ledger.accepted
        /\ \/ op.mem.active = ledger.active
           \/ op.mem.active # None /\ ~Launching

\* The job that is being launched waits for its worker.
Launched ==
    /\ Launching => /\ ledger.active = op.job
                    /\ Job(op.job).st = "starting" /\ Job(op.job).owner = None
    /\ op.at = "record" => proc[op.child].at \in {"boot", "ended"} /\ proc[op.child].job = op.job

\* Numbers are given once.
Numbered ==
    /\ \A j \in Jobs : j > ledger.accepted => Job(j) = NoJob
    /\ \A p \in Pids : proc[p].job <= ledger.accepted

\* The owner of a job is a worker that was launched for it.
OwnersKnown ==
    \A j \in Jobs :
        Job(j).owner # None => proc[Job(j).owner].at # "none" /\ proc[Job(j).owner].job = j

Sound == TypeOK /\ Placed /\ Copied /\ Launched /\ Numbered /\ OwnersKnown

-----------------------------------------------------------------------------
(* The second layer. *)

\* A session has one job that is not over.
OnePerSession ==
    \A i, j \in Jobs :
        i # j /\ Job(i).st \in Open /\ Job(j).st \in Open => Job(i).session # Job(j).session

\* The file says that p runs the job of p.
Employed(p) == Job(proc[p].job).st = "running" /\ Job(proc[p].job).owner = p

\* The job of p is over.
Dismissed(p) == Job(proc[p].job).st \notin Open /\ ~Job(proc[p].job).rerun

Posted(p) ==
    /\ proc[p].at \in {"work", "reload"} => Employed(p)
    /\ proc[p].at = "boot" => Employed(p) \/ (op.at = "record" /\ op.child = p)
    /\ proc[p].at = "finish" => Employed(p) \/ Dismissed(p)
    /\ Holds(p) => Dismissed(p)

\* Somebody will see to the session of j, or its worker is dead.
SeenTo(j) ==
    \/ Job(j).st \in {"pending", "starting"}
    \/ /\ Job(j).st = "running"
       /\ \/ Job(j).rerun
          \/ ~Alive(Job(j).owner)
          \/ proc[Job(j).owner].at \in {"boot", "reload"}

Owing == \A s \in owed : \E j \in Jobs : Job(j).session = s /\ SeenTo(j)

Manned == OnePerSession /\ (\A p \in Pids : Posted(p)) /\ Owing

-----------------------------------------------------------------------------
(* The third layer. *)

\* The active job is the one job that is starting or running.
OneActive ==
    /\ \A j \in Jobs : Job(j).st \in Active <=> j = ledger.active
    /\ op # Free => op.mem.active = ledger.active
    /\ ledger.active # None /\ ~Launching => Job(ledger.active).owner # None

\* A worker that finishes has not finished before.
FinishesOnce == \A p \in Pids : proc[p].at = "finish" /\ ~Holds(p) => Employed(p)

Moving == ~turned /\ op = Free /\ ledger.active = None => Pending(ledger) = {}

Serial == OneActive /\ FinishesOnce /\ Moving

Inv == Sound /\ (LaunchesRecorded => Manned) /\ (HoldersSteady => Serial)

-----------------------------------------------------------------------------
(* The operators of the ledger. *)

LEMMA NoneIsNobody == None \notin Jobs /\ None \notin Pids
BY ConstantsAssumption DEF None, Jobs, Pids

LEMMA OldestIsOne ==
    ASSUME NEW S \in SUBSET Nat, S # {}
    PROVE  Oldest(S) \in S
<1>1. PICK m \in S : \A i \in S : ~(<<i, m>> \in OpToRel(<, Nat))
  BY NatLessThanWellFounded, WFMin
<1>2. \A i \in S : m <= i
  <2> SUFFICES ASSUME NEW i \in S, i < m PROVE FALSE
    OBVIOUS
  <2>1. <<i, m>> \in {ss \in Nat \X Nat : ss[1] < ss[2]}
    BY Z3
  <2>2. <<i, m>> \in OpToRel(<, Nat)
    BY <2>1, Zenon DEF OpToRel
  <2>3. QED
    BY <1>1, <2>2, Zenon
<1>3. QED
  BY <1>2 DEF Oldest

LEMMA NewestIsOne ==
    ASSUME NEW S \in SUBSET Jobs, S # {}
    PROVE  Newest(S) \in S
<1> DEFINE T == {MaxJobs - j : j \in S}
<1>1. T \in SUBSET Nat /\ T # {}
  <2>1. \A j \in S : MaxJobs - j \in Nat
    BY ConstantsAssumption DEF Jobs
  <2>2. QED
    BY <2>1
<1>2. PICK m \in T : \A i \in T : ~(<<i, m>> \in OpToRel(<, Nat))
  BY <1>1, NatLessThanWellFounded, WFMin
<1>3. PICK j \in S : m = MaxJobs - j
  OBVIOUS
<1>4. \A i \in S : i <= j
  <2> SUFFICES ASSUME NEW i \in S, ~(i <= j) PROVE FALSE
    OBVIOUS
  <2> DEFINE k == MaxJobs - i
  <2>1. k \in T /\ k \in Nat /\ m \in Nat
    BY <1>1
  <2>2. k < m
    BY <1>3, ConstantsAssumption DEF Jobs
  <2> HIDE DEF k, T
  <2>3. <<k, m>> \in {ss \in Nat \X Nat : ss[1] < ss[2]}
    BY <2>1, <2>2, Z3
  <2>4. <<k, m>> \in OpToRel(<, Nat)
    BY <2>3, Zenon DEF OpToRel
  <2>5. QED
    BY <1>2, <2>1, <2>4, Zenon
<1>5. QED
  BY <1>4 DEF Newest

\* A record dropped, or taken back from a dead owner.
Dropped(k, n) == k.st \in Terminal /\ n = NoJob

TakenBack(k, n) ==
    k.st \in Active /\ ~Alive(k.owner) /\ n = [k EXCEPT !.st = "pending", !.owner = None]

Kept(k, n) == n = k \/ TakenBack(k, n)

LEMMA ChangeFields ==
    ASSUME NEW k \in JobType, NEW n, Kept(k, n) \/ Dropped(k, n)
    PROVE  /\ n \in JobType
           /\ n.owner \in {None, k.owner}
           /\ k = NoJob => n = NoJob
           /\ n.st \in Active \cup {"pending"} => k.st \in Active \cup {"pending"} /\ n.session = k.session
           /\ k.st \in Active \cup {"pending"} => n.st \in Active \cup {"pending"} /\ n.rerun = k.rerun
<1>1. CASE n = k
  BY <1>1
<1>2. CASE TakenBack(k, n)
  <2>1. k # NoJob
    BY <1>2 DEF TakenBack, NoJob, Active
  <2>2. QED
    BY <1>2, <2>1 DEF TakenBack, JobType, Active, NoJob
<1>3. CASE Dropped(k, n)
  BY <1>3 DEF Dropped, JobType, Active, Terminal, NoJob
<1>4. QED
  BY <1>1, <1>2, <1>3 DEF Kept

LEMMA PrunedFacts ==
    ASSUME NEW L \in LedgerType
    PROVE  /\ Pruned(L) \in LedgerType
           /\ Pruned(L).active = L.active /\ Pruned(L).accepted = L.accepted
           /\ \A i \in Jobs : Pruned(L).job[i] = L.job[i] \/ Dropped(L.job[i], Pruned(L).job[i])
<1> DEFINE K == [i \in Jobs |-> IF i \in Expired(L) THEN NoJob ELSE L.job[i]]
<1>1. Pruned(L) = [L EXCEPT !.job = K]
  BY DEF Pruned
<1>2. K \in [Jobs -> JobType]
  BY DEF LedgerType, JobType
<1>3. \A i \in Jobs : K[i] = L.job[i] \/ Dropped(L.job[i], K[i])
  BY DEF Dropped, Expired, InState
<1> HIDE DEF K
<1>4. QED
  BY <1>1, <1>2, <1>3 DEF LedgerType

LEMMA RecoveredFacts ==
    ASSUME NEW L \in LedgerType, NEW j \in Suspects(L)
    PROVE  /\ j \in Jobs \cup {None}
           /\ Recovered(L, j) \in LedgerType
           /\ Recovered(L, j).accepted = L.accepted
           /\ \A i \in Jobs : Kept(L.job[i], Recovered(L, j).job[i])
           /\ LeftAlone(L, j) => Recovered(L, j) = [L EXCEPT !.active = j]
           /\ ~LeftAlone(L, j) => Recovered(L, j).active = None
           /\ ~LeftAlone(L, j) /\ j \in Jobs => Recovered(L, j).job[j].st \notin Active
<1>1. j \in Jobs \cup {None} /\ (j = None => L.active = None)
  BY DEF Suspects, InState, LedgerType
<1>2. CASE j = None
  <2>1. Recovered(L, j) = L /\ ~LeftAlone(L, j)
    BY <1>2 DEF Recovered, LeftAlone
  <2>2. QED
    BY <1>1, <1>2, <2>1, NoneIsNobody DEF Kept
<1>3. CASE j # None /\ LeftAlone(L, j)
  <2>1. Recovered(L, j) = [L EXCEPT !.active = j]
    BY <1>3 DEF Recovered
  <2>2. QED
    BY <1>1, <1>3, <2>1 DEF LedgerType, Kept
<1>4. CASE j # None /\ ~LeftAlone(L, j) /\ L.job[j].st \in Active
  <2> DEFINE k == [L.job[j] EXCEPT !.st = "pending", !.owner = None]
             M == [L EXCEPT !.active = None, !.job[j] = k]
  <2>1. Recovered(L, j) = M
    BY <1>1, <1>4 DEF Recovered, LedgerType, JobType
  <2>2. k \in JobType /\ TakenBack(L.job[j], k) /\ k.st \notin Active
    <3>1. L.job[j] \in JobType /\ L.job[j] # NoJob
      BY <1>1, <1>4 DEF LedgerType, NoJob, Active
    <3>2. QED
      BY <1>4, <3>1 DEF JobType, LeftAlone, TakenBack, Active
  <2> HIDE DEF k
  <2>3. M \in LedgerType /\ M.accepted = L.accepted /\ M.active = None
    BY <1>1, <1>4, <2>2 DEF LedgerType
  <2>4. \A i \in Jobs : M.job[i] = IF i = j THEN k ELSE L.job[i]
    BY <1>1, <1>4 DEF LedgerType
  <2> HIDE DEF M
  <2>5. QED
    BY <1>1, <1>4, <2>1, <2>2, <2>3, <2>4 DEF Kept
<1>5. CASE j # None /\ L.job[j].st \notin Active
  <2>1. Recovered(L, j) = [L EXCEPT !.active = None] /\ ~LeftAlone(L, j)
    BY <1>5 DEF Recovered, LeftAlone
  <2>2. QED
    BY <1>1, <1>5, <2>1 DEF LedgerType, Kept
<1>6. QED
  BY <1>1, <1>2, <1>3, <1>4, <1>5

\* What enqueue makes of the file before it looks for the session.
LEMMA CleanedFacts ==
    ASSUME NEW L \in LedgerType, NEW j \in Suspects(L),
           NEW M, M = Pruned(Recovered(L, j))
    PROVE  /\ M \in LedgerType
           /\ M.accepted = L.accepted
           /\ \A i \in Jobs : Kept(L.job[i], M.job[i]) \/ Dropped(L.job[i], M.job[i])
           /\ LeftAlone(L, j) => M.active = j
           /\ ~LeftAlone(L, j) => M.active = None
           /\ ~LeftAlone(L, j) /\ j \in Jobs => M.job[j].st \notin Active
           /\ LeftAlone(L, j) /\ Expired(L) = {} => M = [L EXCEPT !.active = j]
<1> DEFINE R == Recovered(L, j)
<1>1. /\ j \in Jobs \cup {None}
      /\ R \in LedgerType
      /\ R.accepted = L.accepted
      /\ \A i \in Jobs : Kept(L.job[i], R.job[i])
      /\ LeftAlone(L, j) => R = [L EXCEPT !.active = j]
      /\ ~LeftAlone(L, j) => R.active = None
      /\ ~LeftAlone(L, j) /\ j \in Jobs => R.job[j].st \notin Active
  BY RecoveredFacts
<1>2. /\ M \in LedgerType
      /\ M.active = R.active /\ M.accepted = R.accepted
      /\ \A i \in Jobs : M.job[i] = R.job[i] \/ Dropped(R.job[i], M.job[i])
  BY <1>1, PrunedFacts
<1>3. LeftAlone(L, j) => R.active = j /\ R.job = L.job /\ Expired(R) = Expired(L)
  BY <1>1 DEF LedgerType, Expired, InState
<1>4. LeftAlone(L, j) /\ Expired(L) = {} => M = [L EXCEPT !.active = j]
  <2> SUFFICES ASSUME LeftAlone(L, j), Expired(L) = {}
               PROVE  M = R
    BY <1>1
  <2>1. M = [R EXCEPT !.job = [i \in Jobs |-> R.job[i]]]
    BY <1>3 DEF Pruned
  <2>2. QED
    BY <1>1, <2>1 DEF LedgerType
<1>5. \A i \in Jobs : TakenBack(L.job[i], R.job[i]) => R.job[i].st = "pending"
  BY DEF TakenBack, Active, LedgerType, JobType, NoJob
<1> HIDE DEF R
<1>6. ~LeftAlone(L, j) /\ j \in Jobs => M.job[j].st \notin Active
  BY <1>1, <1>2 DEF Dropped, NoJob, Active
<1>7. QED
  BY <1>1, <1>2, <1>3, <1>4, <1>5, <1>6 DEF Dropped, Kept, Terminal

-----------------------------------------------------------------------------
(* The first layer is inductive. *)

\* The records of the next file have owners that are known, and numbers.
JobsOnward ==
    \A i \in Jobs :
        /\ i > ledger'.accepted => ledger'.job[i] = NoJob
        /\ \/ ledger'.job[i].owner \in {None, Job(i).owner}
           \/ LET p == ledger'.job[i].owner
              IN  p \in Pids /\ proc[p].at # "none" /\ proc[p].job = i

\* No worker is launched, none gets another job.
ProcsOnward ==
    \A p \in Pids : /\ proc'[p].job = proc[p].job
                    /\ proc'[p].at = "none" <=> proc[p].at = "none"

LEMMA OnwardFrame ==
    ASSUME Sound, TypeOK', JobsOnward, ProcsOnward, ledger.accepted <= ledger'.accepted
    PROVE  /\ Numbered' /\ OwnersKnown'
           /\ \A p \in Pids : proc'[p].at # "none" => proc'[p].job \in Jobs
<1>1. Numbered'
  <2>1. \A p \in Pids : proc'[p].job <= ledger'.accepted
    BY ConstantsAssumption
       DEF ProcsOnward, Sound, Numbered, TypeOK, ProcType, LedgerType, Jobs, None
  <2>2. QED
    BY <2>1 DEF JobsOnward, Numbered, Job
<1>2. OwnersKnown'
  BY NoneIsNobody DEF JobsOnward, ProcsOnward, Sound, OwnersKnown, Job, TypeOK, LedgerType, JobType, NoJob
<1>3. QED
  BY <1>1, <1>2 DEF ProcsOnward, Sound, Placed

LEMMA OpFields ==
    ASSUME op \in OpType, op.at # "free"
    PROVE  /\ op # Free
           /\ op.at \in {"choose", "dispatch", "launch", "record"} /\ op.by \in Pids \cup {None}
           /\ op.mem \in LedgerType /\ op.session \in Sessions \cup {None}
           /\ op.args \in Args \cup {None} /\ op.job \in Jobs \cup {None} /\ op.child \in Pids \cup {None}
BY DEF OpType, Free

LEMMA EnterFields ==
    ASSUME NEW place \in {"choose", "dispatch"}, NEW by \in Pids \cup {None},
           NEW L \in LedgerType, NEW s \in Sessions \cup {None}, NEW a \in Args \cup {None},
           NEW e, e = Enter(place, by, L, s, a)
    PROVE  /\ e \in OpType /\ e # Free
           /\ e.at = place /\ e.by = by /\ e.mem = L /\ e.session = s /\ e.args = a
BY DEF Enter, OpType, Free

\* What the release of the lock does to the workers.
LEMMA ReleaseFrame ==
    ASSUME Sound, op # Free, Release
    PROVE  /\ op' \in OpType /\ op' = Free /\ op'.at = "free"
           /\ proc' \in [Pids -> ProcType] /\ ProcsOnward
           /\ \A p \in Pids : IF op.by = p THEN proc'[p].at = "ended" ELSE proc'[p] = proc[p]
<1>1. op' = Free /\ op' \in OpType /\ op'.at = "free"
  BY DEF Release, OpType, Free
<1>2. op.at # "free"
  BY DEF Sound, TypeOK, OpType
<1>3. CASE op.by = None
  BY <1>1, <1>3, NoneIsNobody DEF Release, Sound, TypeOK, ProcsOnward
<1>4. CASE op.by # None
  <2>1. op.by \in Pids
    BY <1>2, <1>4, OpFields DEF Sound, TypeOK
  <2>2. QED
    BY <1>1, <1>4, <2>1 DEF Release, Sound, Placed, TypeOK, ProcType, ProcsOnward, Holds
<1>5. QED
  BY <1>3, <1>4

LEMMA InitSound == Init => Sound
<1> SUFFICES ASSUME Init PROVE Sound
  OBVIOUS
<1>1. TypeOK
  <2>1. ledger \in LedgerType
    BY ConstantsAssumption DEF Init, LedgerType, JobType
  <2>2. op \in OpType /\ proc \in [Pids -> ProcType]
    BY DEF Init, OpType, ProcType
  <2>3. asks \in 0..MaxAsks /\ kills \in Nat /\ faults \in Nat /\ kills + faults <= MaxMishaps
    BY ConstantsAssumption DEF Init
  <2>4. QED
    BY <2>1, <2>2, <2>3 DEF Init, TypeOK
<1>2. Placed /\ Copied /\ Launched
  BY DEF Init, Placed, Copied, Launched, Launching, Free, Holds
<1>3. Numbered
  BY ConstantsAssumption DEF Init, Numbered, Job, None, NoJob
<1>4. OwnersKnown
  BY DEF Init, OwnersKnown, Job, NoJob
<1>5. QED
  BY <1>1, <1>2, <1>3, <1>4 DEF Sound

LEMMA EnqueueFacts ==
    ASSUME Sound, NEW s \in Sessions, NEW a \in Args, Enqueue(s, a)
    PROVE  /\ op = Free /\ UNCHANGED << proc, owed, turned, kills, faults >>
           /\ op' \in OpType /\ op' # Free /\ op'.at = "choose" /\ op'.by = None
           /\ op'.session = s /\ op'.args = a
           /\ ledger' \in LedgerType /\ ledger'.accepted = ledger.accepted
           /\ op'.mem.job = ledger'.job /\ op'.mem.accepted = ledger'.accepted
           /\ op'.mem.active = ledger'.active \/ op'.mem.active # None
           /\ \A i \in Jobs : Kept(Job(i), ledger'.job[i]) \/ Dropped(Job(i), ledger'.job[i])
           /\ \E j \in Suspects(ledger) :
                 /\ LeftAlone(ledger, j) => op'.mem.active = j /\ ledger'.active \in {ledger.active, j}
                 /\ ~LeftAlone(ledger, j) => op'.mem.active = None /\ ledger'.active = None
                 /\ ~LeftAlone(ledger, j) /\ j \in Jobs => ledger'.job[j].st \notin Active
<1>1. ledger \in LedgerType /\ op = Free
  BY DEF Sound, TypeOK, Enqueue
<1> PICK j \in Suspects(ledger) :
        LET mem == Pruned(Recovered(ledger, j))
        IN  /\ op' = Enter("choose", None, mem, s, a)
            /\ ledger' = IF LeftAlone(ledger, j) /\ Expired(ledger) = {} THEN ledger ELSE mem
  BY DEF Enqueue
<1>2. PICK M : /\ M = Pruned(Recovered(ledger, j))
               /\ op' = Enter("choose", None, M, s, a)
               /\ ledger' = IF LeftAlone(ledger, j) /\ Expired(ledger) = {} THEN ledger ELSE M
  OBVIOUS
<1>3. /\ M \in LedgerType /\ M.accepted = ledger.accepted
      /\ \A i \in Jobs : Kept(Job(i), M.job[i]) \/ Dropped(Job(i), M.job[i])
      /\ LeftAlone(ledger, j) => M.active = j
      /\ ~LeftAlone(ledger, j) => M.active = None
      /\ ~LeftAlone(ledger, j) /\ j \in Jobs => M.job[j].st \notin Active
      /\ LeftAlone(ledger, j) /\ Expired(ledger) = {} => M = [ledger EXCEPT !.active = j]
  BY <1>1, <1>2, CleanedFacts DEF Job
<1>4. j # None \/ ~LeftAlone(ledger, j)
  BY DEF LeftAlone
<1>5. /\ op' \in OpType /\ op' # Free /\ op'.at = "choose" /\ op'.by = None /\ op'.mem = M
      /\ op'.session = s /\ op'.args = a
  <2>1. s \in Sessions \cup {None} /\ a \in Args \cup {None} /\ None \in Pids \cup {None}
    OBVIOUS
  <2>2. QED
    BY <1>2, <1>3, <2>1 DEF Enter, OpType, Free
<1>6. /\ ledger' \in LedgerType /\ ledger'.accepted = ledger.accepted
      /\ M.job = ledger'.job /\ M.accepted = ledger'.accepted
      /\ M.active = ledger'.active \/ M.active # None
      /\ \A i \in Jobs : Kept(Job(i), ledger'.job[i]) \/ Dropped(Job(i), ledger'.job[i])
  BY <1>1, <1>2, <1>3, <1>4 DEF LedgerType, Kept, Job
<1>7. \/ ledger' = M
      \/ LeftAlone(ledger, j) /\ ledger' = ledger
  BY <1>2
<1>8. /\ LeftAlone(ledger, j) => ledger'.active \in {ledger.active, j}
      /\ ~LeftAlone(ledger, j) => ledger'.active = None
      /\ ~LeftAlone(ledger, j) /\ j \in Jobs => ledger'.job[j].st \notin Active
  BY <1>3, <1>7
<1>9. UNCHANGED << proc, owed, turned, kills, faults >>
  BY DEF Enqueue, mishaps
<1>10. QED
  BY <1>1, <1>3, <1>5, <1>6, <1>8, <1>9

LEMMA EnqueueSound ==
    ASSUME Sound, NEW s \in Sessions, NEW a \in Args, Enqueue(s, a), UNCHANGED frail
    PROVE  Sound'
<1> HIDE DEF LedgerType
<1>1. /\ UNCHANGED << proc, owed, turned, kills, faults >>
      /\ op' \in OpType /\ op' # Free /\ op'.at = "choose" /\ op'.by = None
      /\ op'.session = s /\ op'.args = a
      /\ ledger' \in LedgerType /\ ledger'.accepted = ledger.accepted
      /\ op'.mem.job = ledger'.job /\ op'.mem.accepted = ledger'.accepted
      /\ op'.mem.active = ledger'.active \/ op'.mem.active # None
      /\ \A i \in Jobs : Kept(Job(i), ledger'.job[i]) \/ Dropped(Job(i), ledger'.job[i])
  BY EnqueueFacts
<1>2. TypeOK'
  <2>1. asks' \in 0..MaxAsks
    BY ConstantsAssumption DEF Enqueue, Sound, TypeOK
  <2>2. QED
    BY <1>1, <2>1 DEF Sound, TypeOK
<1>3. JobsOnward /\ ProcsOnward
  <2>1. \A i \in Jobs : /\ ledger'.job[i].owner \in {None, Job(i).owner}
                        /\ Job(i) = NoJob => ledger'.job[i] = NoJob
    <3> SUFFICES ASSUME NEW i \in Jobs
                 PROVE  /\ ledger'.job[i].owner \in {None, Job(i).owner}
                        /\ Job(i) = NoJob => ledger'.job[i] = NoJob
      OBVIOUS
    <3>1. Job(i) \in JobType /\ (Kept(Job(i), ledger'.job[i]) \/ Dropped(Job(i), ledger'.job[i]))
      BY <1>1 DEF Sound, TypeOK, Job, LedgerType
    <3>2. QED
      BY <3>1, ChangeFields
  <2>2. QED
    BY <1>1, <2>1 DEF JobsOnward, ProcsOnward, Sound, Numbered
<1>4. ledger.accepted < MaxJobs
  BY DEF Enqueue
<1>5. ledger.accepted <= ledger'.accepted
  BY <1>1, ConstantsAssumption DEF Sound, TypeOK, LedgerType
<1>6. QED
  BY <1>1, <1>2, <1>3, <1>4, <1>5, OnwardFrame, NoneIsNobody
     DEF Sound, Placed, Copied, Launched, Launching, Holds

LEMMA RefuseSound ==
    ASSUME Sound, Refuse, UNCHANGED frail
    PROVE  Sound'
<1>1. op # Free /\ Release /\ UNCHANGED << ledger, owed, asks, mishaps >> /\ turned' = TRUE
  BY DEF Refuse, Free
<1>2. TypeOK'
  BY <1>1, ReleaseFrame DEF Sound, TypeOK, mishaps
<1>3. JobsOnward
  BY <1>1 DEF JobsOnward, Job, Sound, Numbered
<1>4. QED
  <2>1. /\ op' = Free /\ op'.at = "free" /\ ProcsOnward
    BY <1>1, ReleaseFrame
  <2>2. ledger.accepted <= ledger'.accepted
    BY <1>1, ConstantsAssumption DEF Sound, TypeOK, LedgerType
  <2>3. QED
    BY <1>2, <1>3, <2>1, <2>2, OnwardFrame
       DEF Sound, Placed, Copied, Launched, Launching, Holds

LEMMA DispatchNothingSound ==
    ASSUME Sound, DispatchNothing, UNCHANGED frail
    PROVE  Sound'
<1>1. op # Free /\ Release /\ UNCHANGED << ledger, owed, turned, asks, mishaps >>
  BY DEF DispatchNothing, Free
<1>2. TypeOK'
  BY <1>1, ReleaseFrame DEF Sound, TypeOK, mishaps
<1>3. JobsOnward
  BY <1>1 DEF JobsOnward, Job, Sound, Numbered
<1>4. QED
  <2>1. /\ op' = Free /\ op'.at = "free" /\ ProcsOnward
    BY <1>1, ReleaseFrame
  <2>2. ledger.accepted <= ledger'.accepted
    BY <1>1, ConstantsAssumption DEF Sound, TypeOK, LedgerType
  <2>3. QED
    BY <1>2, <1>3, <2>1, <2>2, OnwardFrame
       DEF Sound, Placed, Copied, Launched, Launching, Holds

\* The joined job is open and of the session; it runs again, or still waits.
LEMMA JoinFacts ==
    ASSUME Sound, Join
    PROVE  /\ op # Free /\ op.at = "choose"
           /\ UNCHANGED << proc, turned, asks, kills, faults >> /\ owed' = owed \cup {op.session}
           /\ op' \in OpType /\ op' # Free /\ op'.at = "dispatch" /\ op'.by = None
           /\ op'.mem.active = op.mem.active
           /\ op'.mem.job = ledger'.job /\ op'.mem.accepted = ledger'.accepted
           /\ op'.mem.active = ledger'.active \/ op'.mem.active # None
           /\ ledger' \in LedgerType /\ ledger'.accepted = ledger.accepted
           /\ ledger'.active \in {ledger.active, op.mem.active}
           /\ \E j \in Jobs :
                 /\ Job(j).session = op.session /\ Job(j).st \in Open
                 /\ ledger'.job[j].rerun \/ ledger'.job[j].st = "pending"
                 /\ \A i \in Jobs :
                      ledger'.job[i] = Job(i) \/ (i = j /\ ledger'.job[i] = [Job(i) EXCEPT !.rerun = TRUE])
<1> DEFINE mine == Unfinished(op.mem, op.session)
<1>1. /\ op # Free /\ op.at = "choose" /\ op.mem \in LedgerType
      /\ op.mem.job = ledger.job /\ op.mem.accepted = ledger.accepted
      /\ op.session \in Sessions
      /\ op.mem.active = ledger.active \/ op.mem.active # None
  BY OpFields DEF Join, Sound, TypeOK, Placed, Copied
<1>2. mine \subseteq Jobs /\ mine # {}
  BY DEF Join, Unfinished, InState
<1>3. PICK j \in Jobs : j = Newest(mine) /\ j \in mine
  BY <1>2, NewestIsOne
<1>4. PICK L \in LedgerType :
        /\ op' = Enter("dispatch", None, L, None, None)
        /\ L.job = ledger'.job /\ L.accepted = ledger'.accepted
        /\ L.active = op.mem.active
        /\ L.active = ledger'.active \/ L.active # None
        /\ ledger'.active \in {ledger.active, L.active}
        /\ ledger'.job[j].rerun \/ ledger'.job[j].st = "pending"
        /\ ledger' \in LedgerType /\ ledger'.accepted = ledger.accepted
        /\ \A i \in Jobs : ledger'.job[i] = Job(i) \/ (i = j /\ ledger'.job[i] = [Job(i) EXCEPT !.rerun = TRUE])
  <2>1. CASE op.mem.job[j].st \in Active /\ ledger' = RerunRequested(op.mem, j)
             /\ op' = Enter("dispatch", None, ledger', None, None)
    <3> DEFINE k == [op.mem.job[j] EXCEPT !.rerun = TRUE]
               M == [op.mem EXCEPT !.job[j] = k]
    <3>1. k \in JobType /\ k.rerun
      <4>1. op.mem.job[j] \in JobType /\ op.mem.job[j] # NoJob
        BY <1>1, <2>1 DEF LedgerType, NoJob, Active
      <4>2. QED
        BY <4>1 DEF JobType
    <3>2. ledger' = M
      BY <2>1 DEF RerunRequested
    <3>3. k = [Job(j) EXCEPT !.rerun = TRUE]
      BY <1>1 DEF Job
    <3> HIDE DEF k
    <3>4. /\ M \in LedgerType /\ M.active = op.mem.active /\ M.accepted = op.mem.accepted
          /\ \A i \in Jobs : M.job[i] = IF i = j THEN k ELSE op.mem.job[i]
      BY <1>1, <3>1 DEF LedgerType
    <3> HIDE DEF M
    <3>5. ledger'.job[j] = k /\ \A i \in Jobs : ledger'.job[i] = IF i = j THEN k ELSE Job(i)
      BY <1>1, <3>2, <3>4 DEF Job
    <3>6. ledger' \in LedgerType /\ ledger'.active = op.mem.active /\ ledger'.accepted = ledger.accepted
      BY <1>1, <3>2, <3>4
    <3>7. QED
      BY <2>1, <3>1, <3>3, <3>5, <3>6
  <2>2. CASE op.mem.job[j].st = "pending" /\ UNCHANGED ledger
             /\ op' = Enter("dispatch", None, op.mem, None, None)
    BY <1>1, <2>2 DEF Job, Sound, TypeOK
  <2>3. QED
    BY <1>3, <2>1, <2>2 DEF Join
<1>5. /\ op' \in OpType /\ op' # Free /\ op'.at = "dispatch" /\ op'.by = None /\ op'.mem = L
  BY <1>4, EnterFields
<1>6. Job(j).session = op.session /\ Job(j).st \in Open
  BY <1>1, <1>3 DEF Unfinished, InState, Job, Open
<1>7. UNCHANGED << proc, turned, asks, kills, faults >> /\ owed' = owed \cup {op.session}
  BY DEF Join, mishaps
<1>8. QED
  BY <1>1, <1>4, <1>5, <1>6, <1>7

LEMMA JoinSound ==
    ASSUME Sound, Join, UNCHANGED frail
    PROVE  Sound'
<1>1. /\ op # Free /\ op.at = "choose"
      /\ UNCHANGED << proc, turned, asks, kills, faults >> /\ owed' = owed \cup {op.session}
      /\ op' \in OpType /\ op' # Free /\ op'.at = "dispatch" /\ op'.by = None
      /\ op'.mem.job = ledger'.job /\ op'.mem.accepted = ledger'.accepted
      /\ op'.mem.active = ledger'.active \/ op'.mem.active # None
      /\ ledger' \in LedgerType /\ ledger'.accepted = ledger.accepted
  BY JoinFacts
<1>2. PICK j \in Jobs :
        /\ Job(j).st \in Open
        /\ \A i \in Jobs :
             ledger'.job[i] = Job(i) \/ (i = j /\ ledger'.job[i] = [Job(i) EXCEPT !.rerun = TRUE])
  BY JoinFacts
<1>3. TypeOK'
  BY <1>1 DEF Sound, Placed, TypeOK
<1>4. Job(j) # NoJob /\ Job(j) \in JobType
  BY <1>2 DEF Open, Active, NoJob, Sound, TypeOK, LedgerType, Job
<1>5. JobsOnward
  <2>1. \A i \in Jobs : ledger'.job[i].owner = Job(i).owner
    BY <1>2, <1>4 DEF JobType, NoJob
  <2>2. \A i \in Jobs : i > ledger'.accepted => ledger'.job[i] = NoJob
    BY <1>1, <1>2, <1>4 DEF Sound, Numbered
  <2>3. QED
    BY <2>1, <2>2 DEF JobsOnward
<1>6. ProcsOnward
  BY <1>1 DEF ProcsOnward
<1>7. ledger.accepted <= ledger'.accepted
  BY <1>1, ConstantsAssumption DEF Sound, TypeOK, LedgerType
<1>8. QED
  BY <1>1, <1>3, <1>5, <1>6, <1>7, OnwardFrame, NoneIsNobody
     DEF Sound, Placed, Copied, Launched, Launching, Holds

LEMMA AppendFacts ==
    ASSUME Sound, Append
    PROVE  /\ op # Free /\ op.at = "choose" /\ op.session \in Sessions
           /\ UNCHANGED << proc, turned, asks, kills, faults >> /\ owed' = owed \cup {op.session}
           /\ op' \in OpType /\ op' # Free /\ op'.at = "dispatch" /\ op'.by = None
           /\ op'.mem = ledger' /\ ledger' \in LedgerType
           /\ ledger'.active = op.mem.active
           /\ ledger.accepted <= ledger'.accepted /\ ledger'.accepted \in Jobs
           /\ \A i \in Jobs : i > ledger'.accepted => i > ledger.accepted /\ i # ledger'.accepted
           /\ LET n == ledger'.job[ledger'.accepted]
              IN  n.st = "pending" /\ n.session = op.session /\ n.owner = None /\ ~n.rerun
           /\ Job(ledger'.accepted) = NoJob
           /\ \A i \in Jobs \ {ledger'.accepted} : ledger'.job[i] = Job(i)
           /\ \A i \in Jobs : Job(i).st \in Open => Job(i).session # op.session
<1> DEFINE j == op.mem.accepted + 1
           k == [st |-> "pending", session |-> op.session, args |-> op.args,
                 owner |-> None, rerun |-> FALSE]
           M == [op.mem EXCEPT !.accepted = j, !.job[j] = k]
<1>1. /\ op # Free /\ op.at = "choose" /\ op.mem \in LedgerType
      /\ op.mem.job = ledger.job /\ op.mem.accepted = ledger.accepted
      /\ op.session \in Sessions /\ op.args \in Args /\ op.mem.accepted < MaxJobs
  BY OpFields DEF Append, Sound, TypeOK, Placed, Copied
<1>2. /\ j \in Jobs /\ j \in 0..MaxJobs /\ ledger.accepted <= j
      /\ \A i \in Jobs : i > j => i > ledger.accepted /\ i # j
  BY <1>1, ConstantsAssumption DEF LedgerType, Jobs
<1>3. k \in JobType /\ k.st = "pending" /\ k.session = op.session /\ k.owner = None /\ ~k.rerun
  BY <1>1 DEF JobType
<1>4. ledger' = M /\ op' = Enter("dispatch", None, M, None, None) /\ UNCHANGED << proc, turned, asks, mishaps >>
      /\ owed' = owed \cup {op.session}
  BY DEF Append, Accepted
<1> HIDE DEF j, k
<1>5. /\ M \in LedgerType /\ M.active = op.mem.active /\ M.accepted = j
      /\ \A i \in Jobs : M.job[i] = IF i = j THEN k ELSE Job(i)
  BY <1>1, <1>2, <1>3 DEF LedgerType, Job
<1> HIDE DEF M
<1>6. /\ op' \in OpType /\ op' # Free /\ op'.at = "dispatch" /\ op'.by = None /\ op'.mem = M
  BY <1>4, <1>5, EnterFields
<1>7. j > ledger.accepted
  BY <1>1, <1>2, ConstantsAssumption DEF j, LedgerType
<1>8. \A i \in Jobs : Job(i).st \in Open => Job(i).session # op.session
  BY <1>1 DEF Append, Unfinished, InState, Job, Open
<1>9. UNCHANGED << proc, turned, asks, kills, faults >> /\ owed' = owed \cup {op.session}
  BY <1>4 DEF mishaps
<1>10. Job(j) = NoJob
  BY <1>2, <1>7 DEF Sound, Numbered
<1>11. QED
  BY <1>1, <1>2, <1>3, <1>4, <1>5, <1>6, <1>8, <1>9, <1>10

LEMMA AppendSound ==
    ASSUME Sound, Append, UNCHANGED frail
    PROVE  Sound'
<1> DEFINE j == ledger'.accepted
<1>1. /\ op.session \in Sessions
      /\ UNCHANGED << proc, turned, asks, kills, faults >> /\ owed' = owed \cup {op.session}
      /\ op' \in OpType /\ op' # Free /\ op'.at = "dispatch" /\ op'.by = None
      /\ op'.mem = ledger' /\ ledger' \in LedgerType
      /\ ledger.accepted <= j
      /\ \A i \in Jobs : i > j => i > ledger.accepted /\ i # j
      /\ ledger'.job[j].owner = None
      /\ \A i \in Jobs \ {j} : ledger'.job[i] = Job(i)
  BY AppendFacts
<1>2. TypeOK'
  BY <1>1 DEF Sound, TypeOK
<1>3. JobsOnward /\ ProcsOnward
  BY <1>1 DEF JobsOnward, ProcsOnward, Sound, Numbered
<1>4. QED
  BY <1>1, <1>2, <1>3, OnwardFrame, NoneIsNobody
     DEF Sound, Placed, Copied, Launched, Launching, Holds

\* What becomes of a job: its state and its owner.
Restate(L, v, j, st, o) == [L EXCEPT !.active = v, !.job[j].st = st, !.job[j].owner = o]

LEMMA Restated ==
    ASSUME NEW L \in LedgerType, NEW j \in Jobs, L.job[j].st # "none",
           NEW st \in Active \cup Terminal \cup {"pending"}, NEW o \in Pids \cup {None},
           NEW v \in Jobs \cup {None}, NEW M, M = Restate(L, v, j, st, o)
    PROVE  /\ M \in LedgerType /\ M.active = v /\ M.accepted = L.accepted
           /\ M.job[j].st = st /\ M.job[j].owner = o
           /\ M.job[j].session = L.job[j].session /\ M.job[j].rerun = L.job[j].rerun
           /\ \A i \in Jobs \ {j} : M.job[i] = L.job[i]
<1> DEFINE k == [L.job[j] EXCEPT !.st = st, !.owner = o]
<1> DEFINE K == [L.job EXCEPT ![j] = k]
<1>1. M = [L EXCEPT !.active = v, !.job = K]
  BY DEF Restate, LedgerType, JobType
<1>2. L.job[j] \in JobType /\ L.job[j] # NoJob
  BY DEF LedgerType, NoJob
<1>3. /\ k \in JobType /\ k.st = st /\ k.owner = o
      /\ k.session = L.job[j].session /\ k.rerun = L.job[j].rerun
  BY <1>2 DEF JobType
<1> HIDE DEF k
<1>4. K \in [Jobs -> JobType] /\ K[j] = k /\ \A i \in Jobs \ {j} : K[i] = L.job[i]
  BY <1>3 DEF LedgerType
<1> HIDE DEF K
<1>5. /\ M \in LedgerType /\ M.active = v /\ M.accepted = L.accepted
      /\ M.job[j] = k /\ \A i \in Jobs \ {j} : M.job[i] = L.job[i]
  BY <1>1, <1>4 DEF LedgerType
<1> HIDE DEF Restate
<1>6. QED
  BY <1>3, <1>4, <1>5

LEMMA StartingFacts ==
    ASSUME NEW L \in LedgerType, NEW j \in Jobs, L.job[j].st = "pending",
           NEW M, M = Restate(L, j, j, "starting", None)
    PROVE  /\ M \in LedgerType /\ M.active = j /\ M.accepted = L.accepted
           /\ M.job[j].st = "starting" /\ M.job[j].owner = None
           /\ M.job[j].session = L.job[j].session
           /\ \A i \in Jobs \ {j} : M.job[i] = L.job[i]
<1>1. "starting" \in Active \cup Terminal \cup {"pending"} /\ L.job[j].st # "none"
  BY DEF Active
<1>2. QED
  BY <1>1, Restated

\* What a step may do to the records and their numbers if it writes one record.
LEMMA OneOnward ==
    ASSUME Sound, NEW j \in Jobs, Job(j).st # "none",
           ledger' \in LedgerType, ledger'.accepted = ledger.accepted,
           \A i \in Jobs \ {j} : ledger'.job[i] = Job(i),
           \/ ledger'.job[j].owner \in {None, Job(j).owner}
           \/ LET p == ledger'.job[j].owner
              IN  p \in Pids /\ proc[p].at # "none" /\ proc[p].job = j
    PROVE  JobsOnward /\ ledger.accepted <= ledger'.accepted
<1>1. ~(j > ledger.accepted)
  BY DEF Sound, Numbered, Job, NoJob
<1>2. ledger.accepted <= ledger'.accepted
  BY ConstantsAssumption DEF Sound, TypeOK, LedgerType
<1>3. QED
  BY <1>1, <1>2 DEF JobsOnward, Sound, Numbered

LEMMA DispatchFacts ==
    ASSUME Sound, Dispatch
    PROVE  /\ op # Free /\ op.at = "dispatch" /\ op.mem.active = None
           /\ UNCHANGED << proc, owed, turned, asks, kills, faults >>
           /\ op' \in OpType /\ op' # Free /\ op'.at = "launch" /\ op'.by = op.by
           /\ op'.mem = ledger' /\ op'.job \in Jobs
           /\ ledger' \in LedgerType /\ ledger'.accepted = ledger.accepted
           /\ ledger'.active = op'.job /\ Job(op'.job).st = "pending"
           /\ LET n == ledger'.job[op'.job]
              IN  n.st = "starting" /\ n.owner = None /\ n.session = Job(op'.job).session
           /\ \A i \in Jobs \ {op'.job} : ledger'.job[i] = Job(i)
<1>1. /\ op # Free /\ op.at = "dispatch" /\ op.mem \in LedgerType /\ op \in OpType
      /\ op.mem.job = ledger.job /\ op.mem.accepted = ledger.accepted
      /\ op.mem.active = None /\ op.by \in Pids \cup {None}
  BY OpFields DEF Dispatch, Sound, TypeOK, Placed, Copied
<1>2. PICK j \in Jobs : j = Oldest(Pending(op.mem)) /\ Job(j).st = "pending"
  <2>1. Pending(op.mem) \in SUBSET Nat /\ Pending(op.mem) # {}
    <3>1. Pending(op.mem) # {}
      BY DEF Dispatch
    <3>2. Jobs \subseteq Nat
      BY ConstantsAssumption DEF Jobs
    <3>3. QED
      BY <3>1, <3>2 DEF Pending, InState
  <2>2. Oldest(Pending(op.mem)) \in Pending(op.mem)
    BY <2>1, OldestIsOne
  <2>3. QED
    BY <1>1, <2>2 DEF Pending, InState, Job
<1>3. PICK M : /\ M = Restate(op.mem, j, j, "starting", None)
               /\ ledger' = M /\ op' = [op EXCEPT !.at = "launch", !.mem = M, !.job = j]
  BY <1>2 DEF Dispatch, Restate
<1>4. /\ M \in LedgerType /\ M.active = j /\ M.accepted = ledger.accepted
      /\ M.job[j].st = "starting" /\ M.job[j].owner = None /\ M.job[j].session = Job(j).session
      /\ \A i \in Jobs \ {j} : M.job[i] = Job(i)
  BY <1>1, <1>2, <1>3, StartingFacts DEF Job
<1>5. /\ op' \in OpType /\ op' # Free /\ op'.at = "launch" /\ op'.by = op.by /\ op'.mem = M
      /\ op'.job = j
  BY <1>1, <1>3, <1>4 DEF OpType, Free
<1>6. UNCHANGED << proc, owed, turned, asks, kills, faults >>
  BY DEF Dispatch, mishaps
<1>7. QED
  BY <1>1, <1>2, <1>3, <1>4, <1>5, <1>6

LEMMA DispatchSound ==
    ASSUME Sound, Dispatch, UNCHANGED frail
    PROVE  Sound'
<1>1. /\ op # Free /\ UNCHANGED << proc, owed, turned, asks, kills, faults >>
      /\ op' \in OpType /\ op' # Free /\ op'.at = "launch" /\ op'.by = op.by
      /\ op'.mem = ledger' /\ ledger' \in LedgerType /\ ledger'.accepted = ledger.accepted
  BY DispatchFacts
<1>2. PICK j \in Jobs :
        /\ j = op'.job /\ ledger'.active = j /\ Job(j).st = "pending"
        /\ ledger'.job[j].st = "starting" /\ ledger'.job[j].owner = None
        /\ \A i \in Jobs \ {j} : ledger'.job[i] = Job(i)
  BY DispatchFacts
<1>3. TypeOK'
  BY <1>1 DEF Sound, TypeOK
<1>4. JobsOnward /\ ProcsOnward /\ ledger.accepted <= ledger'.accepted
  BY <1>1, <1>2, OneOnward DEF ProcsOnward
<1>5. Placed'
  BY <1>1, <1>2, <1>3, <1>4, OnwardFrame DEF Sound, Placed, Launching, Holds
<1>6. Copied' /\ Launched'
  BY <1>1, <1>2 DEF Copied, Launched, Launching, Job
<1>7. QED
  BY <1>3, <1>4, <1>5, <1>6, OnwardFrame DEF Sound

LEMMA LaunchFailsFacts ==
    ASSUME Sound, LaunchFails
    PROVE  /\ op # Free /\ op.at = "launch" /\ op.job \in Jobs
           /\ UNCHANGED << proc, turned, asks, kills >>
           /\ faults' = faults + 1 /\ MishapLeft /\ owed' = owed \ {Job(op.job).session}
           /\ op' \in OpType /\ op' # Free /\ op'.at = "dispatch" /\ op'.by = op.by
           /\ op'.mem = ledger' /\ ledger' \in LedgerType /\ ledger'.accepted = ledger.accepted
           /\ ledger.active = op.job /\ ledger'.active = None
           /\ Job(op.job).st = "starting"
           /\ ledger'.job[op.job].st = "failed" /\ ledger'.job[op.job].owner = None
           /\ \A i \in Jobs \ {op.job} : ledger'.job[i] = Job(i)
<1>1. /\ op # Free /\ op.at = "launch" /\ op.mem = ledger /\ op \in OpType
      /\ ledger \in LedgerType /\ op.job \in Jobs
      /\ Job(op.job).st = "starting" /\ Job(op.job).owner = None
  <2>1. op # Free /\ op.at = "launch" /\ op \in OpType /\ op.mem \in LedgerType /\ ledger \in LedgerType
    BY OpFields DEF LaunchFails, Sound, TypeOK
  <2>2. op.mem.job = ledger.job /\ op.mem.accepted = ledger.accepted /\ op.mem.active = ledger.active
    BY <2>1 DEF Sound, Copied, Launching
  <2>3. op.mem = ledger
    BY <2>1, <2>2 DEF LedgerType
  <2>4. QED
    BY <2>1, <2>3 DEF Sound, Placed, Launched, Launching
<1>2. PICK M : /\ M = [ledger EXCEPT !.active = None, !.job[op.job].st = "failed"]
               /\ ledger' = M /\ op' = [op EXCEPT !.at = "dispatch", !.mem = M, !.job = None]
  BY <1>1 DEF LaunchFails
<1>3. /\ M \in LedgerType /\ M.active = None /\ M.accepted = ledger.accepted
      /\ M.job[op.job].owner = None /\ M.job[op.job].st = "failed"
      /\ \A i \in Jobs \ {op.job} : M.job[i] = Job(i)
  <2> DEFINE k == [Job(op.job) EXCEPT !.st = "failed"]
  <2>1. M = [ledger EXCEPT !.active = None, !.job[op.job] = k]
    BY <1>1, <1>2 DEF LedgerType, Job
  <2>2. k \in JobType /\ k.owner = None /\ k.st = "failed"
    <3>1. Job(op.job) \in JobType /\ Job(op.job) # NoJob
      BY <1>1 DEF LedgerType, Job, NoJob
    <3>2. QED
      BY <1>1, <3>1 DEF JobType, Terminal
  <2> HIDE DEF k
  <2>3. QED
    BY <1>1, <2>1, <2>2 DEF LedgerType, Job
<1>4. /\ op' \in OpType /\ op' # Free /\ op'.at = "dispatch" /\ op'.by = op.by /\ op'.mem = M
  BY <1>1, <1>2, <1>3 DEF OpType, Free
<1>5. /\ UNCHANGED << proc, turned, asks, kills >>
      /\ faults' = faults + 1 /\ owed' = owed \ {op.mem.job[op.job].session} /\ MishapLeft
  BY DEF LaunchFails
<1>6. owed' = owed \ {Job(op.job).session} /\ ledger.active = op.job
  BY <1>1, <1>5 DEF Job, Sound, Launched, Launching
<1>7. QED
  BY <1>1, <1>2, <1>3, <1>4, <1>5, <1>6

LEMMA LaunchFailsSound ==
    ASSUME Sound, LaunchFails, UNCHANGED frail
    PROVE  Sound'
<1>1. /\ op # Free /\ op.job \in Jobs /\ Job(op.job).st = "starting"
      /\ UNCHANGED << proc, turned, asks, kills >>
      /\ faults' = faults + 1 /\ MishapLeft /\ owed' = owed \ {Job(op.job).session}
      /\ op' \in OpType /\ op' # Free /\ op'.at = "dispatch" /\ op'.by = op.by
      /\ op'.mem = ledger' /\ ledger' \in LedgerType /\ ledger'.accepted = ledger.accepted
      /\ ledger'.job[op.job].owner = None
      /\ \A i \in Jobs \ {op.job} : ledger'.job[i] = Job(i)
  BY LaunchFailsFacts
<1>2. TypeOK'
  BY <1>1, ConstantsAssumption DEF Sound, TypeOK, MishapLeft
<1>3. JobsOnward /\ ProcsOnward /\ ledger.accepted <= ledger'.accepted
  BY <1>1, OneOnward DEF ProcsOnward
<1>4. QED
  BY <1>1, <1>2, <1>3, OnwardFrame DEF Sound, Placed, Copied, Launched, Launching, Holds

LEMMA RecordFacts ==
    ASSUME Sound, Record
    PROVE  /\ op # Free /\ op.at = "record" /\ op.job \in Jobs /\ op.child \in Pids
           /\ proc[op.child].at \in {"boot", "ended"} /\ proc[op.child].job = op.job
           /\ Release /\ UNCHANGED << owed, turned, asks, kills, faults >>
           /\ ledger' \in LedgerType /\ ledger'.accepted = ledger.accepted
           /\ ledger.active = op.job /\ ledger'.active = op.job
           /\ Job(op.job).st = "starting"
           /\ LET n == ledger'.job[op.job]
              IN  n.st = "running" /\ n.owner = op.child /\ n.session = Job(op.job).session
           /\ \A i \in Jobs \ {op.job} : ledger'.job[i] = Job(i)
<1>1. /\ op # Free /\ op.at = "record" /\ ledger \in LedgerType
      /\ op.job \in Jobs /\ op.child \in Pids /\ ledger.active = op.job
      /\ Job(op.job).st = "starting"
      /\ proc[op.child].at \in {"boot", "ended"} /\ proc[op.child].job = op.job
  BY DEF Record, Sound, TypeOK, Placed, Launched, Launching, Free
<1>2. ledger' = [ledger EXCEPT !.job[op.job].st = "running", !.job[op.job].owner = op.child]
  BY <1>1 DEF Record, Job
<1>3. /\ ledger' \in LedgerType /\ ledger'.accepted = ledger.accepted
      /\ ledger'.active = ledger.active
      /\ ledger'.job[op.job].st = "running" /\ ledger'.job[op.job].owner = op.child
      /\ ledger'.job[op.job].session = Job(op.job).session
      /\ \A i \in Jobs \ {op.job} : ledger'.job[i] = Job(i)
  <2>1. ledger' = Restate(ledger, ledger.active, op.job, "running", op.child)
    BY <1>1, <1>2 DEF Restate, LedgerType
  <2>2. /\ ledger.active \in Jobs \cup {None} /\ ledger.job[op.job].st # "none"
        /\ "running" \in Active \cup Terminal \cup {"pending"}
    BY <1>1 DEF Job, Active
  <2>3. QED
    BY <1>1, <2>1, <2>2, Restated DEF Job
<1>4. Release /\ UNCHANGED << owed, turned, asks, kills, faults >>
  BY DEF Record, mishaps
<1>5. QED
  BY <1>1, <1>3, <1>4

LEMMA RecordSound ==
    ASSUME Sound, Record, UNCHANGED frail
    PROVE  Sound'
<1>1. /\ op # Free /\ op.job \in Jobs /\ op.child \in Pids
      /\ proc[op.child].at # "none" /\ proc[op.child].job = op.job
      /\ Release /\ UNCHANGED << owed, turned, asks, kills, faults >>
      /\ ledger' \in LedgerType /\ ledger'.accepted = ledger.accepted
      /\ Job(op.job).st = "starting" /\ ledger'.job[op.job].owner = op.child
      /\ \A i \in Jobs \ {op.job} : ledger'.job[i] = Job(i)
  BY RecordFacts
<1>2. op' = Free /\ op'.at = "free" /\ ProcsOnward
  BY <1>1, ReleaseFrame
<1>3. TypeOK'
  BY <1>1, ReleaseFrame DEF Sound, TypeOK
<1>4. JobsOnward /\ ledger.accepted <= ledger'.accepted
  BY <1>1, OneOnward
<1>5. QED
  BY <1>2, <1>3, <1>4, OnwardFrame DEF Sound, Placed, Copied, Launched, Launching, Holds

LEMMA LaunchFacts ==
    ASSUME Sound, Launch
    PROVE  /\ op # Free /\ op.at = "launch" /\ op.job \in Jobs
           /\ ledger.active = op.job /\ Job(op.job).st = "starting" /\ Job(op.job).owner = None
           /\ UNCHANGED << ledger, owed, turned, asks, kills, faults >>
           /\ op' \in OpType /\ op' # Free /\ op'.at = "record" /\ op'.by = op.by
           /\ op'.mem = op.mem /\ op'.job = op.job
           /\ proc' \in [Pids -> ProcType]
           /\ \E p \in Pids : /\ op'.child = p /\ proc[p].at = "none"
                             /\ proc'[p].at = "boot" /\ proc'[p].job = op.job
                             /\ \A q \in Pids \ {p} : proc'[q] = proc[q]
<1>1. /\ op # Free /\ op.at = "launch" /\ op \in OpType /\ op.job \in Jobs
      /\ ledger.active = op.job /\ Job(op.job).st = "starting" /\ Job(op.job).owner = None
  BY DEF Launch, Sound, TypeOK, Placed, Launched, Launching, Free
<1>2. PICK p \in Pids : /\ proc[p].at = "none"
                        /\ proc' = [proc EXCEPT ![p].at = "boot", ![p].job = op.job]
                        /\ op' = [op EXCEPT !.at = "record", !.child = p]
  BY DEF Launch
<1>3. UNCHANGED << ledger, owed, turned, asks, kills, faults >>
  BY DEF Launch, mishaps
<1>4. /\ proc' \in [Pids -> ProcType] /\ proc'[p].at = "boot" /\ proc'[p].job = op.job
      /\ \A q \in Pids \ {p} : proc'[q] = proc[q]
  BY <1>1, <1>2 DEF Sound, TypeOK, ProcType
<1>5. /\ op' \in OpType /\ op' # Free /\ op'.at = "record" /\ op'.by = op.by /\ op'.mem = op.mem
      /\ op'.job = op.job /\ op'.child = p
  BY <1>1, <1>2 DEF OpType, Free
<1>6. QED
  BY <1>1, <1>2, <1>3, <1>4, <1>5

LEMMA LaunchSound ==
    ASSUME Sound, Launch, UNCHANGED frail
    PROVE  Sound'
<1>1. /\ op # Free /\ op.at = "launch" /\ op.job \in Jobs
      /\ ledger.active = op.job /\ Job(op.job).st = "starting" /\ Job(op.job).owner = None
      /\ UNCHANGED << ledger, owed, turned, asks, kills, faults >>
      /\ op' \in OpType /\ op' # Free /\ op'.at = "record" /\ op'.by = op.by
      /\ op'.mem = op.mem /\ op'.job = op.job
      /\ proc' \in [Pids -> ProcType]
  BY LaunchFacts
<1>2. PICK p \in Pids : /\ op'.child = p /\ proc[p].at = "none"
                        /\ proc'[p].at = "boot" /\ proc'[p].job = op.job
                        /\ \A q \in Pids \ {p} : proc'[q] = proc[q]
  BY LaunchFacts
<1>3. TypeOK'
  BY <1>1 DEF Sound, TypeOK
<1>4. Placed'
  BY <1>1, <1>2 DEF Sound, Placed, Launching, Holds
<1>5. Copied' /\ Launched'
  BY <1>1, <1>2 DEF Sound, Copied, Launched, Launching, Job
<1>6. Numbered'
  <2>1. op.job <= ledger.accepted
    BY <1>1, ConstantsAssumption DEF Sound, Numbered, NoJob, TypeOK, LedgerType, Jobs
  <2>2. QED
    BY <1>1, <1>2, <2>1 DEF Sound, Numbered, Job
<1>7. OwnersKnown'
  BY <1>1, <1>2, NoneIsNobody DEF Sound, OwnersKnown, Job, TypeOK, LedgerType, JobType, NoJob
<1>8. QED
  BY <1>3, <1>4, <1>5, <1>6, <1>7 DEF Sound

\* One worker goes on.
LEMMA OneWorker ==
    ASSUME proc \in [Pids -> ProcType], NEW p \in Pids, NEW w \in ProcType, proc[p].at # "none",
           w.job = proc[p].job, w.at # "none", proc' = [proc EXCEPT ![p] = w]
    PROVE  /\ proc' \in [Pids -> ProcType] /\ ProcsOnward
           /\ proc'[p] = w /\ \A q \in Pids \ {p} : proc'[q] = proc[q]
BY DEF ProcsOnward

\* The steps of workers that write nothing.
LEMMA WorkerSound ==
    ASSUME Sound, TypeOK', UNCHANGED << ledger, op >>, ProcsOnward,
           NEW p \in Pids, \A q \in Pids \ {p} : proc'[q] = proc[q],
           op = Free \/ (~Holds(p) /\ (proc[p].at = "work" \/ proc'[p].at = "ended"))
    PROVE  Sound'
<1>1. JobsOnward /\ ledger.accepted <= ledger'.accepted
  BY ConstantsAssumption DEF JobsOnward, Sound, Numbered, TypeOK, LedgerType, Job
<1>2. Numbered' /\ OwnersKnown' /\ \A q \in Pids : proc'[q].at # "none" => proc'[q].job \in Jobs
  BY <1>1, OnwardFrame
<1>3. Placed'
  BY <1>2 DEF Sound, Placed, Launching, Holds
<1>4. Copied'
  BY DEF Sound, Copied, Launching
<1>5. Launched'
  <2>1. op.at = "record" => op # Free /\ op.child \in Pids
    BY DEF Sound, Placed, Launching, Free
  <2>2. op.at = "record" => proc'[op.child].at \in {"boot", "ended"} /\ proc'[op.child].job = op.job
    BY <2>1 DEF Sound, Launched, Placed, ProcsOnward
  <2>3. QED
    BY <2>2 DEF Sound, Launched, Launching, Job
<1>6. QED
  BY <1>2, <1>3, <1>4, <1>5 DEF Sound

LEMMA WorkSound ==
    ASSUME Sound, NEW p \in Pids, Work(p), UNCHANGED frail
    PROVE  Sound'
<1>1. PICK raised \in BOOLEAN : proc' = [proc EXCEPT ![p].at = "finish", ![p].error = raised]
  BY DEF Work
<1>2. PICK w \in ProcType : /\ w = [proc[p] EXCEPT !.at = "finish", !.error = raised]
                            /\ proc' = [proc EXCEPT ![p] = w]
                            /\ w.at = "finish" /\ w.job = proc[p].job
  <2> DEFINE v == [proc[p] EXCEPT !.at = "finish", !.error = raised]
  <2>1. proc[p] \in ProcType
    BY DEF Sound, TypeOK
  <2>2. v \in ProcType /\ v.at = "finish" /\ v.job = proc[p].job
    BY <2>1 DEF ProcType
  <2>3. proc' = [proc EXCEPT ![p] = v]
    BY <1>1
  <2>4. QED
    BY <2>2, <2>3
<1>3. /\ proc[p].at = "work" /\ ~Holds(p)
      /\ UNCHANGED << ledger, op, owed, turned, asks, kills, faults, frail >>
  BY DEF Work, mishaps, Sound, Placed
<1>4. /\ proc' \in [Pids -> ProcType] /\ ProcsOnward
      /\ proc'[p] = w /\ \A q \in Pids \ {p} : proc'[q] = proc[q]
  BY <1>2, <1>3, OneWorker DEF Sound, TypeOK
<1>5. TypeOK'
  BY <1>3, <1>4 DEF Sound, TypeOK
<1>6. QED
  BY <1>3, <1>4, <1>5, WorkerSound

\* A worker ends, or fails to finish.
LEMMA StopFacts ==
    ASSUME proc \in [Pids -> ProcType], NEW p \in Pids, proc[p].at # "none",
           proc' \in {[proc EXCEPT ![p].at = "ended"], Failing(p)}
    PROVE  /\ proc' \in [Pids -> ProcType] /\ ProcsOnward
           /\ proc'[p].at = "ended" \/ (proc' = Failing(p) /\ proc'[p].at = "finish")
           /\ \A q \in Pids \ {p} : proc'[q] = proc[q]
<1> DEFINE Stopped(w) == proc' = [proc EXCEPT ![p] = w] /\ w \in ProcType /\ w.job = proc[p].job
<1>1. PICK w : /\ Stopped(w)
               /\ w.at = "ended" \/ (proc' = Failing(p) /\ w.at = "finish")
  <2>1. CASE proc' = [proc EXCEPT ![p].at = "ended"]
    <3>1. Stopped([proc[p] EXCEPT !.at = "ended"]) /\ [proc[p] EXCEPT !.at = "ended"].at = "ended"
      BY <2>1 DEF ProcType
    <3>2. QED
      BY <3>1
  <2>2. CASE proc' = Failing(p) /\ proc[p].error
    <3>1. Stopped([proc[p] EXCEPT !.at = "ended"]) /\ [proc[p] EXCEPT !.at = "ended"].at = "ended"
      BY <2>2 DEF ProcType, Failing
    <3>2. QED
      BY <3>1
  <2>3. CASE proc' = Failing(p) /\ ~proc[p].error
    <3> DEFINE w == [proc[p] EXCEPT !.at = "finish", !.error = TRUE]
    <3>1. Stopped(w) /\ w.at = "finish"
      BY <2>3 DEF ProcType, Failing
    <3>2. QED
      BY <2>3, <3>1
  <2>4. QED
    BY <2>1, <2>2, <2>3
<1>2. w.at # "none" /\ w \in ProcType
  BY <1>1
<1>3. QED
  BY <1>1, <1>2, OneWorker

LEMMA KillSound ==
    ASSUME Sound, NEW p \in Pids, Kill(p), UNCHANGED frail
    PROVE  Sound'
<1>1. /\ proc[p].at # "none" /\ ~Holds(p) /\ MishapLeft /\ kills' = kills + 1
      /\ proc' = [proc EXCEPT ![p].at = "ended"]
      /\ UNCHANGED << ledger, op, owed, turned, asks, faults, frail >>
  BY DEF Kill
<1>2. /\ proc' \in [Pids -> ProcType] /\ ProcsOnward /\ proc'[p].at = "ended"
      /\ \A q \in Pids \ {p} : proc'[q] = proc[q]
  BY <1>1 DEF Sound, TypeOK, ProcType, ProcsOnward
<1>3. TypeOK'
  BY <1>1, <1>2, ConstantsAssumption DEF Sound, TypeOK, MishapLeft
<1>4. QED
  BY <1>1, <1>2, <1>3, WorkerSound

LEMMA FinishGoneSound ==
    ASSUME Sound, NEW p \in Pids, FinishGone(p), UNCHANGED frail
    PROVE  Sound'
<1>1. /\ proc[p].at # "none" /\ op = Free /\ proc' = [proc EXCEPT ![p].at = "ended"]
      /\ UNCHANGED << ledger, op, owed, turned, asks, kills, faults, frail >>
  BY DEF FinishGone, mishaps
<1>2. /\ proc' \in [Pids -> ProcType] /\ ProcsOnward
      /\ \A q \in Pids \ {p} : proc'[q] = proc[q]
  BY <1>1, StopFacts DEF Sound, TypeOK
<1>3. TypeOK'
  BY <1>1, <1>2 DEF Sound, TypeOK
<1>4. QED
  BY <1>1, <1>2, <1>3, WorkerSound

LEMMA FinishFailsSound ==
    ASSUME Sound, NEW p \in Pids, FinishFails(p), UNCHANGED frail
    PROVE  Sound'
<1>1. /\ proc[p].at # "none" /\ op = Free /\ proc' = Failing(p) /\ MishapLeft /\ faults' = faults + 1
      /\ UNCHANGED << ledger, op, owed, turned, asks, kills, frail >>
  BY DEF FinishFails
<1>2. /\ proc' \in [Pids -> ProcType] /\ ProcsOnward
      /\ \A q \in Pids \ {p} : proc'[q] = proc[q]
  BY <1>1, StopFacts DEF Sound, TypeOK
<1>3. TypeOK'
  BY <1>1, <1>2, ConstantsAssumption DEF Sound, TypeOK, MishapLeft
<1>4. QED
  BY <1>1, <1>2, <1>3, WorkerSound

LEMMA ReloadSound ==
    ASSUME Sound, NEW p \in Pids, Reload(p), UNCHANGED frail
    PROVE  Sound'
<1>1. /\ proc[p].at = "reload" /\ op = Free
      /\ UNCHANGED << ledger, op, turned, asks, kills, faults, frail >>
      /\ owed' \in SUBSET Sessions
  BY DEF Reload, Started, mishaps, Sound, TypeOK
<1>2. PICK place \in {"work", "ended"} : proc' = [proc EXCEPT ![p].at = place]
  BY DEF Reload, Started
<1>3. /\ proc' \in [Pids -> ProcType] /\ ProcsOnward
      /\ \A q \in Pids \ {p} : proc'[q] = proc[q]
  BY <1>1, <1>2 DEF Sound, TypeOK, ProcType, ProcsOnward
<1>4. TypeOK'
  BY <1>1, <1>3 DEF Sound, TypeOK
<1>5. QED
  BY <1>1, <1>3, <1>4, WorkerSound

LEMMA AbortSound ==
    ASSUME Sound, Abort, UNCHANGED frail
    PROVE  Sound'
<1>1. /\ op.at # "free" /\ op # Free /\ op.by \in Pids \cup {None}
      /\ op' = Free /\ op' \in OpType /\ op'.at = "free" /\ MishapLeft /\ faults' = faults + 1
      /\ UNCHANGED << ledger, owed, turned, asks, kills, frail >>
  <2>1. op.at # "free"
    BY ConstantsAssumption DEF Abort, Sound, TypeOK
  <2>2. QED
    BY <2>1, OpFields DEF Abort, Sound, TypeOK, OpType, Free
<1>2. proc' \in [Pids -> ProcType] /\ ProcsOnward
  <2>1. CASE op.by = None
    BY <2>1 DEF Abort, Sound, TypeOK, ProcsOnward
  <2>2. CASE op.by # None
    <3>1. op.by \in Pids /\ proc[op.by].at # "none"
      BY <1>1, <2>2 DEF Sound, Placed, Holds
    <3>2. QED
      BY <2>2, <3>1, StopFacts DEF Abort, Sound, TypeOK
  <2>3. QED
    BY <2>1, <2>2
<1>3. TypeOK'
  BY <1>1, <1>2, ConstantsAssumption DEF Sound, TypeOK, MishapLeft
<1>4. JobsOnward /\ ledger.accepted <= ledger'.accepted
  BY <1>1, ConstantsAssumption DEF JobsOnward, Sound, Numbered, TypeOK, LedgerType, Job
<1>5. QED
  BY <1>1, <1>2, <1>3, <1>4, OnwardFrame DEF Sound, Placed, Copied, Launched, Launching, Holds

LEMMA BootFacts ==
    ASSUME Sound, NEW p \in Pids, Boot(p)
    PROVE  /\ proc[p].at = "boot" /\ op = Free /\ proc[p].job \in Jobs
           /\ UNCHANGED << op, turned, asks, kills, faults >>
           /\ proc' \in [Pids -> ProcType] /\ ProcsOnward
           /\ \A q \in Pids \ {p} : proc'[q] = proc[q]
           /\ Job(proc[p].job).st \in Active =>
                 /\ proc'[p].at = "work" /\ owed' = owed \ {Job(proc[p].job).session}
                 /\ ledger' \in LedgerType /\ ledger'.accepted = ledger.accepted
                 /\ ledger'.active = ledger.active
                 /\ LET n == ledger'.job[proc[p].job]
                    IN  /\ n.st = "running" /\ n.owner = p
                        /\ n.session = Job(proc[p].job).session /\ n.rerun = Job(proc[p].job).rerun
                 /\ \A i \in Jobs \ {proc[p].job} : ledger'.job[i] = Job(i)
           /\ Job(proc[p].job).st \notin Active => proc'[p].at = "ended" /\ UNCHANGED << ledger, owed >>
<1> DEFINE j == proc[p].job
<1>1. /\ proc[p].at = "boot" /\ op = Free /\ j \in Jobs /\ ledger \in LedgerType
      /\ UNCHANGED << op, turned, asks, kills, faults >>
  BY DEF Boot, mishaps, Sound, Placed, TypeOK
<1>2. CASE Job(j).st \in Active
  <2>1. /\ ledger' = [ledger EXCEPT !.job[j].st = "running", !.job[j].owner = p]
        /\ proc' = [proc EXCEPT ![p].at = "work"] /\ owed' = owed \ {Job(j).session}
    BY <1>2 DEF Boot, Started, Job
  <2>2. ledger' = Restate(ledger, ledger.active, j, "running", p)
    BY <1>1, <2>1 DEF Restate, LedgerType
  <2>3. /\ ledger.active \in Jobs \cup {None} /\ ledger.job[j].st # "none"
        /\ "running" \in Active \cup Terminal \cup {"pending"} /\ p \in Pids \cup {None}
    BY <1>1, <1>2 DEF Job, Active, LedgerType
  <2>4. /\ proc' \in [Pids -> ProcType] /\ ProcsOnward /\ proc'[p].at = "work"
        /\ \A q \in Pids \ {p} : proc'[q] = proc[q]
    BY <1>1, <2>1 DEF Sound, TypeOK, ProcType, ProcsOnward
  <2> HIDE DEF j
  <2>5. /\ ledger' \in LedgerType /\ ledger'.accepted = ledger.accepted
        /\ ledger'.active = ledger.active
        /\ ledger'.job[j].st = "running" /\ ledger'.job[j].owner = p
        /\ ledger'.job[j].session = Job(j).session /\ ledger'.job[j].rerun = Job(j).rerun
        /\ \A i \in Jobs \ {j} : ledger'.job[i] = Job(i)
    BY <1>1, <2>2, <2>3, Restated DEF Job
  <2>6. QED
    BY <1>1, <1>2, <2>1, <2>4, <2>5 DEF j
<1>3. CASE Job(j).st \notin Active
  <2>1. proc' = [proc EXCEPT ![p].at = "ended"] /\ UNCHANGED << ledger, owed >>
    BY <1>3 DEF Boot, Job
  <2>2. /\ proc' \in [Pids -> ProcType] /\ ProcsOnward /\ proc'[p].at = "ended"
        /\ \A q \in Pids \ {p} : proc'[q] = proc[q]
    BY <1>1, <2>1 DEF Sound, TypeOK, ProcType, ProcsOnward
  <2>3. QED
    BY <1>1, <1>3, <2>1, <2>2
<1>4. QED
  BY <1>2, <1>3

LEMMA BootSound ==
    ASSUME Sound, NEW p \in Pids, Boot(p), UNCHANGED frail
    PROVE  Sound'
<1> DEFINE j == proc[p].job
<1>1. /\ op = Free /\ UNCHANGED << op, turned, asks, kills, faults >> /\ j \in Jobs
      /\ proc[p].at = "boot" /\ proc' \in [Pids -> ProcType] /\ ProcsOnward
      /\ \A q \in Pids \ {p} : proc'[q] = proc[q]
  BY BootFacts
<1>2. CASE Job(j).st \in Active
  <2>1. /\ owed' = owed \ {Job(j).session}
        /\ ledger' \in LedgerType /\ ledger'.accepted = ledger.accepted
        /\ ledger'.job[j].owner = p
        /\ \A i \in Jobs \ {j} : ledger'.job[i] = Job(i)
    BY <1>2, BootFacts
  <2>2. TypeOK'
    BY <1>1, <2>1 DEF Sound, TypeOK
  <2>3. JobsOnward /\ ledger.accepted <= ledger'.accepted
    <3>1. Job(j).st # "none"
      BY <1>2 DEF Active
    <3>2. QED
      BY <1>1, <2>1, <3>1, OneOnward
  <2>4. QED
    BY <1>1, <2>2, <2>3, OnwardFrame DEF Sound, Placed, Copied, Launched, Launching, Holds, Free
<1>3. CASE Job(j).st \notin Active
  <2>1. UNCHANGED << ledger, owed >>
    BY <1>3, BootFacts
  <2>2. TypeOK'
    BY <1>1, <2>1 DEF Sound, TypeOK
  <2>3. QED
    BY <1>1, <2>1, <2>2, WorkerSound
<1>4. QED
  BY <1>2, <1>3

LEMMA FinishRerunFacts ==
    ASSUME Sound, NEW p \in Pids, FinishRerun(p)
    PROVE  /\ proc[p].at = "finish" /\ op = Free /\ proc[p].job \in Jobs
           /\ UNCHANGED << op, owed, turned, asks, kills, faults >>
           /\ proc' \in [Pids -> ProcType] /\ ProcsOnward /\ proc'[p].at = "reload"
           /\ \A q \in Pids \ {p} : proc'[q] = proc[q]
           /\ ledger' \in LedgerType /\ ledger'.accepted = ledger.accepted
           /\ ledger'.active = ledger.active
           /\ Job(proc[p].job).st # "none" /\ Job(proc[p].job).rerun
           /\ LET n == ledger'.job[proc[p].job]
              IN  n.st = "running" /\ n.owner = p /\ n.session = Job(proc[p].job).session
           /\ \A i \in Jobs \ {proc[p].job} : ledger'.job[i] = Job(i)
<1> DEFINE j == proc[p].job
           k == [Job(j) EXCEPT !.rerun = FALSE, !.st = "running", !.owner = p]
<1>1. /\ proc[p].at = "finish" /\ op = Free /\ j \in Jobs /\ ledger \in LedgerType
      /\ Job(j) # NoJob /\ Job(j).st # "none" /\ Job(j).rerun
      /\ UNCHANGED << op, owed, turned, asks, kills, faults >>
      /\ proc' = [proc EXCEPT ![p].at = "reload"]
  BY DEF FinishRerun, mishaps, Sound, Placed, TypeOK, Job, NoJob
<1>2. ledger' = [ledger EXCEPT !.job[j] = k]
  BY <1>1 DEF FinishRerun, Job, LedgerType, JobType
<1>3. k \in JobType /\ k.owner = p /\ k.st = "running" /\ k.session = Job(j).session
  <2>1. Job(j) \in JobType
    BY <1>1 DEF LedgerType, Job
  <2>2. QED
    BY <1>1, <2>1 DEF JobType, Active
<1>4. /\ proc' \in [Pids -> ProcType] /\ ProcsOnward /\ proc'[p].at = "reload"
      /\ \A q \in Pids \ {p} : proc'[q] = proc[q]
  BY <1>1 DEF Sound, TypeOK, ProcType, ProcsOnward
<1> HIDE DEF k, j
<1>5. /\ ledger' \in LedgerType /\ ledger'.accepted = ledger.accepted
      /\ ledger'.active = ledger.active /\ ledger'.job[j] = k
      /\ \A i \in Jobs \ {j} : ledger'.job[i] = Job(i)
  BY <1>1, <1>2, <1>3 DEF LedgerType, Job
<1>6. QED
  BY <1>1, <1>3, <1>4, <1>5 DEF j

LEMMA FinishRerunSound ==
    ASSUME Sound, NEW p \in Pids, FinishRerun(p), UNCHANGED frail
    PROVE  Sound'
<1> DEFINE j == proc[p].job
<1>1. /\ proc[p].at = "finish" /\ op = Free /\ j \in Jobs
      /\ UNCHANGED << op, owed, turned, asks, kills, faults >>
      /\ proc' \in [Pids -> ProcType] /\ ProcsOnward
      /\ ledger' \in LedgerType /\ ledger'.accepted = ledger.accepted
      /\ Job(j).st # "none" /\ ledger'.job[j].owner = p
      /\ \A i \in Jobs \ {j} : ledger'.job[i] = Job(i)
  BY FinishRerunFacts
<1>2. TypeOK'
  BY <1>1 DEF Sound, TypeOK
<1>3. JobsOnward /\ ledger.accepted <= ledger'.accepted
  BY <1>1, OneOnward
<1>4. QED
  BY <1>1, <1>2, <1>3, OnwardFrame DEF Sound, Placed, Copied, Launched, Launching, Holds, Free

\* The end of a job, and the records that are dropped with it.
LEMMA FinishedFacts ==
    ASSUME NEW L \in LedgerType, NEW j \in Jobs, L.job[j].st # "none",
           NEW st \in Terminal, NEW M, M = Finished(L, j, st)
    PROVE  /\ M \in LedgerType /\ M.active = None /\ M.accepted = L.accepted
           /\ M.job[j].owner = None /\ M.job[j].st \in Terminal \cup {"none"}
           /\ M.job[j].rerun \in {L.job[j].rerun, FALSE}
           /\ \A i \in Jobs \ {j} : M.job[i] = L.job[i] \/ Dropped(L.job[i], M.job[i])
<1> DEFINE R == Restate(L, None, j, st, None)
<1>1. st \in Active \cup Terminal \cup {"pending"} /\ None \in Jobs \cup {None}
  OBVIOUS
<1>2. M = Pruned(R)
  BY DEF Finished, Restate
<1>3. /\ R \in LedgerType /\ R.active = None /\ R.accepted = L.accepted
      /\ R.job[j].st = st /\ R.job[j].owner = None /\ R.job[j].rerun = L.job[j].rerun
      /\ \A i \in Jobs \ {j} : R.job[i] = L.job[i]
  BY <1>1, Restated
<1> HIDE DEF R
<1>4. /\ M \in LedgerType /\ M.active = R.active /\ M.accepted = R.accepted
      /\ \A i \in Jobs : M.job[i] = R.job[i] \/ Dropped(R.job[i], M.job[i])
  BY <1>2, <1>3, PrunedFacts
<1>5. \A i \in Jobs \ {j} : M.job[i] = L.job[i] \/ Dropped(L.job[i], M.job[i])
  BY <1>3, <1>4
<1>6. CASE M.job[j] = R.job[j]
  BY <1>3, <1>4, <1>5, <1>6
<1>7. CASE M.job[j] = NoJob
  <2>1. M.job[j].owner = None /\ M.job[j].st = "none" /\ M.job[j].rerun = FALSE
    BY <1>7 DEF NoJob
  <2>2. QED
    BY <1>3, <1>4, <1>5, <2>1
<1>8. QED
  BY <1>4, <1>6, <1>7 DEF Dropped

LEMMA FinishLastFacts ==
    ASSUME Sound, NEW p \in Pids, FinishLast(p)
    PROVE  /\ proc[p].at = "finish" /\ op = Free /\ proc[p].job \in Jobs
           /\ UNCHANGED << proc, owed, turned, asks, kills, faults >>
           /\ op' \in OpType /\ op' # Free /\ op'.at = "dispatch" /\ op'.by = p /\ op'.mem = ledger'
           /\ ledger' \in LedgerType /\ ledger'.accepted = ledger.accepted /\ ledger'.active = None
           /\ Job(proc[p].job).st # "none" /\ ~Job(proc[p].job).rerun
           /\ LET n == ledger'.job[proc[p].job]
              IN  n.st \in Terminal \cup {"none"} /\ n.owner = None /\ ~n.rerun
           /\ \A i \in Jobs \ {proc[p].job} :
                 ledger'.job[i] = Job(i) \/ Dropped(Job(i), ledger'.job[i])
<1> DEFINE j == proc[p].job
<1>1. /\ proc[p].at = "finish" /\ op = Free /\ j \in Jobs /\ ledger \in LedgerType
      /\ ledger.job[j].st # "none" /\ ~ledger.job[j].rerun
      /\ UNCHANGED << proc, owed, turned, asks, kills, faults >>
  BY DEF FinishLast, mishaps, Sound, Placed, TypeOK
<1>2. PICK st \in Terminal : ledger' = Finished(ledger, j, st)
  BY DEF FinishLast, Terminal
<1> HIDE DEF j
<1>3. /\ ledger' \in LedgerType /\ ledger'.accepted = ledger.accepted /\ ledger'.active = None
      /\ ledger'.job[j].owner = None /\ ledger'.job[j].st \in Terminal \cup {"none"}
      /\ ~ledger'.job[j].rerun
      /\ \A i \in Jobs \ {j} : ledger'.job[i] = Job(i) \/ Dropped(Job(i), ledger'.job[i])
  BY <1>1, <1>2, FinishedFacts DEF Job
<1>4. /\ op' \in OpType /\ op' # Free /\ op'.at = "dispatch" /\ op'.by = p /\ op'.mem = ledger'
  <2>1. op' = Enter("dispatch", p, ledger', None, None)
    BY DEF FinishLast
  <2>2. QED
    BY <1>3, <2>1 DEF Enter, OpType, Free
<1>5. QED
  BY <1>1, <1>3, <1>4 DEF j, Job

LEMMA FinishLastSound ==
    ASSUME Sound, NEW p \in Pids, FinishLast(p), UNCHANGED frail
    PROVE  Sound'
<1> DEFINE j == proc[p].job
<1>1. /\ proc[p].at = "finish" /\ op = Free /\ j \in Jobs /\ Job(j).st # "none"
      /\ UNCHANGED << proc, owed, turned, asks, kills, faults >>
      /\ op' \in OpType /\ op' # Free /\ op'.at = "dispatch" /\ op'.by = p /\ op'.mem = ledger'
      /\ ledger' \in LedgerType /\ ledger'.accepted = ledger.accepted
      /\ ledger'.job[j].owner = None
      /\ \A i \in Jobs \ {j} : ledger'.job[i] = Job(i) \/ Dropped(Job(i), ledger'.job[i])
  BY FinishLastFacts
<1> HIDE DEF j
<1>2. TypeOK' /\ ProcsOnward
  BY <1>1 DEF Sound, TypeOK, ProcsOnward
<1>3. JobsOnward /\ ledger.accepted <= ledger'.accepted
  <2>1. ~(j > ledger.accepted)
    BY <1>1 DEF Sound, Numbered, Job, NoJob
  <2>2. \A i \in Jobs : Dropped(Job(i), ledger'.job[i]) => ledger'.job[i] = NoJob /\ NoJob.owner = None
    BY DEF Dropped, NoJob
  <2>3. ledger.accepted <= ledger'.accepted
    BY <1>1, ConstantsAssumption DEF Sound, TypeOK, LedgerType
  <2>4. QED
    BY <1>1, <2>1, <2>2, <2>3 DEF JobsOnward, Sound, Numbered
<1>4. QED
  BY <1>1, <1>2, <1>3, OnwardFrame DEF Sound, Placed, Copied, Launched, Launching, Holds

LEMMA NextSound ==
    ASSUME Sound, [Next]_vars
    PROVE  Sound'
<1>1. CASE UNCHANGED vars
  BY <1>1 DEF vars, mishaps, Sound, TypeOK, Placed, Copied, Launched, Launching, Numbered, OwnersKnown,
              Job, Holds
<1>2. CASE Next
  BY <1>2, EnqueueSound, RefuseSound, JoinSound, AppendSound, DispatchNothingSound, DispatchSound,
     LaunchSound, LaunchFailsSound, RecordSound, AbortSound, BootSound, WorkSound, FinishRerunSound,
     FinishLastSound, FinishGoneSound, FinishFailsSound, ReloadSound, KillSound
     DEF Next, Step, Holder, Worker
<1>3. QED
  BY <1>1, <1>2

LEMMA AlwaysSound == Spec => []Sound
BY InitSound, NextSound, PTL DEF Spec

\* The ledger file and what the processes know of it have the types their
\* readers expect, whoever dies or fails (_valid_state, process_jobs.py).
THEOREM TypeCorrect == Spec => []TypeOK
BY AlwaysSound, PTL DEF Sound

-----------------------------------------------------------------------------
(* The second layer is inductive as long as launches are recorded. *)

\* What may become of a record without disturbing its worker.
Undisturbed(k, n) ==
    /\ n.st \in Open => k.st \in Open /\ n.session = k.session
    /\ k.st \notin Open /\ ~k.rerun => n.st \notin Open /\ ~n.rerun
    /\ k.st = "running" /\ Alive(k.owner) => n.st = "running" /\ n.owner = k.owner

LEMMA CleanedUndisturbed ==
    ASSUME NEW k \in JobType, NEW n, Kept(k, n) \/ Dropped(k, n)
    PROVE  Undisturbed(k, n)
<1>1. CASE n = k
  BY <1>1 DEF Undisturbed
<1>2. CASE TakenBack(k, n)
  BY <1>2, ChangeFields DEF Kept, TakenBack, Undisturbed, Open
<1>3. CASE Dropped(k, n)
  BY <1>3 DEF Dropped, Undisturbed, Open, Active, Terminal, NoJob
<1>4. QED
  BY <1>1, <1>2, <1>3 DEF Kept

LEMMA ApartFrame ==
    ASSUME OnePerSession,
           \A i \in Jobs : ledger'.job[i].st \in Open =>
                              Job(i).st \in Open /\ ledger'.job[i].session = Job(i).session
    PROVE  OnePerSession'
BY DEF OnePerSession, Job

\* A worker keeps its post if nobody disturbs its job and it goes on with it.
LEMMA PostedFrame ==
    ASSUME Sound, NEW q \in Pids, Posted(q),
           proc[q].at # "none" => Undisturbed(Job(proc[q].job), ledger'.job[proc[q].job]),
           proc'[q].job = proc[q].job,
           \/ /\ proc'[q] = proc[q]
              /\ op.at = "record" /\ op.child = q => op'.at = "record" /\ op'.child = q
           \/ proc'[q].at = "ended"
           \/ proc[q].at = "finish" /\ proc'[q].at = "finish"
           \/ proc[q].at \in {"boot", "work", "finish", "reload"} /\ Employed(q),
           Holds(q)' => Holds(q)
    PROVE  Posted(q)'
<1>1. Dismissed(q) /\ proc[q].at # "none" => Dismissed(q)'
  BY DEF Dismissed, Undisturbed, Job
<1>2. Employed(q) /\ proc[q].at \in {"boot", "work", "finish", "reload"} => Employed(q)'
  <2>1. Employed(q) /\ proc[q].at \in {"boot", "work", "finish", "reload"}
            => Alive(Job(proc[q].job).owner)
    BY NoneIsNobody DEF Employed, Alive
  <2>2. QED
    BY <2>1 DEF Employed, Undisturbed, Job
<1>3. Holds(q)' => Dismissed(q)'
  BY <1>1 DEF Sound, Placed, Posted
<1>4. CASE /\ proc'[q] = proc[q]
           /\ op.at = "record" /\ op.child = q => op'.at = "record" /\ op'.child = q
  BY <1>1, <1>2, <1>3, <1>4 DEF Posted
<1>5. CASE proc'[q].at = "ended"
  BY <1>3, <1>5 DEF Posted
<1>6. CASE proc[q].at = "finish" /\ proc'[q].at = "finish"
  BY <1>1, <1>2, <1>3, <1>6 DEF Posted
<1>7. CASE proc[q].at \in {"boot", "work", "finish", "reload"} /\ Employed(q)
  BY <1>2, <1>3, <1>7 DEF Posted
<1>8. QED
  BY <1>4, <1>5, <1>6, <1>7

\* A job stays seen to if it is kept, waits or is to run again, and its worker
\* does not get to work.
LEMMA SeenFrame ==
    ASSUME Sound, NEW i \in Jobs, SeenTo(i),
           \/ ledger'.job[i] = Job(i)
           \/ ledger'.job[i].st \in {"pending", "starting"}
           \/ ledger'.job[i].st = Job(i).st /\ ledger'.job[i].rerun,
           \A q \in Pids : /\ q = Job(i).owner
                           /\ proc[q].at \in {"boot", "reload", "ended"}
                           => proc'[q] = proc[q] \/ proc'[q].at = "ended"
    PROVE  SeenTo(i)'
<1>1. CASE ledger'.job[i].st \in {"pending", "starting"}
  BY <1>1 DEF SeenTo, Job
<1>2. CASE ledger'.job[i].st = Job(i).st /\ ledger'.job[i].rerun
  BY <1>2 DEF SeenTo, Job
<1>3. CASE ledger'.job[i] = Job(i)
  <2>1. CASE Job(i).st \in {"pending", "starting"} \/ Job(i).rerun
    BY <1>3, <2>1 DEF SeenTo, Job
  <2>2. CASE Job(i).st = "running" /\ Job(i).owner = None
    BY <1>3, <2>2 DEF SeenTo, Job, Alive
  <2>3. CASE Job(i).st = "running" /\ Job(i).owner # None /\ ~Job(i).rerun
    <3> DEFINE q == Job(i).owner
    <3>1. q \in Pids /\ proc[q].at # "none"
      BY <2>3 DEF Sound, TypeOK, LedgerType, JobType, NoJob, Job, OwnersKnown
    <3>2. proc[q].at \in {"boot", "reload", "ended"}
      BY <2>3, <3>1 DEF SeenTo, Alive
    <3>3. proc'[q] = proc[q] \/ proc'[q].at = "ended"
      BY <3>1, <3>2
    <3>4. proc'[q].at \in {"boot", "reload", "ended"}
      BY <3>2, <3>3
    <3>5. ledger'.job[i].owner = q /\ ledger'.job[i].st = "running"
      BY <1>3, <2>3
    <3> HIDE DEF q
    <3>6. QED
      BY <3>4, <3>5 DEF SeenTo, Job, Alive
  <2>4. QED
    BY <2>1, <2>2, <2>3 DEF SeenTo
<1>4. QED
  BY <1>1, <1>2, <1>3

LEMMA OwingFrame ==
    ASSUME Owing, \A i \in Jobs : SeenTo(i) /\ Job(i).session \in owed' =>
                                     SeenTo(i)' /\ ledger'.job[i].session = Job(i).session,
           \A s \in owed' \ owed : \E i \in Jobs : ledger'.job[i].session = s /\ SeenTo(i)'
    PROVE  Owing'
BY DEF Owing, Job

LEMMA EnqueueManned ==
    ASSUME Sound, Manned, NEW s \in Sessions, NEW a \in Args, Enqueue(s, a)
    PROVE  Manned'
<1>1. /\ UNCHANGED << proc, owed >> /\ op = Free /\ op' # Free /\ op'.by = None
      /\ ledger' \in LedgerType
      /\ \A i \in Jobs : Kept(Job(i), ledger'.job[i]) \/ Dropped(Job(i), ledger'.job[i])
  BY EnqueueFacts
<1>2. \A i \in Jobs : /\ Undisturbed(Job(i), ledger'.job[i])
                      /\ SeenTo(i) => \/ ledger'.job[i] = Job(i)
                                      \/ ledger'.job[i].st = "pending"
                      /\ SeenTo(i) => ledger'.job[i].session = Job(i).session
  <2> SUFFICES ASSUME NEW i \in Jobs
               PROVE  /\ Undisturbed(Job(i), ledger'.job[i])
                      /\ SeenTo(i) => \/ ledger'.job[i] = Job(i)
                                      \/ ledger'.job[i].st = "pending"
                      /\ SeenTo(i) => ledger'.job[i].session = Job(i).session
    OBVIOUS
  <2>1. Job(i) \in JobType /\ (Kept(Job(i), ledger'.job[i]) \/ Dropped(Job(i), ledger'.job[i]))
    BY <1>1 DEF Sound, TypeOK, LedgerType, Job
  <2>2. Undisturbed(Job(i), ledger'.job[i])
    BY <2>1, CleanedUndisturbed
  <2>3. ~(SeenTo(i) /\ Dropped(Job(i), ledger'.job[i]))
    BY DEF SeenTo, Dropped, Terminal
  <2>4. CASE ledger'.job[i] = Job(i)
    BY <2>2, <2>4
  <2>5. CASE TakenBack(Job(i), ledger'.job[i])
    <3>1. Job(i) # NoJob
      BY <2>5 DEF TakenBack, Active, NoJob
    <3>2. ledger'.job[i].st = "pending" /\ ledger'.job[i].session = Job(i).session
      BY <2>1, <2>5, <3>1 DEF TakenBack, JobType
    <3>3. QED
      BY <2>2, <3>2
  <2>6. QED
    BY <2>1, <2>2, <2>3, <2>4, <2>5 DEF Kept
<1>3. OnePerSession'
  BY <1>2, ApartFrame DEF Manned, Undisturbed
<1>4. \A q \in Pids : Posted(q)'
  <2>1. \A q \in Pids : ~Holds(q)' /\ (proc[q].at # "none" => proc[q].job \in Jobs)
    BY <1>1, NoneIsNobody DEF Holds, Sound, Placed
  <2>2. QED
    BY <1>1, <1>2, <2>1, PostedFrame DEF Manned, Free
<1>5. Owing'
  BY <1>1, <1>2, SeenFrame, OwingFrame DEF Manned
<1>6. QED
  BY <1>3, <1>4, <1>5 DEF Manned

LEMMA JoinManned ==
    ASSUME Sound, Manned, Join
    PROVE  Manned'
<1>1. /\ UNCHANGED proc /\ owed' = owed \cup {op.session}
      /\ op.at = "choose" /\ op' # Free /\ op'.by = None
  BY JoinFacts
<1>2. PICK j \in Jobs :
        /\ Job(j).session = op.session /\ Job(j).st \in Open
        /\ ledger'.job[j].rerun \/ ledger'.job[j].st = "pending"
        /\ \A i \in Jobs :
             ledger'.job[i] = Job(i) \/ (i = j /\ ledger'.job[i] = [Job(i) EXCEPT !.rerun = TRUE])
  BY JoinFacts
<1>3. /\ \A i \in Jobs \ {j} : ledger'.job[i] = Job(i)
      /\ ledger'.job[j].st = Job(j).st /\ ledger'.job[j].session = Job(j).session
      /\ ledger'.job[j].owner = Job(j).owner
      /\ ledger'.job[j] = Job(j) \/ ledger'.job[j].rerun
  <2>1. Job(j) \in JobType /\ Job(j) # NoJob
    BY <1>2 DEF Sound, TypeOK, LedgerType, Job, Open, Active, NoJob
  <2>2. QED
    BY <1>2, <2>1 DEF JobType
<1>4. \A i \in Jobs : Undisturbed(Job(i), ledger'.job[i])
  BY <1>2, <1>3 DEF Undisturbed
<1>5. OnePerSession'
  BY <1>4, ApartFrame DEF Manned, Undisturbed
<1>6. \A q \in Pids : Posted(q)'
  <2>1. \A q \in Pids : ~Holds(q)' /\ (proc[q].at # "none" => proc[q].job \in Jobs)
    BY <1>1, NoneIsNobody DEF Holds, Sound, Placed
  <2>2. QED
    BY <1>1, <1>4, <2>1, PostedFrame DEF Manned
<1>7. SeenTo(j)'
  BY <1>2, <1>3 DEF SeenTo, Job, Open, Active
<1>8. \A i \in Jobs : SeenTo(i) => SeenTo(i)' /\ ledger'.job[i].session = Job(i).session
  BY <1>1, <1>3, <1>7, SeenFrame
<1>9. Owing'
  BY <1>1, <1>2, <1>3, <1>7, <1>8, OwingFrame DEF Manned
<1>10. QED
  BY <1>5, <1>6, <1>9 DEF Manned

LEMMA AppendManned ==
    ASSUME Sound, Manned, Append
    PROVE  Manned'
<1> PICK j \in Jobs : j = ledger'.accepted
  BY AppendFacts
<1>1. /\ UNCHANGED proc /\ owed' = owed \cup {op.session}
      /\ op.at = "choose" /\ op' # Free /\ op'.by = None
      /\ ledger'.job[j].st = "pending" /\ ledger'.job[j].session = op.session
      /\ Job(j) = NoJob
      /\ \A i \in Jobs \ {j} : ledger'.job[i] = Job(i)
      /\ \A i \in Jobs : Job(i).st \in Open => Job(i).session # op.session
  BY AppendFacts
<1>2. OnePerSession'
  BY <1>1 DEF Manned, OnePerSession, Job
<1>3. \A q \in Pids : proc[q].at # "none" => proc[q].job \in Jobs \ {j}
  <2>1. \A q \in Pids : proc[q].job <= ledger.accepted /\ (proc[q].at # "none" => proc[q].job \in Jobs)
    BY DEF Sound, Numbered, Placed
  <2>2. ledger.accepted < j
    <3>1. Append /\ op # Free /\ op.mem \in LedgerType /\ op.mem.accepted = ledger.accepted
      BY OpFields DEF Append, Sound, TypeOK, Copied
    <3>2. j = ledger.accepted + 1
      <4>1. ledger' = Accepted(op.mem, op.session, op.args)
        BY DEF Append
      <4>2. QED
        BY <3>1, <4>1 DEF Accepted, LedgerType
    <3>3. QED
      BY <3>1, <3>2, ConstantsAssumption DEF LedgerType
  <2>3. ledger.accepted \in Nat /\ j \in Nat
    BY <1>1, ConstantsAssumption DEF Sound, TypeOK, LedgerType, Jobs
  <2>4. QED
    BY <2>1, <2>2, <2>3
<1>4. \A q \in Pids : Posted(q)'
  <2>1. \A q \in Pids : ~Holds(q)'
    BY <1>1, NoneIsNobody DEF Holds
  <2>2. \A i \in Jobs \ {j} : Undisturbed(Job(i), ledger'.job[i])
    BY <1>1 DEF Undisturbed
  <2>3. QED
    BY <1>1, <1>3, <2>1, <2>2, PostedFrame DEF Manned
<1>5. SeenTo(j)'
  BY <1>1 DEF SeenTo, Job
<1>6. \A i \in Jobs : SeenTo(i) => SeenTo(i)' /\ ledger'.job[i].session = Job(i).session
  <2>1. ~SeenTo(j)
    BY <1>1 DEF SeenTo, NoJob
  <2>2. QED
    BY <1>1, <2>1, SeenFrame
<1>7. Owing'
  BY <1>1, <1>5, <1>6, OwingFrame DEF Manned
<1>8. QED
  BY <1>2, <1>4, <1>7 DEF Manned

LEMMA DispatchManned ==
    ASSUME Sound, Manned, Dispatch
    PROVE  Manned'
<1>1. /\ UNCHANGED << proc, owed >> /\ op # Free /\ op.at = "dispatch"
      /\ op' # Free /\ op'.by = op.by
  BY DispatchFacts
<1>2. PICK j \in Jobs :
        /\ Job(j).st = "pending"
        /\ ledger'.job[j].st = "starting" /\ ledger'.job[j].session = Job(j).session
        /\ \A i \in Jobs \ {j} : ledger'.job[i] = Job(i)
  BY DispatchFacts
<1>3. \A i \in Jobs : Undisturbed(Job(i), ledger'.job[i])
  BY <1>2 DEF Undisturbed, Open, Active
<1>4. OnePerSession'
  BY <1>3, ApartFrame DEF Manned, Undisturbed
<1>5. \A q \in Pids : Posted(q)'
  <2>1. \A q \in Pids : (Holds(q)' => Holds(q)) /\ (proc[q].at # "none" => proc[q].job \in Jobs)
    BY <1>1 DEF Holds, Sound, Placed
  <2>2. QED
    BY <1>1, <1>3, <2>1, PostedFrame DEF Manned
<1>6. \A i \in Jobs : SeenTo(i) => SeenTo(i)' /\ ledger'.job[i].session = Job(i).session
  BY <1>1, <1>2, SeenFrame
<1>7. Owing'
  BY <1>1, <1>6, OwingFrame DEF Manned
<1>8. QED
  BY <1>4, <1>5, <1>7 DEF Manned

LEMMA LaunchFailsManned ==
    ASSUME Sound, Manned, LaunchFails
    PROVE  Manned'
<1>1. /\ UNCHANGED proc /\ owed' = owed \ {Job(op.job).session} /\ op # Free /\ op.at = "launch"
      /\ op' # Free /\ op'.by = op.by /\ op.job \in Jobs
      /\ Job(op.job).st = "starting" /\ ledger'.job[op.job].st = "failed"
      /\ \A i \in Jobs \ {op.job} : ledger'.job[i] = Job(i)
  BY LaunchFailsFacts
<1>2. \A i \in Jobs : Undisturbed(Job(i), ledger'.job[i])
  BY <1>1 DEF Undisturbed, Open, Active
<1>3. OnePerSession'
  BY <1>2, ApartFrame DEF Manned, Undisturbed
<1>4. \A q \in Pids : Posted(q)'
  <2>1. \A q \in Pids : (Holds(q)' => Holds(q)) /\ (proc[q].at # "none" => proc[q].job \in Jobs)
    BY <1>1 DEF Holds, Sound, Placed
  <2>2. QED
    BY <1>1, <1>2, <2>1, PostedFrame DEF Manned
<1>5. \A i \in Jobs : SeenTo(i) /\ Job(i).session \in owed' =>
                         SeenTo(i)' /\ ledger'.job[i].session = Job(i).session
  BY <1>1, SeenFrame
<1>6. Owing'
  BY <1>1, <1>5, OwingFrame DEF Manned
<1>7. QED
  BY <1>3, <1>4, <1>6 DEF Manned

\* The steps that leave the file alone.
LEMMA IdleManned ==
    ASSUME Sound, Manned, UNCHANGED ledger, ProcsOnward, owed' \subseteq owed,
           op' = op \/ (op' = Free /\ op.at # "record"),
           \A q \in Pids : \/ proc'[q] = proc[q] \/ proc'[q].at = "ended"
                           \/ proc[q].at \in {"work", "finish"} /\ proc'[q].at = "finish"
                           \/ /\ proc[q].at = "reload" /\ proc'[q].at = "work"
                              /\ Job(proc[q].job).session \notin owed'
    PROVE  Manned'
<1>1. \A i \in Jobs : ledger'.job[i] = Job(i) /\ Undisturbed(Job(i), ledger'.job[i])
  BY DEF Undisturbed, Job
<1>2. OnePerSession'
  BY <1>1, ApartFrame DEF Manned
<1>3. \A q \in Pids : Posted(q)'
  <2> SUFFICES ASSUME NEW q \in Pids PROVE Posted(q)'
    OBVIOUS
  <2>1. /\ Holds(q)' => Holds(q)
        /\ proc[q].at # "none" => proc[q].job \in Jobs
        /\ proc'[q].job = proc[q].job
    BY DEF Holds, Sound, Placed, ProcsOnward
  <2>2. CASE proc'[q] = proc[q]
    BY <1>1, <2>1, <2>2, PostedFrame DEF Manned
  <2>3. CASE proc'[q].at = "ended"
    BY <1>1, <2>1, <2>3, PostedFrame DEF Manned
  <2>4. CASE proc[q].at = "finish" /\ proc'[q].at = "finish"
    BY <1>1, <2>1, <2>4, PostedFrame DEF Manned
  <2>5. CASE proc[q].at \in {"work", "reload"} /\ proc'[q].at \in {"work", "finish"}
    <3>1. Employed(q)
      BY <2>5 DEF Manned, Posted
    <3>2. QED
      BY <1>1, <2>1, <2>5, <3>1, PostedFrame DEF Manned
  <2>6. QED
    BY <2>2, <2>3, <2>4, <2>5
<1>4. Owing'
  <2>1. ASSUME NEW i \in Jobs, SeenTo(i), Job(i).session \in owed'
        PROVE  SeenTo(i)'
    <3>1. ASSUME NEW q \in Pids, q = Job(i).owner, proc[q].at \in {"boot", "reload", "ended"}
          PROVE  proc'[q] = proc[q] \/ proc'[q].at = "ended"
      <4>1. proc[q].job = i
        BY <3>1, NoneIsNobody DEF Sound, OwnersKnown
      <4>2. QED
        BY <2>1, <3>1, <4>1
    <3>2. QED
      BY <1>1, <2>1, <3>1, SeenFrame
  <2>2. QED
    BY <1>1, <2>1, OwingFrame DEF Manned
<1>5. QED
  BY <1>2, <1>3, <1>4 DEF Manned

LEMMA RefuseManned ==
    ASSUME Sound, Manned, Refuse \/ DispatchNothing
    PROVE  Manned'
<1>1. op # Free /\ op.at # "record" /\ Release /\ UNCHANGED << ledger, owed >>
  BY DEF Refuse, DispatchNothing, Free
<1>2. /\ op' = Free /\ ProcsOnward
      /\ \A p \in Pids : IF op.by = p THEN proc'[p].at = "ended" ELSE proc'[p] = proc[p]
  BY <1>1, ReleaseFrame
<1>3. QED
  BY <1>1, <1>2, IdleManned

LEMMA AbortManned ==
    ASSUME Sound, Manned, LaunchesRecorded, Abort
    PROVE  Manned'
<1>1. op.at # "record" /\ op' = Free /\ op # Free /\ UNCHANGED << ledger, owed >>
  <2>1. op.at \in frail /\ frail \subseteq {"choose", "dispatch", "launch", "record", "finish"}
    BY ConstantsAssumption DEF Abort, Sound, TypeOK
  <2>2. QED
    BY <2>1 DEF Abort, LaunchesRecorded, Free
<1>2. CASE op.by = None
  <2>1. UNCHANGED proc
    BY <1>2 DEF Abort
  <2>2. QED
    BY <1>1, <2>1, IdleManned DEF ProcsOnward
<1>3. CASE op.by # None
  <2>1. op.by \in Pids /\ proc[op.by].at = "finish"
    <3>1. op.at # "free"
      BY <1>1 DEF Sound, TypeOK, OpType
    <3>2. QED
      BY <1>1, <1>3, <3>1, OpFields DEF Sound, Placed, Holds, TypeOK
  <2>2. /\ ProcsOnward
        /\ proc'[op.by].at \in {"ended", "finish"}
        /\ \A q \in Pids \ {op.by} : proc'[q] = proc[q]
    BY <1>3, <2>1, StopFacts DEF Abort, Sound, TypeOK
  <2>3. QED
    BY <1>1, <2>1, <2>2, IdleManned
<1>4. QED
  BY <1>2, <1>3

LEMMA WorkManned ==
    ASSUME Sound, Manned, NEW p \in Pids, Work(p)
    PROVE  Manned'
<1>1. PICK raised \in BOOLEAN : proc' = [proc EXCEPT ![p].at = "finish", ![p].error = raised]
  BY DEF Work
<1>2. proc[p].at = "work" /\ UNCHANGED << ledger, op, owed >>
  BY DEF Work
<1>3. /\ ProcsOnward /\ proc'[p].at = "finish"
      /\ \A q \in Pids \ {p} : proc'[q] = proc[q]
  BY <1>1, <1>2 DEF Sound, TypeOK, ProcType, ProcsOnward
<1>4. QED
  BY <1>2, <1>3, IdleManned

\* A worker ends, or stays where it finishes.
LEMMA StopManned ==
    ASSUME Sound, Manned, NEW p \in Pids, Kill(p) \/ FinishGone(p) \/ FinishFails(p)
    PROVE  Manned'
<1>1. /\ proc[p].at # "none" /\ UNCHANGED << ledger, op, owed >>
      /\ \/ proc' = [proc EXCEPT ![p].at = "ended"]
         \/ proc' = Failing(p) /\ proc[p].at = "finish"
  BY DEF Kill, FinishGone, FinishFails
<1>2. /\ ProcsOnward
      /\ proc'[p].at = "ended" \/ (proc[p].at = "finish" /\ proc'[p].at = "finish")
      /\ \A q \in Pids \ {p} : proc'[q] = proc[q]
  <2>1. CASE proc' = [proc EXCEPT ![p].at = "ended"]
    BY <1>1, <2>1 DEF Sound, TypeOK, ProcType, ProcsOnward
  <2>2. CASE proc' = Failing(p) /\ proc[p].at = "finish"
    BY <1>1, <2>2, StopFacts DEF Sound, TypeOK
  <2>3. QED
    BY <1>1, <2>1, <2>2
<1>3. QED
  BY <1>1, <1>2, IdleManned

LEMMA ReloadManned ==
    ASSUME Sound, Manned, NEW p \in Pids, Reload(p)
    PROVE  Manned'
<1>1. proc[p].at = "reload" /\ UNCHANGED << ledger, op >> /\ owed' \subseteq owed
  BY DEF Reload, Started
<1>2. PICK place \in {"work", "ended"} :
        /\ proc' = [proc EXCEPT ![p].at = place]
        /\ place = "work" => Job(proc[p].job).session \notin owed'
  BY DEF Reload, Started, Job
<1>3. /\ ProcsOnward /\ proc'[p].at = place
      /\ \A q \in Pids \ {p} : proc'[q] = proc[q]
  BY <1>1, <1>2 DEF Sound, TypeOK, ProcType, ProcsOnward
<1>4. QED
  BY <1>1, <1>2, <1>3, IdleManned

LEMMA LaunchManned ==
    ASSUME Sound, Manned, Launch
    PROVE  Manned'
<1>1. /\ op # Free /\ op.at = "launch" /\ UNCHANGED << ledger, owed >>
      /\ op' # Free /\ op'.at = "record" /\ op'.by = op.by
  BY LaunchFacts
<1>2. PICK p \in Pids : /\ op'.child = p /\ proc[p].at = "none"
                        /\ proc'[p].at = "boot"
                        /\ \A q \in Pids \ {p} : proc'[q] = proc[q]
  BY LaunchFacts
<1>3. \A i \in Jobs : ledger'.job[i] = Job(i) /\ Undisturbed(Job(i), ledger'.job[i])
  BY <1>1 DEF Undisturbed, Job
<1>4. OnePerSession'
  BY <1>3, ApartFrame DEF Manned
<1>5. \A q \in Pids \ {p} : Posted(q)'
  <2>1. \A q \in Pids : (Holds(q)' => Holds(q)) /\ (proc[q].at # "none" => proc[q].job \in Jobs)
    BY <1>1 DEF Holds, Sound, Placed
  <2>2. QED
    BY <1>1, <1>2, <1>3, <2>1, PostedFrame DEF Manned
<1>6. Posted(p)'
  <2>1. ~Holds(p)'
    BY <1>1, <1>2 DEF Holds, Sound, Placed
  <2>2. QED
    BY <1>1, <1>2, <2>1 DEF Posted
<1>7. Owing'
  <2>1. \A i \in Jobs : SeenTo(i) => SeenTo(i)'
    BY <1>2, <1>3, SeenFrame
  <2>2. QED
    BY <1>1, <1>3, <2>1, OwingFrame DEF Manned
<1>8. QED
  BY <1>4, <1>5, <1>6, <1>7 DEF Manned

LEMMA RecordManned ==
    ASSUME Sound, Manned, Record
    PROVE  Manned'
<1>1. /\ op # Free /\ op.at = "record" /\ op.job \in Jobs /\ op.child \in Pids
      /\ proc[op.child].at \in {"boot", "ended"} /\ proc[op.child].job = op.job
      /\ Release /\ UNCHANGED owed
      /\ Job(op.job).st = "starting"
      /\ ledger'.job[op.job].st = "running" /\ ledger'.job[op.job].owner = op.child
      /\ ledger'.job[op.job].session = Job(op.job).session
      /\ \A i \in Jobs \ {op.job} : ledger'.job[i] = Job(i)
  BY RecordFacts
<1>2. /\ op' = Free /\ ProcsOnward
      /\ \A q \in Pids : proc'[q] = proc[q] \/ proc'[q].at = "ended"
      /\ ~Holds(op.child)
  BY <1>1, ReleaseFrame DEF Sound, Placed
<1>3. \A i \in Jobs : Undisturbed(Job(i), ledger'.job[i])
  BY <1>1 DEF Undisturbed, Open, Active
<1>4. OnePerSession'
  BY <1>3, ApartFrame DEF Manned, Undisturbed
<1>5. PICK c \in Pids : c = op.child
  BY <1>1
<1>6. proc'[c].at \in {"boot", "ended"} /\ proc'[c].job = op.job
  BY <1>1, <1>2, <1>5 DEF ProcsOnward
<1>7. \A q \in Pids \ {c} : Posted(q)'
  <2>1. \A q \in Pids : /\ ~Holds(q)' /\ (proc[q].at # "none" => proc[q].job \in Jobs)
                        /\ proc'[q].job = proc[q].job
    BY <1>2 DEF Holds, Sound, Placed, ProcsOnward
  <2>2. QED
    BY <1>2, <1>3, <1>5, <2>1, PostedFrame DEF Manned
<1>8. Posted(c)'
  BY <1>1, <1>2, <1>5, <1>6 DEF Posted, Employed, Holds, Job
<1>9. \A i \in Jobs : SeenTo(i) => SeenTo(i)' /\ ledger'.job[i].session = Job(i).session
  <2>1. ASSUME NEW i \in Jobs, SeenTo(i)
        PROVE  SeenTo(i)'
    <3>1. CASE i = op.job
      <4>1. ledger'.job[i].st = "running" /\ ledger'.job[i].owner = c
        BY <1>1, <1>5, <3>1
      <4>2. QED
        BY <1>6, <4>1 DEF SeenTo, Job, Alive
    <3>2. CASE i # op.job
      BY <1>1, <1>2, <2>1, <3>2, SeenFrame
    <3>3. QED
      BY <3>1, <3>2
  <2>2. QED
    BY <1>1, <2>1
<1>10. Owing'
  BY <1>1, <1>9, OwingFrame DEF Manned
<1>11. QED
  BY <1>4, <1>7, <1>8, <1>10 DEF Manned

\* The file already says what a worker writes when it claims its job.
LEMMA BootManned ==
    ASSUME Sound, Manned, NEW p \in Pids, Boot(p)
    PROVE  Manned'
<1> PICK j \in Jobs : j = proc[p].job
  BY BootFacts
<1>1. proc[p].at = "boot" /\ op = Free /\ UNCHANGED op /\ ProcsOnward
  BY BootFacts
<1>2. Employed(p) /\ Job(j).st = "running" /\ Job(j).owner = p
  BY <1>1 DEF Manned, Posted, Employed, Free
<1>3. /\ owed' = owed \ {Job(j).session} /\ \A q \in Pids \ {p} : proc'[q] = proc[q]
      /\ ledger'.job[j].st = "running" /\ ledger'.job[j].owner = p
      /\ ledger'.job[j].session = Job(j).session
      /\ \A i \in Jobs \ {j} : ledger'.job[i] = Job(i)
  BY <1>2, BootFacts DEF Active
<1>4. \A i \in Jobs : Undisturbed(Job(i), ledger'.job[i])
  BY <1>2, <1>3 DEF Undisturbed, Open, Active
<1>5. OnePerSession'
  BY <1>4, ApartFrame DEF Manned, Undisturbed
<1>6. \A q \in Pids : Posted(q)'
  <2>1. \A q \in Pids : /\ ~Holds(q)' /\ (proc[q].at # "none" => proc[q].job \in Jobs)
                        /\ proc'[q].job = proc[q].job
    BY <1>1 DEF Holds, Sound, Placed, ProcsOnward
  <2>2. QED
    BY <1>1, <1>2, <1>3, <1>4, <2>1, PostedFrame DEF Manned, Free
<1>7. \A i \in Jobs : SeenTo(i) /\ Job(i).session \in owed' =>
                         SeenTo(i)' /\ ledger'.job[i].session = Job(i).session
  <2>1. ASSUME NEW i \in Jobs, SeenTo(i), Job(i).session \in owed'
        PROVE  SeenTo(i)'
    <3>1. i # j
      BY <1>3, <2>1
    <3>2. Job(i).owner # p
      BY <3>1, NoneIsNobody DEF Sound, OwnersKnown
    <3>3. QED
      BY <1>3, <2>1, <3>1, <3>2, SeenFrame
  <2>2. QED
    BY <1>3, <2>1
<1>8. Owing'
  BY <1>3, <1>7, OwingFrame DEF Manned
<1>9. QED
  BY <1>5, <1>6, <1>8 DEF Manned

LEMMA FinishRerunManned ==
    ASSUME Sound, Manned, NEW p \in Pids, FinishRerun(p)
    PROVE  Manned'
<1> PICK j \in Jobs : j = proc[p].job
  BY FinishRerunFacts
<1>1. /\ proc[p].at = "finish" /\ op = Free /\ UNCHANGED << op, owed >> /\ ProcsOnward
      /\ proc'[p].at = "reload" /\ Job(j).rerun
      /\ \A q \in Pids \ {p} : proc'[q] = proc[q]
      /\ ledger'.job[j].st = "running" /\ ledger'.job[j].owner = p
      /\ ledger'.job[j].session = Job(j).session
      /\ \A i \in Jobs \ {j} : ledger'.job[i] = Job(i)
  BY FinishRerunFacts
<1>2. Employed(p) /\ Job(j).st = "running" /\ Job(j).owner = p
  BY <1>1 DEF Manned, Posted, Employed, Dismissed
<1>3. \A i \in Jobs : Undisturbed(Job(i), ledger'.job[i])
  BY <1>1, <1>2 DEF Undisturbed, Open, Active
<1>4. OnePerSession'
  BY <1>3, ApartFrame DEF Manned, Undisturbed
<1>5. \A q \in Pids : Posted(q)'
  <2>1. \A q \in Pids : /\ ~Holds(q)' /\ (proc[q].at # "none" => proc[q].job \in Jobs)
                        /\ proc'[q].job = proc[q].job
    BY <1>1 DEF Holds, Sound, Placed, ProcsOnward
  <2>2. QED
    BY <1>1, <1>2, <1>3, <2>1, PostedFrame DEF Manned, Free
<1>6. \A i \in Jobs : SeenTo(i) => SeenTo(i)' /\ ledger'.job[i].session = Job(i).session
  <2>1. ASSUME NEW i \in Jobs, SeenTo(i)
        PROVE  SeenTo(i)'
    <3>1. CASE i = j
      BY <1>1, <3>1, NoneIsNobody DEF SeenTo, Job, Alive
    <3>2. CASE i # j
      <4>1. Job(i).owner # p
        BY <3>2, NoneIsNobody DEF Sound, OwnersKnown
      <4>2. QED
        BY <1>1, <2>1, <3>2, <4>1, SeenFrame
    <3>3. QED
      BY <3>1, <3>2
  <2>2. QED
    BY <1>1, <2>1
<1>7. Owing'
  BY <1>1, <1>6, OwingFrame DEF Manned
<1>8. QED
  BY <1>4, <1>5, <1>7 DEF Manned

LEMMA FinishLastManned ==
    ASSUME Sound, Manned, NEW p \in Pids, FinishLast(p)
    PROVE  Manned'
<1> PICK j \in Jobs : j = proc[p].job
  BY FinishLastFacts
<1>1. /\ proc[p].at = "finish" /\ op = Free /\ UNCHANGED << proc, owed >>
      /\ op' # Free /\ op'.by = p /\ ~Job(j).rerun
      /\ ledger'.job[j].st \in Terminal \cup {"none"} /\ ~ledger'.job[j].rerun
      /\ \A i \in Jobs \ {j} : ledger'.job[i] = Job(i) \/ Dropped(Job(i), ledger'.job[i])
  BY FinishLastFacts
<1>2. ledger'.job[j].st \notin Open
  BY <1>1 DEF Open, Active, Terminal
<1>3. \A i \in Jobs \ {j} : Undisturbed(Job(i), ledger'.job[i])
  BY <1>1, CleanedUndisturbed DEF Kept, Sound, TypeOK, LedgerType, Job
<1>4. OnePerSession'
  BY <1>2, <1>3, ApartFrame DEF Manned, Undisturbed
<1>5. Employed(p) \/ Dismissed(p)
  BY <1>1 DEF Manned, Posted
<1>6. \A q \in Pids : Posted(q)'
  <2> SUFFICES ASSUME NEW q \in Pids PROVE Posted(q)'
    OBVIOUS
  <2>1. Holds(q)' => q = p
    BY <1>1 DEF Holds
  <2>2. CASE proc[q].job = j
    <3>1. Dismissed(q)'
      BY <1>1, <1>2, <2>2 DEF Dismissed, Job
    <3>2. q # p => ~Employed(q)
      BY <1>2, <1>5, <2>2 DEF Employed, Dismissed, Open, Active
    <3>3. proc[q].at \notin {"boot", "work", "reload"}
      BY <1>1, <3>2 DEF Manned, Posted, Free
    <3>4. QED
      BY <1>1, <3>1, <3>3 DEF Posted
  <2>3. CASE proc[q].job # j
    <3>1. proc[q].at # "none" => proc[q].job \in Jobs
      BY DEF Sound, Placed
    <3>2. QED
      BY <1>1, <1>3, <2>1, <2>3, <3>1, PostedFrame DEF Manned, Free
  <2>4. QED
    BY <2>2, <2>3
<1>7. \A i \in Jobs : SeenTo(i) => SeenTo(i)' /\ ledger'.job[i].session = Job(i).session
  <2>1. ~SeenTo(j)
    <3>1. CASE Employed(p)
      BY <1>1, <3>1, NoneIsNobody DEF Employed, SeenTo, Alive
    <3>2. CASE Dismissed(p)
      BY <3>2 DEF Dismissed, SeenTo, Open, Active
    <3>3. QED
      BY <1>5, <3>1, <3>2
  <2>2. \A i \in Jobs : SeenTo(i) => ledger'.job[i] = Job(i)
    BY <1>1, <2>1 DEF SeenTo, Dropped, Terminal
  <2>3. QED
    BY <1>1, <2>2, SeenFrame
<1>8. Owing'
  BY <1>1, <1>7, OwingFrame DEF Manned
<1>9. QED
  BY <1>4, <1>6, <1>8 DEF Manned

LEMMA NextManned ==
    ASSUME Sound, Manned, LaunchesRecorded, [Next]_vars
    PROVE  Manned'
<1>1. CASE UNCHANGED vars
  BY <1>1 DEF vars, Manned, OnePerSession, Posted, Employed, Dismissed, Owing, SeenTo, Job, Holds, Alive
<1>2. CASE Next
  BY <1>2, EnqueueManned, RefuseManned, JoinManned, AppendManned, DispatchManned,
     LaunchManned, LaunchFailsManned, RecordManned, AbortManned, BootManned, WorkManned,
     FinishRerunManned, FinishLastManned, StopManned, ReloadManned
     DEF Next, Step, Holder, Worker
<1>3. QED
  BY <1>1, <1>2

LEMMA InitManned == Init => Manned
BY NoneIsNobody DEF Init, Manned, OnePerSession, Posted, Owing, Job, NoJob, Open, Active, Holds, Free

-----------------------------------------------------------------------------
(* The third layer is inductive as long as the holders of the lock go on. *)

LEMMA EmployedFrame ==
    ASSUME NEW q \in Pids, Employed(q), proc[q].at \notin {"none", "ended"},
           proc'[q].job = proc[q].job,
           Undisturbed(Job(proc[q].job), ledger'.job[proc[q].job])
    PROVE  Employed(q)'
<1>1. Alive(Job(proc[q].job).owner)
  BY NoneIsNobody DEF Employed, Alive
<1>2. QED
  BY <1>1 DEF Employed, Undisturbed, Job

LEMMA FinishesFrame ==
    ASSUME Sound, FinishesOnce,
           \A q \in Pids : proc'[q].at = "finish" /\ ~Holds(q)' =>
               /\ proc'[q].job = proc[q].job
               /\ Undisturbed(Job(proc[q].job), ledger'.job[proc[q].job])
               /\ \/ proc[q].at = "finish" /\ ~Holds(q)
                  \/ proc[q].at = "work" /\ Employed(q)
    PROVE  FinishesOnce'
<1> SUFFICES ASSUME NEW q \in Pids, proc'[q].at = "finish", ~Holds(q)'
             PROVE  Employed(q)'
  BY DEF FinishesOnce
<1>1. Employed(q) /\ proc[q].at \notin {"none", "ended"}
  BY DEF FinishesOnce
<1>2. QED
  BY <1>1, EmployedFrame

\* The steps of workers: no job starts or ends, none loses its owner.
LEMMA StandingFrame ==
    ASSUME Sound, Serial, UNCHANGED << op, turned >>, ledger'.active = ledger.active,
           \A i \in Jobs : /\ ledger'.job[i].st = Job(i).st
                           /\ Job(i).owner # None => ledger'.job[i].owner # None
    PROVE  OneActive' /\ Moving'
<1>1. OneActive'
  <2>1. ledger.active # None => ledger.active \in Jobs
    BY DEF Sound, TypeOK, LedgerType
  <2>2. QED
    BY <2>1 DEF Serial, OneActive, Job, Launching
<1>2. Moving'
  <2>1. Pending(ledger') = Pending(ledger)
    BY DEF Pending, InState, Job
  <2>2. QED
    BY <2>1 DEF Serial, Moving
<1>3. QED
  BY <1>1, <1>2

LEMMA EnqueueSerial ==
    ASSUME Sound, Serial, NEW s \in Sessions, NEW a \in Args, Enqueue(s, a)
    PROVE  Serial'
<1>1. /\ UNCHANGED proc /\ op = Free /\ op' # Free /\ op'.at = "choose"
      /\ \A i \in Jobs : Kept(Job(i), ledger'.job[i]) \/ Dropped(Job(i), ledger'.job[i])
  BY EnqueueFacts
<1>2. PICK j \in Suspects(ledger) :
        /\ LeftAlone(ledger, j) => op'.mem.active = j /\ ledger'.active \in {ledger.active, j}
        /\ ~LeftAlone(ledger, j) => op'.mem.active = None /\ ledger'.active = None
        /\ ~LeftAlone(ledger, j) /\ j \in Jobs => ledger'.job[j].st \notin Active
  BY EnqueueFacts
<1>3. j = ledger.active /\ j \in Jobs \cup {None}
  <2>1. ledger.active \in Jobs \cup {None}
    BY DEF Sound, TypeOK, LedgerType
  <2>2. ledger.active = None => InState(ledger, Active) = {}
    BY NoneIsNobody DEF Serial, OneActive, InState, Job
  <2>3. QED
    BY <2>1, <2>2 DEF Suspects
<1>4. \A i \in Jobs : /\ Job(i).st \notin Active => ledger'.job[i].st \notin Active
                      /\ LeftAlone(ledger, i) => ledger'.job[i] = Job(i)
                      /\ Undisturbed(Job(i), ledger'.job[i])
  <2> SUFFICES ASSUME NEW i \in Jobs
               PROVE  /\ Job(i).st \notin Active => ledger'.job[i].st \notin Active
                      /\ LeftAlone(ledger, i) => ledger'.job[i] = Job(i)
                      /\ Undisturbed(Job(i), ledger'.job[i])
    OBVIOUS
  <2>1. Job(i) \in JobType
    BY DEF Sound, TypeOK, LedgerType, Job
  <2>2. Undisturbed(Job(i), ledger'.job[i])
    BY <1>1, <2>1, CleanedUndisturbed
  <2>3. CASE Dropped(Job(i), ledger'.job[i])
    BY <2>2, <2>3 DEF Dropped, NoJob, Active, Terminal, LeftAlone, Job
  <2>4. CASE Kept(Job(i), ledger'.job[i])
    BY <2>2, <2>4 DEF Kept, TakenBack, LeftAlone, Job
  <2>5. QED
    BY <1>1, <2>3, <2>4
<1>5. OneActive'
  <2>1. CASE LeftAlone(ledger, j)
    <3>1. j \in Jobs /\ ledger'.active = j /\ op'.mem.active = j /\ ledger'.job[j] = Job(j)
      BY <1>2, <1>3, <1>4, <2>1 DEF LeftAlone
    <3>2. Job(j).st \in Active /\ Job(j).owner # None
      BY <2>1 DEF LeftAlone, Alive, Job
    <3>3. \A i \in Jobs \ {j} : ledger'.job[i].st \notin Active
      BY <1>3, <1>4 DEF Serial, OneActive
    <3>4. QED
      BY <3>1, <3>2, <3>3 DEF OneActive, Job
  <2>2. CASE ~LeftAlone(ledger, j)
    <3>1. \A i \in Jobs : ledger'.job[i].st \notin Active
      BY <1>2, <1>3, <1>4, <2>2 DEF Serial, OneActive
    <3>2. QED
      BY <1>2, <2>2, <3>1, NoneIsNobody DEF OneActive, Job
  <2>3. QED
    BY <2>1, <2>2
<1>6. FinishesOnce'
  <2>1. \A q \in Pids : proc[q].at # "none" => proc[q].job \in Jobs
    BY DEF Sound, Placed
  <2>2. QED
    BY <1>1, <1>4, <2>1, FinishesFrame DEF Serial, Holds
<1>7. Moving'
  BY <1>1 DEF Moving
<1>8. QED
  BY <1>5, <1>6, <1>7 DEF Serial

\* The lock is released and the file is as it was.
LEMMA ReleaseSerial ==
    ASSUME Sound, Serial, Refuse \/ DispatchNothing
    PROVE  Serial'
<1>1. /\ op # Free /\ op.at \in {"choose", "dispatch"} /\ Release /\ UNCHANGED ledger
  BY DEF Refuse, DispatchNothing, Free
<1>2. /\ op' = Free /\ ProcsOnward
      /\ \A p \in Pids : IF op.by = p THEN proc'[p].at = "ended" ELSE proc'[p] = proc[p]
  BY <1>1, ReleaseFrame
<1>3. OneActive'
  BY <1>1, <1>2 DEF Serial, OneActive, Launching, Job, Free
<1>4. FinishesOnce'
  <2>1. \A i \in Jobs : Undisturbed(Job(i), ledger'.job[i])
    BY <1>1 DEF Undisturbed, Job
  <2>2. \A q \in Pids : proc[q].at # "none" => proc[q].job \in Jobs
    BY DEF Sound, Placed
  <2>3. QED
    BY <1>1, <1>2, <2>1, <2>2, FinishesFrame DEF Serial, Holds
<1>5. Moving'
  <2>1. CASE Refuse
    BY <2>1 DEF Refuse, Moving
  <2>2. CASE DispatchNothing
    <3>1. op.mem.active = ledger.active /\ Pending(op.mem) = Pending(ledger)
      BY <1>1 DEF Serial, OneActive, Sound, Copied, Pending, InState
    <3>2. QED
      BY <1>1, <2>2, <3>1 DEF DispatchNothing, Moving
  <2>3. QED
    BY <2>1, <2>2
<1>6. QED
  BY <1>3, <1>4, <1>5 DEF Serial

LEMMA JoinSerial ==
    ASSUME Sound, Serial, Join
    PROVE  Serial'
<1>1. /\ UNCHANGED proc /\ op # Free /\ op.at = "choose" /\ op' # Free /\ op'.at = "dispatch"
      /\ op.mem.active = ledger.active /\ op'.mem.active = ledger.active
      /\ ledger'.active = ledger.active /\ ledger.active \in Jobs \cup {None}
      /\ op.by = None
  BY JoinFacts DEF Serial, OneActive, Sound, Placed, TypeOK, LedgerType
<1>2. \A i \in Jobs : /\ ledger'.job[i].st = Job(i).st /\ ledger'.job[i].owner = Job(i).owner
                      /\ Undisturbed(Job(i), ledger'.job[i])
  <2> PICK j \in Jobs :
        /\ Job(j).st \in Open
        /\ \A i \in Jobs :
             ledger'.job[i] = Job(i) \/ (i = j /\ ledger'.job[i] = [Job(i) EXCEPT !.rerun = TRUE])
    BY JoinFacts
  <2>1. Job(j) \in JobType /\ Job(j) # NoJob
    BY DEF Sound, TypeOK, LedgerType, Job, Open, Active, NoJob
  <2>2. \A i \in Jobs \ {j} : ledger'.job[i] = Job(i)
    OBVIOUS
  <2>3. /\ ledger'.job[j].st = Job(j).st /\ ledger'.job[j].owner = Job(j).owner
        /\ ledger'.job[j].session = Job(j).session
    BY <2>1 DEF JobType
  <2>4. QED
    BY <2>2, <2>3 DEF Undisturbed
<1>3. OneActive'
  BY <1>1, <1>2 DEF Serial, OneActive, Launching, Job
<1>4. FinishesOnce'
  <2>1. \A q \in Pids : (proc[q].at # "none" => proc[q].job \in Jobs) /\ ~Holds(q)
    BY <1>1, NoneIsNobody DEF Sound, Placed, Holds
  <2>2. QED
    BY <1>1, <1>2, <2>1, FinishesFrame DEF Serial
<1>5. Moving'
  BY <1>1 DEF Moving
<1>6. QED
  BY <1>3, <1>4, <1>5 DEF Serial

LEMMA AppendSerial ==
    ASSUME Sound, Serial, Append
    PROVE  Serial'
<1> PICK j \in Jobs : j = ledger'.accepted
  BY AppendFacts
<1>1. /\ UNCHANGED proc /\ op # Free /\ op.at = "choose" /\ op' # Free /\ op'.at = "dispatch"
      /\ op'.mem = ledger' /\ ledger'.active = ledger.active /\ ledger.active \in Jobs \cup {None}
      /\ op.by = None
      /\ Job(j) = NoJob /\ ledger'.job[j].st = "pending"
      /\ \A i \in Jobs \ {j} : ledger'.job[i] = Job(i)
  BY AppendFacts DEF Serial, OneActive, Sound, Placed, TypeOK, LedgerType
<1>2. OneActive'
  BY <1>1 DEF Serial, OneActive, Launching, Job, NoJob, Active
<1>3. FinishesOnce'
  <2>1. \A i \in Jobs \ {j} : Undisturbed(Job(i), ledger'.job[i])
    BY <1>1 DEF Undisturbed
  <2>2. \A q \in Pids : ~Holds(q)
    BY <1>1, NoneIsNobody DEF Holds
  <2>3. \A q \in Pids : proc[q].at = "finish" => proc[q].job \in Jobs \ {j}
    BY <1>1, <2>2 DEF Serial, FinishesOnce, Employed, NoJob, Sound, Placed
  <2>4. QED
    BY <1>1, <2>1, <2>2, <2>3, FinishesFrame DEF Serial
<1>4. Moving'
  BY <1>1 DEF Moving
<1>5. QED
  BY <1>2, <1>3, <1>4 DEF Serial

LEMMA DispatchSerial ==
    ASSUME Sound, Serial, Dispatch
    PROVE  Serial'
<1> PICK j \in Jobs : j = op'.job
  BY DispatchFacts
<1>1. /\ UNCHANGED proc /\ op # Free /\ op' # Free /\ op'.at = "launch" /\ op'.by = op.by
      /\ op'.mem = ledger' /\ ledger.active = None /\ ledger'.active = j
      /\ Job(j).st = "pending" /\ ledger'.job[j].st = "starting"
      /\ \A i \in Jobs \ {j} : ledger'.job[i] = Job(i)
  BY DispatchFacts DEF Serial, OneActive
<1>2. OneActive'
  BY <1>1, NoneIsNobody DEF Serial, OneActive, Launching, Job, Active
<1>3. FinishesOnce'
  <2>1. \A i \in Jobs \ {j} : Undisturbed(Job(i), ledger'.job[i])
    BY <1>1 DEF Undisturbed
  <2>2. \A q \in Pids : proc[q].at = "finish" /\ ~Holds(q) => proc[q].job \in Jobs \ {j}
    BY <1>1 DEF Serial, FinishesOnce, Employed, Sound, Placed
  <2>3. QED
    BY <1>1, <2>1, <2>2, FinishesFrame DEF Serial, Holds
<1>4. Moving'
  BY <1>1 DEF Moving
<1>5. QED
  BY <1>2, <1>3, <1>4 DEF Serial

LEMMA LaunchSerial ==
    ASSUME Sound, Serial, Launch
    PROVE  Serial'
<1>1. /\ op # Free /\ UNCHANGED ledger /\ op' # Free /\ op'.at = "record" /\ op'.by = op.by
      /\ op'.mem = op.mem
  BY LaunchFacts
<1>2. PICK p \in Pids : /\ proc'[p].at = "boot"
                        /\ \A q \in Pids \ {p} : proc'[q] = proc[q]
  BY LaunchFacts
<1>3. OneActive'
  BY <1>1 DEF Serial, OneActive, Launching, Job
<1>4. FinishesOnce'
  <2>1. \A i \in Jobs : Undisturbed(Job(i), ledger'.job[i])
    BY <1>1 DEF Undisturbed, Job
  <2>2. \A q \in Pids : proc[q].at # "none" => proc[q].job \in Jobs
    BY DEF Sound, Placed
  <2>3. QED
    BY <1>1, <1>2, <2>1, <2>2, FinishesFrame DEF Serial, Holds
<1>5. Moving'
  BY <1>1 DEF Moving
<1>6. QED
  BY <1>3, <1>4, <1>5 DEF Serial

LEMMA LaunchFailsSerial ==
    ASSUME Sound, Serial, LaunchFails
    PROVE  Serial'
<1> PICK j \in Jobs : j = op.job
  BY LaunchFailsFacts
<1>1. /\ UNCHANGED proc /\ op # Free /\ op' # Free /\ op'.at = "dispatch" /\ op'.by = op.by
      /\ op'.mem = ledger' /\ ledger.active = j /\ ledger'.active = None
      /\ Job(j).st = "starting" /\ ledger'.job[j].st = "failed"
      /\ \A i \in Jobs \ {j} : ledger'.job[i] = Job(i)
  BY LaunchFailsFacts
<1>2. OneActive'
  BY <1>1, NoneIsNobody DEF Serial, OneActive, Launching, Job, Active
<1>3. FinishesOnce'
  <2>1. \A i \in Jobs \ {j} : Undisturbed(Job(i), ledger'.job[i])
    BY <1>1 DEF Undisturbed
  <2>2. \A q \in Pids : proc[q].at = "finish" /\ ~Holds(q) => proc[q].job \in Jobs \ {j}
    BY <1>1 DEF Serial, FinishesOnce, Employed, Sound, Placed
  <2>3. QED
    BY <1>1, <2>1, <2>2, FinishesFrame DEF Serial, Holds
<1>4. Moving'
  BY <1>1 DEF Moving
<1>5. QED
  BY <1>2, <1>3, <1>4 DEF Serial

LEMMA RecordSerial ==
    ASSUME Sound, Serial, Record
    PROVE  Serial'
<1> PICK j \in Jobs : j = op.job
  BY RecordFacts
<1>1. /\ op # Free /\ op.child \in Pids /\ Release /\ ledger.active = j /\ ledger'.active = j
      /\ Job(j).st = "starting" /\ ledger'.job[j].st = "running" /\ ledger'.job[j].owner = op.child
      /\ \A i \in Jobs \ {j} : ledger'.job[i] = Job(i)
  BY RecordFacts
<1>2. /\ op' = Free /\ ProcsOnward
      /\ \A p \in Pids : IF op.by = p THEN proc'[p].at = "ended" ELSE proc'[p] = proc[p]
  BY <1>1, ReleaseFrame
<1>3. OneActive'
  BY <1>1, <1>2, NoneIsNobody DEF Serial, OneActive, Job, Active
<1>4. FinishesOnce'
  <2>1. \A i \in Jobs \ {j} : Undisturbed(Job(i), ledger'.job[i])
    BY <1>1 DEF Undisturbed
  <2>2. \A q \in Pids : proc[q].at = "finish" /\ ~Holds(q) => proc[q].job \in Jobs \ {j}
    BY <1>1 DEF Serial, FinishesOnce, Employed, Sound, Placed
  <2>3. QED
    BY <1>1, <1>2, <2>1, <2>2, FinishesFrame DEF Serial, Holds
<1>5. Moving'
  BY <1>1, NoneIsNobody DEF Moving
<1>6. QED
  BY <1>3, <1>4, <1>5 DEF Serial

LEMMA BootSerial ==
    ASSUME Sound, Manned, Serial, NEW p \in Pids, Boot(p)
    PROVE  Serial'
<1> PICK j \in Jobs : j = proc[p].job
  BY BootFacts
<1>1. /\ proc[p].at = "boot" /\ op = Free /\ UNCHANGED << op, turned >>
  BY BootFacts
<1>2. Job(j).st = "running" /\ Job(j).owner = p
  BY <1>1 DEF Manned, Posted, Employed, Free
<1>3. /\ proc'[p].at = "work" /\ \A q \in Pids \ {p} : proc'[q] = proc[q]
      /\ ledger'.active = ledger.active
      /\ ledger'.job[j].st = "running" /\ ledger'.job[j].owner = p
      /\ ledger'.job[j].session = Job(j).session
      /\ \A i \in Jobs \ {j} : ledger'.job[i] = Job(i)
  BY <1>2, BootFacts DEF Active
<1>4. OneActive' /\ Moving'
  <2>1. \A i \in Jobs : /\ ledger'.job[i].st = Job(i).st
                        /\ Job(i).owner # None => ledger'.job[i].owner # None
    BY <1>2, <1>3
  <2>2. QED
    BY <1>1, <1>3, <2>1, StandingFrame
<1>5. FinishesOnce'
  <2>1. \A i \in Jobs : Undisturbed(Job(i), ledger'.job[i])
    BY <1>2, <1>3 DEF Undisturbed, Open, Active
  <2>2. \A q \in Pids : proc[q].at # "none" => proc[q].job \in Jobs
    BY DEF Sound, Placed
  <2>3. QED
    BY <1>1, <1>3, <2>1, <2>2, FinishesFrame DEF Serial, Holds
<1>6. QED
  BY <1>4, <1>5 DEF Serial

LEMMA FinishRerunSerial ==
    ASSUME Sound, Serial, NEW p \in Pids, FinishRerun(p)
    PROVE  Serial'
<1> PICK j \in Jobs : j = proc[p].job
  BY FinishRerunFacts
<1>1. /\ proc[p].at = "finish" /\ op = Free /\ UNCHANGED << op, turned >>
      /\ proc'[p].at = "reload" /\ \A q \in Pids \ {p} : proc'[q] = proc[q]
      /\ ledger'.active = ledger.active
      /\ ledger'.job[j].st = "running" /\ ledger'.job[j].owner = p
      /\ ledger'.job[j].session = Job(j).session
      /\ \A i \in Jobs \ {j} : ledger'.job[i] = Job(i)
  BY FinishRerunFacts
<1>2. Job(j).st = "running" /\ Job(j).owner = p
  BY <1>1 DEF Serial, FinishesOnce, Employed, Holds
<1>3. OneActive' /\ Moving'
  <2>1. \A i \in Jobs : /\ ledger'.job[i].st = Job(i).st
                        /\ Job(i).owner # None => ledger'.job[i].owner # None
    BY <1>1, <1>2
  <2>2. QED
    BY <1>1, <2>1, StandingFrame
<1>4. FinishesOnce'
  <2>1. \A i \in Jobs : Undisturbed(Job(i), ledger'.job[i])
    BY <1>1, <1>2 DEF Undisturbed, Open, Active
  <2>2. \A q \in Pids : proc[q].at # "none" => proc[q].job \in Jobs
    BY DEF Sound, Placed
  <2>3. QED
    BY <1>1, <2>1, <2>2, FinishesFrame DEF Serial, Holds
<1>5. QED
  BY <1>3, <1>4 DEF Serial

\* The job that ends is the active one, and no other is.
LEMMA FinishLastSerial ==
    ASSUME Sound, Serial, NEW p \in Pids, FinishLast(p)
    PROVE  Serial'
<1> PICK j \in Jobs : j = proc[p].job
  BY FinishLastFacts
<1>1. /\ proc[p].at = "finish" /\ op = Free /\ UNCHANGED proc
      /\ op' # Free /\ op'.by = p /\ op'.at = "dispatch" /\ op'.mem = ledger' /\ ledger'.active = None
      /\ ledger'.job[j].st \in Terminal \cup {"none"}
      /\ \A i \in Jobs \ {j} : ledger'.job[i] = Job(i) \/ Dropped(Job(i), ledger'.job[i])
  BY FinishLastFacts
<1>2. Job(j).st = "running" /\ Job(j).owner = p
  BY <1>1 DEF Serial, FinishesOnce, Employed, Holds
<1>3. OneActive'
  <2>1. j = ledger.active
    BY <1>2 DEF Serial, OneActive, Active
  <2>2. \A i \in Jobs : ledger'.job[i].st \notin Active
    BY <1>1, <2>1 DEF Serial, OneActive, Dropped, NoJob, Active, Terminal
  <2>3. QED
    BY <1>1, <2>2, NoneIsNobody DEF OneActive, Job
<1>4. FinishesOnce'
  <2>1. \A i \in Jobs \ {j} : Undisturbed(Job(i), ledger'.job[i])
    BY <1>1, CleanedUndisturbed DEF Kept, Sound, TypeOK, LedgerType, Job
  <2>2. \A q \in Pids \ {p} : proc[q].at = "finish" => proc[q].job \in Jobs \ {j}
    BY <1>1, <1>2 DEF Serial, FinishesOnce, Employed, Holds, Sound, Placed
  <2>3. QED
    BY <1>1, <2>1, <2>2, FinishesFrame DEF Serial, Holds
<1>5. Moving'
  BY <1>1 DEF Moving
<1>6. QED
  BY <1>3, <1>4, <1>5 DEF Serial

\* The steps of workers that write nothing.
LEMMA WorkersSerial ==
    ASSUME Sound, Manned, Serial, NEW p \in Pids,
           Work(p) \/ FinishGone(p) \/ Reload(p) \/ Kill(p)
    PROVE  Serial'
<1>1. /\ UNCHANGED << ledger, op, turned >> /\ proc[p].at # "none"
      /\ proc[p].at = "work" => proc'[p].at = "finish" \/ proc'[p].at = "ended"
      /\ proc[p].at # "work" => proc'[p].at # "finish"
      /\ ProcsOnward /\ \A q \in Pids \ {p} : proc'[q] = proc[q]
  <2>1. CASE Work(p)
    <3>1. PICK raised \in BOOLEAN : proc' = [proc EXCEPT ![p].at = "finish", ![p].error = raised]
      BY <2>1 DEF Work
    <3>2. QED
      BY <2>1, <3>1 DEF Work, Sound, TypeOK, ProcType, ProcsOnward
  <2>2. CASE FinishGone(p)
    BY <2>2 DEF FinishGone, Sound, TypeOK, ProcType, ProcsOnward
  <2>3. CASE Reload(p)
    <3>1. PICK place \in {"work", "ended"} : proc' = [proc EXCEPT ![p].at = place]
      BY <2>3 DEF Reload, Started
    <3>2. QED
      BY <2>3, <3>1 DEF Reload, Sound, TypeOK, ProcType, ProcsOnward
  <2>4. CASE Kill(p)
    BY <2>4 DEF Kill, Sound, TypeOK, ProcType, ProcsOnward
  <2>5. QED
    BY <2>1, <2>2, <2>3, <2>4
<1>2. OneActive' /\ Moving'
  BY <1>1, StandingFrame DEF Job
<1>3. FinishesOnce'
  <2>1. \A i \in Jobs : Undisturbed(Job(i), ledger'.job[i])
    BY <1>1 DEF Undisturbed, Job
  <2>2. \A q \in Pids : /\ proc[q].at # "none" => proc[q].job \in Jobs
                        /\ proc[q].at = "work" => Employed(q)
                        /\ proc'[q].job = proc[q].job
                        /\ Holds(q)' <=> Holds(q)
    BY <1>1 DEF Sound, Placed, Manned, Posted, ProcsOnward, Holds
  <2>3. QED
    BY <1>1, <2>1, <2>2, FinishesFrame DEF Serial
<1>4. QED
  BY <1>2, <1>3 DEF Serial

LEMMA NextSerial ==
    ASSUME Sound, Manned, Serial, HoldersSteady, [Next]_vars
    PROVE  Serial'
<1>1. CASE UNCHANGED vars
  BY <1>1 DEF vars, Serial, OneActive, FinishesOnce, Moving, Employed, Job, Holds, Launching,
              Pending, InState
<1>2. CASE Next
  <2>1. ~Abort /\ \A p \in Pids : ~FinishFails(p)
    BY DEF HoldersSteady, Abort, FinishFails
  <2>2. QED
    BY <1>2, <2>1, EnqueueSerial, ReleaseSerial, JoinSerial, AppendSerial, DispatchSerial,
       LaunchSerial, LaunchFailsSerial, RecordSerial, BootSerial, FinishRerunSerial,
       FinishLastSerial, WorkersSerial
       DEF Next, Step, Holder, Worker
<1>3. QED
  BY <1>1, <1>2

LEMMA InitSerial == Init => Serial
<1> SUFFICES ASSUME Init PROVE Serial
  OBVIOUS
<1>1. \A j \in Jobs : Job(j).st = "none"
  BY DEF Init, Job, NoJob
<1>2. QED
  BY <1>1, NoneIsNobody
     DEF Init, Serial, OneActive, FinishesOnce, Moving, Pending, InState, Job, Active

-----------------------------------------------------------------------------
(* The theorems. *)

LEMMA AlwaysInv == Spec => []Inv
<1>1. Init => Inv
  BY InitSound, InitManned, InitSerial DEF Inv
<1>2. Inv /\ [Next]_vars => Inv'
  <2> SUFFICES ASSUME Inv, [Next]_vars PROVE Inv'
    OBVIOUS
  <2>1. UNCHANGED frail
    BY DEF Next, vars
  <2>2. LaunchesRecorded' => LaunchesRecorded
    BY <2>1 DEF LaunchesRecorded
  <2>3. HoldersSteady' => HoldersSteady /\ LaunchesRecorded
    BY <2>1 DEF HoldersSteady, LaunchesRecorded
  <2>4. QED
    BY <2>2, <2>3, NextSound, NextManned, NextSerial DEF Inv
<1>3. QED
  BY <1>1, <1>2, PTL DEF Spec

\* Whoever else dies or fails: unless a dispatcher does between a launch and its
\* record, no two workers process the same session ("not processed concurrently",
\* docs/general-processing.md).
THEOREM AloneInSession == Spec => []SessionAlone
<1>1. Inv => SessionAlone
  <2> SUFFICES ASSUME Inv, LaunchesRecorded, NEW p \in Working, NEW q \in Working, p # q
               PROVE  ledger.job[proc[p].job].session # ledger.job[proc[q].job].session
    BY DEF SessionAlone
  <2>1. p \in Pids /\ q \in Pids /\ Employed(p) /\ Employed(q)
    BY DEF Inv, Manned, Posted, Working
  <2>2. proc[p].job \in Jobs /\ proc[q].job \in Jobs
    BY <2>1 DEF Working, Inv, Sound, Placed
  <2>3. proc[p].job # proc[q].job
    BY <2>1 DEF Employed
  <2>4. QED
    BY <2>1, <2>2, <2>3 DEF Inv, Manned, OnePerSession, Employed, Open, Active, Job
<1>2. QED
  BY <1>1, AlwaysInv, PTL

\* Under the same condition an accepted request is seen to: until a worker takes
\* it up, a job of its session waits, starts, is to run again or has a worker
\* that is about to run it or dead (enqueue, _recover_dead_active, _finish).
THEOREM RequestsKept == Spec => []NothingForgotten
<1>1. Inv => NothingForgotten
  <2> SUFFICES ASSUME Inv, LaunchesRecorded, NEW s \in owed
               PROVE  \E j \in Jobs :
                        /\ ledger.job[j].session = s
                        /\ \/ ledger.job[j].st \in {"pending", "starting"}
                           \/ /\ ledger.job[j].st = "running"
                              /\ \/ ledger.job[j].rerun
                                 \/ ~Alive(ledger.job[j].owner)
                                 \/ \E p \in Pids : proc[p].job = j /\ proc[p].at \in {"boot", "reload"}
    BY DEF NothingForgotten
  <2>1. PICK j \in Jobs : Job(j).session = s /\ SeenTo(j)
    BY DEF Inv, Manned, Owing
  <2>2. Alive(Job(j).owner) => /\ Job(j).owner \in Pids
                               /\ proc[Job(j).owner].job = j
    BY DEF Alive, Inv, Sound, OwnersKnown, TypeOK, LedgerType, JobType, NoJob, Job
  <2>3. QED
    BY <2>1, <2>2 DEF SeenTo, Job
<1>2. QED
  BY <1>1, AlwaysInv, PTL

\* As long as the holders of the lock go on, one worker processes at a time, over
\* deaths of workers and failed launches (`active_job_id').
THEOREM Serialized == Spec => []OneAtATime
<1>1. Inv => OneAtATime
  <2> SUFFICES ASSUME Inv, HoldersSteady
               PROVE  Cardinality(Working) <= 1
    BY DEF OneAtATime
  <2>1. Manned /\ Serial
    BY DEF Inv, HoldersSteady, LaunchesRecorded
  <2>2. \A p \in Working : p \in Pids /\ Job(ledger.active).owner = p
    BY <2>1 DEF Working, Manned, Posted, Employed, Serial, OneActive, Active, Inv, Sound, Placed
  <2>3. CASE Working = {}
    BY <2>3, FS_EmptySet
  <2>4. CASE Working # {}
    <3>1. PICK p : Working = {p}
      BY <2>2, <2>4
    <3>2. QED
      BY <3>1, FS_Singleton
  <2>5. QED
    BY <2>3, <2>4
<1>2. QED
  BY <1>1, AlwaysInv, PTL

\* Under the same condition, and until a request is turned away, no job waits at
\* a free lock without an active job that somebody is on record for (_dispatch).
THEOREM NoneStranded == Spec => []NoStall
<1>1. Inv => NoStall
  <2> SUFFICES ASSUME Inv, HoldersSteady, ~turned, op = Free, Pending(ledger) # {}
               PROVE  ledger.active # None /\ ledger.job[ledger.active].owner # None
    BY DEF NoStall
  <2>1. Serial
    BY DEF Inv, HoldersSteady
  <2>2. ledger.active # None
    BY <2>1 DEF Serial, Moving
  <2>3. ~Launching
    BY DEF Launching, Free
  <2>4. QED
    BY <2>1, <2>2, <2>3 DEF Serial, OneActive, Job
<1>2. QED
  BY <1>1, AlwaysInv, PTL

=============================================================================
