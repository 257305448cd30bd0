----------------------------- MODULE ProcessJobs -----------------------------
(***************************************************************************)
(* Background processing of memleaf (process_jobs.py): a durable queue of  *)
(* jobs, one per source and session, and detached worker processes.        *)
(*                                                                         *)
(* There is no daemon.  Whoever holds the Vault lock dispatches: the       *)
(* client's process at the end of enqueue, and a worker at the end of      *)
(* _finish.  Dispatching is three durable steps: the job is called         *)
(* starting, a process is launched, its pid is recorded.  The launched     *)
(* worker waits for the lock first, so it sees none of them half done      *)
(* unless the dispatcher died or failed in between.                        *)
(*                                                                         *)
(* `ledger' is the file; `op' is what the holder of the lock is doing, with *)
(* its copy of the file; `proc' are the workers.  Jobs are numbered in the *)
(* order in which they are accepted, which is the order of the file.       *)
(***************************************************************************)
EXTENDS Naturals, FiniteSets

CONSTANTS
    Sessions,   \* source and session of a conversation
    Args,       \* scope, pipeline and recover flag of a request
    MaxJobs,    \* bound on accepted jobs
    MaxPids,    \* bound on launched workers
    Retained,   \* _MAX_RETAINED, 128 in the code
    QueueMax,   \* _MAX_QUEUE, 32 in the code
    Frailties,  \* where the holder of the lock may die or fail to write
    MaxAsks,    \* bound on enqueue calls
    MaxMishaps  \* bound on workers that die, launches that fail and failures of a holder

ASSUME ConstantsAssumption ==
    /\ MaxJobs \in Nat /\ MaxPids \in Nat /\ QueueMax \in Nat /\ Retained \in Nat
    /\ MaxAsks \in Nat /\ MaxMishaps \in Nat
    /\ Frailties \subseteq SUBSET {"choose", "dispatch", "launch", "record", "finish"}

VARIABLES
    ledger,     \* the ledger file process_jobs.json
    op,         \* the holder of the Vault lock
    proc,       \* the detached workers, by pid
    owed,       \* sessions whose last accepted request no worker has taken up
    turned,     \* a request was turned away
    asks, kills, faults,
    frail       \* where a holder may fail in this behaviour

mishaps == << kills, faults >>

vars == << ledger, op, proc, owed, turned, asks, mishaps, frail >>

Jobs == 1..MaxJobs
Pids == 1..MaxPids
None == 0       \* no job, no pid, and a client that is no worker

Active   == {"starting", "running"}
Terminal == {"succeeded", "deferred", "failed"}

NoJob == [st |-> "none", session |-> None, args |-> None, owner |-> None, rerun |-> FALSE]

JobType ==
    {NoJob} \cup
    [st: Active \cup Terminal \cup {"pending"}, session: Sessions, args: Args,
     owner: Pids \cup {None}, rerun: BOOLEAN]

LedgerType == [job: [Jobs -> JobType], active: Jobs \cup {None}, accepted: 0..MaxJobs]

Free == [at |-> "free"]

OpType ==
    {Free} \cup
    [at: {"choose", "dispatch", "launch", "record"}, by: Pids \cup {None}, mem: LedgerType,
     session: Sessions \cup {None}, args: Args \cup {None},
     job: Jobs \cup {None}, child: Pids \cup {None}]

ProcType ==
    [at: {"none", "boot", "work", "finish", "reload", "ended"}, job: Jobs \cup {None},
     error: BOOLEAN]

TypeOK ==
    /\ ledger \in LedgerType
    /\ op \in OpType
    /\ proc \in [Pids -> ProcType]
    /\ owed \in SUBSET Sessions
    /\ asks \in 0..MaxAsks
    /\ kills \in Nat /\ faults \in Nat /\ kills + faults <= MaxMishaps
    /\ turned \in BOOLEAN
    /\ frail \in Frailties

Init ==
    /\ ledger = [job |-> [j \in Jobs |-> NoJob], active |-> None, accepted |-> 0]
    /\ op = Free
    /\ proc = [p \in Pids |-> [at |-> "none", job |-> None, error |-> FALSE]]
    /\ owed = {}
    /\ turned = FALSE
    /\ asks = 0 /\ kills = 0 /\ faults = 0
    /\ frail \in Frailties

-----------------------------------------------------------------------------
(* Reading the ledger. *)

MishapLeft == kills + faults < MaxMishaps

InState(L, states) == {j \in Jobs : L.job[j].st \in states}

Pending(L) == InState(L, {"pending"})

Newest(S) == CHOOSE j \in S : \A i \in S : i <= j
Oldest(S) == CHOOSE j \in S : \A i \in S : j <= i

\* Jobs of a session that are not over yet.
Unfinished(L, s) == {j \in InState(L, Active \cup {"pending"}) : L.job[j].session = s}

\* _pid_alive: there is a process of that pid
Alive(p) == p # None /\ proc[p].at \notin {"none", "ended"}

(* _recover_dead_active.  Without an active job, any job the file still     *)
(* calls active is looked at (the file keeps them in the order of their     *)
(* random names).  Only a live owner is left alone; the job is then called  *)
(* the active one, in memory.                                               *)
Suspects(L) ==
    IF L.active # None THEN {L.active}
    ELSE IF InState(L, Active) # {} THEN InState(L, Active) ELSE {None}

NeverLeftAlone(L, j) == FALSE       \* mutant: an active job is always taken back

LeftAlone(L, j) == j # None /\ L.job[j].st \in Active /\ Alive(L.job[j].owner)

Recovered(L, j) ==
    IF j = None THEN L
    ELSE IF LeftAlone(L, j) THEN [L EXCEPT !.active = j]
    ELSE IF L.job[j].st \in Active
         THEN [L EXCEPT !.active = None, !.job[j].st = "pending", !.job[j].owner = None]
         ELSE [L EXCEPT !.active = None]

\* _prune_terminal: the newest Retained terminal jobs are kept.
Expired(L) ==
    {j \in InState(L, Terminal) : Cardinality({i \in InState(L, Terminal) : i > j}) >= Retained}

Pruned(L) == [L EXCEPT !.job = [j \in Jobs |-> IF j \in Expired(L) THEN NoJob ELSE @[j]]]

\* A new record behind all others.
Accepted(L, s, a) ==
    LET j == L.accepted + 1
    IN  [L EXCEPT !.accepted = j,
                  !.job[j] = [st |-> "pending", session |-> s, args |-> a,
                              owner |-> None, rerun |-> FALSE]]

-----------------------------------------------------------------------------
(* The holder of the lock. *)

Enter(place, by, L, s, a) ==
    [at |-> place, by |-> by, mem |-> L, session |-> s, args |-> a,
     job |-> None, child |-> None]

\* The lock is released; a worker that held it is at its end.
Release ==
    /\ op' = Free
    /\ proc' = IF op.by = None THEN proc ELSE [proc EXCEPT ![op.by].at = "ended"]

\* enqueue, first part: recovery and pruning are saved at once.
Enqueue(s, a) ==
    /\ op = Free
    /\ asks < MaxAsks
    /\ ledger.accepted < MaxJobs
    /\ asks' = asks + 1
    /\ \E j \in Suspects(ledger) :
         LET mem == Pruned(Recovered(ledger, j))
         IN  /\ op' = Enter("choose", None, mem, s, a)
             /\ ledger' = IF LeftAlone(ledger, j) /\ Expired(ledger) = {} THEN ledger ELSE mem
    /\ UNCHANGED << proc, owed, turned, mishaps >>

\* enqueue, second part: one unfinished job per session.
Refuse ==
    LET mine == Unfinished(op.mem, op.session)
    IN  /\ op.at = "choose"
        /\ \/ mine # {} /\ op.mem.job[Newest(mine)].args # op.args   \* process_arguments_changed
           \/ mine = {} /\ Cardinality(Pending(op.mem)) >= QueueMax  \* queue_full
        /\ Release
        /\ turned' = TRUE
        /\ UNCHANGED << ledger, owed, asks, mishaps >>

RerunForgotten(L, j) == L             \* mutant: the follow-up run is not requested

RerunRequested(L, j) == [L EXCEPT !.job[j].rerun = TRUE]

Join ==
    LET mine == Unfinished(op.mem, op.session)
        j    == Newest(mine)
    IN  /\ op.at = "choose"
        /\ mine # {}
        /\ op.mem.job[j].args = op.args
        /\ \/ /\ op.mem.job[j].st \in Active
              /\ ledger' = RerunRequested(op.mem, j)
              /\ op' = Enter("dispatch", None, ledger', None, None)
           \/ /\ op.mem.job[j].st = "pending"
              /\ op' = Enter("dispatch", None, op.mem, None, None)
              /\ UNCHANGED ledger
        /\ owed' = owed \cup {op.session}
        /\ UNCHANGED << proc, turned, asks, mishaps >>

Append ==
    /\ op.at = "choose"
    /\ Unfinished(op.mem, op.session) = {}
    /\ Cardinality(Pending(op.mem)) < QueueMax
    /\ ledger' = Accepted(op.mem, op.session, op.args)
    /\ op' = Enter("dispatch", None, ledger', None, None)
    /\ owed' = owed \cup {op.session}
    /\ UNCHANGED << proc, turned, asks, mishaps >>

\* _dispatch: the oldest pending job is called starting before its launch.
DispatchNothing ==
    /\ op.at = "dispatch"
    /\ op.mem.active # None \/ Pending(op.mem) = {}
    /\ Release
    /\ UNCHANGED << ledger, owed, turned, asks, mishaps >>

Dispatch ==
    LET j == Oldest(Pending(op.mem))
    IN  /\ op.at = "dispatch"
        /\ op.mem.active = None
        /\ Pending(op.mem) # {}
        /\ ledger' = [op.mem EXCEPT !.active = j, !.job[j].st = "starting", !.job[j].owner = None]
        /\ op' = [op EXCEPT !.at = "launch", !.mem = ledger', !.job = j]
        /\ UNCHANGED << proc, owed, turned, asks, mishaps >>

\* Popen returns a new process, or raises: the job fails, the next one is tried.
Launch ==
    /\ op.at = "launch"
    /\ \E p \in Pids :
         /\ proc[p].at = "none"
         /\ \A q \in Pids : q < p => proc[q].at # "none"
         /\ proc' = [proc EXCEPT ![p].at = "boot", ![p].job = op.job]
         /\ op' = [op EXCEPT !.at = "record", !.child = p]
    /\ UNCHANGED << ledger, owed, turned, asks, mishaps >>

\* mutant: the loop over the waiting jobs is left after a failed launch
LaunchFailsOnce ==
    /\ op.at = "launch"
    /\ MishapLeft
    /\ faults' = faults + 1
    /\ ledger' = [op.mem EXCEPT !.active = None, !.job[op.job].st = "failed"]
    /\ Release
    /\ owed' = owed \ {op.mem.job[op.job].session}
    /\ UNCHANGED << turned, asks, kills >>

LaunchFails ==
    /\ op.at = "launch"
    /\ MishapLeft
    /\ faults' = faults + 1
    /\ ledger' = [op.mem EXCEPT !.active = None, !.job[op.job].st = "failed"]
    /\ op' = [op EXCEPT !.at = "dispatch", !.mem = ledger', !.job = None]
    /\ owed' = owed \ {op.mem.job[op.job].session}
    /\ UNCHANGED << proc, turned, asks, kills >>

\* The file is read again before the pid is recorded.
Record ==
    /\ op.at = "record"
    /\ ledger' = IF ledger.active = op.job /\ ledger.job[op.job].st = "starting"
                 THEN [ledger EXCEPT !.job[op.job].st = "running", !.job[op.job].owner = op.child]
                 ELSE ledger
    /\ Release
    /\ UNCHANGED << owed, turned, asks, mishaps >>

\* A worker that runs into an error while it finishes records a failure instead;
\* an error while it records a failure ends it.
Failing(p) ==
    [proc EXCEPT ![p] = IF @.error THEN [@ EXCEPT !.at = "ended"]
                                   ELSE [@ EXCEPT !.at = "finish", !.error = TRUE]]

\* The holder of the lock dies, or a write of it fails; the lock is released.
Abort ==
    /\ op.at \in frail
    /\ MishapLeft
    /\ faults' = faults + 1
    /\ op' = Free
    /\ IF op.by = None THEN UNCHANGED proc
       ELSE proc' \in {[proc EXCEPT ![op.by].at = "ended"], Failing(op.by)}
    /\ UNCHANGED << ledger, owed, turned, asks, kills >>

-----------------------------------------------------------------------------
(* A worker process. *)

Started(p) ==
    /\ proc' = [proc EXCEPT ![p].at = "work"]
    /\ owed' = owed \ {ledger.job[proc[p].job].session}

\* run_worker: the job is claimed if the file still calls it active.
BootAnyway(p) ==                    \* mutant: the pid of the worker is not recorded
    /\ op = Free
    /\ proc[p].at = "boot"
    /\ Started(p)
    /\ ledger' = [ledger EXCEPT !.job[proc[p].job].owner = None]
    /\ UNCHANGED << op, turned, asks, mishaps >>

Boot(p) ==
    LET j == proc[p].job
    IN  /\ op = Free
        /\ proc[p].at = "boot"
        /\ \/ /\ ledger.job[j].st \in Active
              /\ ledger' = [ledger EXCEPT !.job[j].st = "running", !.job[j].owner = p]
              /\ Started(p)
           \/ /\ ledger.job[j].st \notin Active
              /\ proc' = [proc EXCEPT ![p].at = "ended"]
              /\ UNCHANGED << ledger, owed >>
        /\ UNCHANGED << op, turned, asks, mishaps >>

\* service.process returns or raises; it takes the Vault lock by itself, and
\* not for as long as the models think.
Work(p) ==
    /\ proc[p].at = "work"
    /\ \E raised \in BOOLEAN : proc' = [proc EXCEPT ![p].at = "finish", ![p].error = raised]
    /\ UNCHANGED << ledger, op, owed, turned, asks, mishaps >>

(* _finish: another run if one was requested meanwhile; else the job is     *)
(* over, and this worker dispatches the next one before it ends.            *)
\* mutant: the flag of the answer is taken for the status of the job
FinishedCompleted(L, j, outcome) ==
    [L EXCEPT !.active = None, !.job[j].st = "completed", !.job[j].owner = None]

Finished(L, j, outcome) ==
    Pruned([L EXCEPT !.active = None, !.job[j].st = outcome, !.job[j].owner = None])

FinishRerun(p) ==
    LET j == proc[p].job
    IN  /\ op = Free
        /\ proc[p].at = "finish"
        /\ ledger.job[j].st # "none"
        /\ ledger.job[j].rerun
        /\ ledger' = [ledger EXCEPT !.job[j].rerun = FALSE, !.job[j].st = "running",
                                    !.job[j].owner = p]
        /\ proc' = [proc EXCEPT ![p].at = "reload"]
        /\ UNCHANGED << op, owed, turned, asks, mishaps >>

\* mutant: the last worker dispatches nothing
FinishQuietly(p) ==
    LET j == proc[p].job
    IN  /\ op = Free
        /\ proc[p].at = "finish"
        /\ ledger.job[j].st # "none"
        /\ ~ledger.job[j].rerun
        /\ ledger' = Finished(ledger, j, IF proc[p].error THEN "failed" ELSE "succeeded")
        /\ proc' = [proc EXCEPT ![p].at = "ended"]
        /\ UNCHANGED << op, owed, turned, asks, mishaps >>

FinishLast(p) ==
    LET j == proc[p].job
    IN  /\ op = Free
        /\ proc[p].at = "finish"
        /\ ledger.job[j].st # "none"
        /\ ~ledger.job[j].rerun
        /\ \E outcome \in IF proc[p].error THEN {"failed"} ELSE {"succeeded", "deferred"} :
             ledger' = Finished(ledger, j, outcome)
        /\ op' = Enter("dispatch", p, ledger', None, None)
        /\ UNCHANGED << proc, owed, turned, asks, mishaps >>

FinishGone(p) ==
    /\ op = Free
    /\ proc[p].at = "finish"
    /\ ledger.job[proc[p].job].st = "none"
    /\ proc' = [proc EXCEPT ![p].at = "ended"]
    /\ UNCHANGED << ledger, op, owed, turned, asks, mishaps >>

\* The first write of _finish fails.
FinishFails(p) ==
    /\ op = Free
    /\ proc[p].at = "finish"
    /\ ledger.job[proc[p].job].st # "none"
    /\ "finish" \in frail
    /\ MishapLeft
    /\ faults' = faults + 1
    /\ proc' = Failing(p)
    /\ UNCHANGED << ledger, op, owed, turned, asks, kills >>

\* The job is read once more before the next run.
Reload(p) ==
    /\ op = Free
    /\ proc[p].at = "reload"
    /\ \/ /\ ledger.job[proc[p].job].st # "none"
          /\ Started(p)
       \/ /\ ledger.job[proc[p].job].st = "none"
          /\ proc' = [proc EXCEPT ![p].at = "ended"]
          /\ UNCHANGED owed
    /\ UNCHANGED << ledger, op, turned, asks, mishaps >>

Holds(p) == op # Free /\ op.by = p

\* A worker dies while it does not hold the lock.
Kill(p) ==
    /\ proc[p].at \in {"boot", "work", "finish", "reload"}
    /\ ~Holds(p)
    /\ MishapLeft
    /\ kills' = kills + 1
    /\ proc' = [proc EXCEPT ![p].at = "ended"]
    /\ UNCHANGED << ledger, op, owed, turned, asks, faults >>

-----------------------------------------------------------------------------
Holder == Refuse \/ Join \/ Append \/ DispatchNothing \/ Dispatch \/ Launch \/ LaunchFails \/ Record

Worker(p) ==
    Boot(p) \/ Work(p) \/ FinishRerun(p) \/ FinishLast(p) \/ FinishGone(p) \/ Reload(p)

Step ==
    \/ \E s \in Sessions, a \in Args : Enqueue(s, a)
    \/ Holder
    \/ Abort
    \/ \E p \in Pids : Worker(p) \/ FinishFails(p) \/ Kill(p)

Next == Step /\ UNCHANGED frail

Spec == Init /\ [][Next]_vars

(* The holder of the lock proceeds, and so does every worker when the lock  *)
(* is free for good; that somebody enqueues is not assumed.                 *)
Fairness == WF_vars(Holder /\ UNCHANGED frail) /\ \A p \in Pids : WF_vars(Worker(p) /\ UNCHANGED frail)

-----------------------------------------------------------------------------
(* Properties. *)

Working == {p \in Pids : proc[p].at = "work"}

\* Whoever holds the lock goes on to the end; only workers die, and launches fail.
HoldersSteady == frail = {}

\* No dispatcher dies or fails between a launch and the record of its pid.
LaunchesRecorded == "record" \notin frail

\* One worker at a time: `active_job_id' serializes the jobs, over deaths of
\* workers and failed launches.
OneAtATime == HoldersSteady => Cardinality(Working) <= 1

\* "a new visible turn is not processed concurrently" (docs/general-processing.md,
\* "Background processing"): no two workers process the same session.
SessionAlone ==
    LaunchesRecorded =>
        \A p, q \in Working :
            p # q => ledger.job[proc[p].job].session # ledger.job[proc[q].job].session

\* No job is stranded: until a request is turned away, when the lock is free a
\* job waits only if another one is active and somebody is on record for it,
\* dead or alive (a dead owner is found by the next enqueue).
NoStall ==
    HoldersSteady /\ ~turned /\ op = Free /\ Pending(ledger) # {} =>
        ledger.active # None /\ ledger.job[ledger.active].owner # None

\* An accepted request is never forgotten: until a worker takes it up, the file
\* has a job of the session that waits, starts, is to run again, or whose
\* worker is about to run it or dead.
NothingForgotten ==
    LaunchesRecorded =>
        \A s \in owed : \E j \in Jobs :
            /\ ledger.job[j].session = s
            /\ \/ ledger.job[j].st \in {"pending", "starting"}
               \/ /\ ledger.job[j].st = "running"
                  /\ \/ ledger.job[j].rerun
                     \/ ~Alive(ledger.job[j].owner)
                     \/ \E p \in Pids : proc[p].job = j /\ proc[p].at \in {"boot", "reload"}

\* Every accepted job comes to its end, as long as no worker and no holder of
\* the lock dies.
QueueDrains ==
    \A j \in Jobs :
        HoldersSteady /\ ledger.job[j].st = "pending"
            ~> ledger.job[j].st \in Terminal \cup {"none"} \/ kills > 0
=============================================================================
