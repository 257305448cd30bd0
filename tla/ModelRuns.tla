------------------------------- MODULE ModelRuns -------------------------------
(***************************************************************************)
(* The incremental model runs of memleaf: incremental_execution.py with    *)
(* the receipts of incremental_run_state.py, the request budget of         *)
(* extraction_work_state.py, the two explicit recoveries, the maintenance  *)
(* call of lifecycle_maintenance.py, and the commit as they see it.        *)
(*                                                                         *)
(* A run asks a language model what to remember of one conversation turn   *)
(* and commits the answer.  Asking costs money, so a run has Limit         *)
(* requests for ever, whatever crashes.  The Vault lock is held for single *)
(* read-modify-write sections only, never across a request: each action is *)
(* one such section.  What keeps two requests apart is a token in the      *)
(* ledger file, the owner.                                                 *)
(*                                                                         *)
(* Two files, written one after the other: the ledger (run, owner, commit) *)
(* and the budget.                                                         *)
(***************************************************************************)
EXTENDS Naturals, Sequences, FiniteSets, SequencesExt

CONSTANTS
    Runs,       \* one per turn and set of source revisions
    Callers,    \* concurrent invocations
    Procs,      \* operating system processes
    HostOf,     \* the process each invocation runs in
    Limit,      \* MAX_INCREMENTAL_REQUESTS, 5 in the code
    MaxFaults,  \* bound on failed writes and unreadable files
    MaxKills,   \* bound on processes killed
    MaxLapses,  \* bound on restores of an older budget file
    Nobody      \* no owner

ASSUME LimitAssumption == Limit \in Nat \ {0}
ASSUME HostsAssumption == HostOf \in [Callers -> Procs]
ASSUME NobodyAssumption == Nobody \notin Callers \cup Procs /\ Callers \cap Procs = {}
ASSUME BoundsAssumption == MaxFaults \in Nat /\ MaxKills \in Nat /\ MaxLapses \in Nat

VARIABLES
    run,        \* incremental_runs of the ledger
    owner,      \* incremental_run_owner of the ledger
    commit,     \* the commit receipts of each run, one per round
    budget,     \* the row of each run in the budget file
    moved,      \* the sources or the memories are not those the run was planned with
    call,       \* where each invocation is
    asked,      \* requests sent for each run by its runner
    tended,     \* requests sent for each run by the maintenance after it
    faults, kills, lapses

vars == << run, owner, commit, budget, moved, call, asked, tended,
           faults, kills, lapses >>

Terminal == {"completed", "unresolved", "blocked", "failed", "cancelled"}
Statuses == Terminal \cup {"absent", "ready", "dispatching", "response_ready",
                           "committing", "retryable"}
Rounds   == 1..2            \* the first plan, and one explicit partial recovery
Answers  == {"good", "fishy", "junk"}   \* compiles; compiles but needs review; does not
Ends     == {"whole", "partial"}        \* every operation settled, or not every one
Outcomes == {"unknown", "response", "invalid", "transient", "unclear", "denied"}

NoRun == [st |-> "absent", stage |-> "none", kind |-> "none", att |-> << >>,
          reserved |-> 0, round |-> 1, mode |-> "none", rescued |-> FALSE,
          finalized |-> FALSE]

RunType ==
    [st: Statuses, stage: {"none", "review", "reviewed"}, kind: Answers \cup {"none"},
     att: BoundedSeq([n: 1..Limit, out: Outcomes], Limit), reserved: 0..Limit,
     round: Rounds, mode: {"none", "repair", "replan"}, rescued: BOOLEAN,
     finalized: BOOLEAN]

Idle == [at |-> "idle"]

Places == {"start", "look", "check", "lost", "reserve", "attach", "send", "call",
           "commit", "refused", "settle", "release", "final", "seal", "tend",
           "tending"}

CallType ==
    {Idle} \cup
    [at: Places, run: Runs, model: BOOLEAN, n: 0..Limit, got: Ends \cup {"none"},
     done: BOOLEAN]

\* The shape of a record, without enumerating the sequences it may hold.
IsRun(k) == /\ [k EXCEPT !.att = << >>] \in RunType
            /\ Len(k.att) <= Limit
            /\ \A j \in DOMAIN k.att : k.att[j] \in [n: 1..Limit, out: Outcomes]

TypeOK ==
    /\ DOMAIN run = Runs /\ \A r \in Runs : IsRun(run[r])
    /\ owner \in Callers \cup Procs \cup {Nobody}
    /\ commit \in [Runs -> [Rounds -> Ends \cup {"none", "open", "cut"}]]
    /\ budget \in [Runs -> [n: 0..Limit, done: BOOLEAN, maint: BOOLEAN]]
    /\ moved \in [Runs -> BOOLEAN]
    /\ call \in [Callers -> CallType]
    /\ asked \in [Runs -> Nat] /\ tended \in [Runs -> Nat]
    /\ faults \in 0..MaxFaults /\ kills \in 0..MaxKills /\ lapses \in 0..MaxLapses

Init ==
    /\ run = [r \in Runs |-> NoRun]
    /\ owner = Nobody
    /\ commit = [r \in Runs |-> [k \in Rounds |-> "none"]]
    /\ budget = [r \in Runs |-> [n |-> 0, done |-> FALSE, maint |-> FALSE]]
    /\ moved = [r \in Runs |-> FALSE]
    /\ call = [d \in Callers |-> Idle]
    /\ asked = [r \in Runs |-> 0]
    /\ tended = asked
    /\ faults = 0 /\ kills = 0 /\ lapses = 0

-----------------------------------------------------------------------------
(* The owner.  The file holds a token: that of an invocation still running, *)
(* or (a process) one that its invocation could not take back.  When the    *)
(* process is gone the token binds nobody; process ids are not reused here. *)

\* mutant: an owner of another process is taken to be gone
LiveHere(d) == owner \in {c \in Callers : HostOf[c] = HostOf[d]}

Live(d) == owner \in Callers \cup (Procs \ {HostOf[d]})

Here(d)    == run[call[d].run]
Written(d) == commit[call[d].run][Here(d).round]
Mine(d)    == owner = d /\ Here(d).st \notin Terminal

To(d, place)   == [call EXCEPT ![d].at = place]
Return(d)      == To(d, "release")
Enter(r, m, p) == [at |-> p, run |-> r, model |-> m, n |-> 0, got |-> "none", done |-> FALSE]

Attempts(k) == Len(k.att)
Outcome(k, out) == [k EXCEPT !.att[Attempts(k)].out = out]

\* _finish: a terminal receipt keeps neither request nor response.
Finished(k, st) == [k EXCEPT !.st = st, !.kind = IF st \in Terminal THEN "none" ELSE @]

(* save_run: the ledger is replaced as a whole, or stays what it was and    *)
(* the caller gets an OSError.                                              *)
Fails == faults < MaxFaults /\ faults' = faults + 1

Save(d, k, good, bad) ==
    \/ run' = [run EXCEPT ![call[d].run] = k] /\ call' = good /\ UNCHANGED faults
    \/ Fails /\ call' = bad /\ UNCHANGED run

Elsewhere == UNCHANGED << moved, kills, lapses >>
Uncalled  == UNCHANGED << asked, tended >>
Unbudgeted == UNCHANGED << commit, budget >>

-----------------------------------------------------------------------------
(* An invocation begins. *)

\* run_incremental of a new turn: a receipt with its frozen request.
Prepare(d, r, m) ==
    /\ call[d] = Idle
    /\ run[r].st = "absent"
    /\ ~Live(d)
    /\ \/ /\ run' = [run EXCEPT ![r].st = "ready"]
          /\ call' = [call EXCEPT ![d] = Enter(r, m, "start")]
          /\ UNCHANGED faults
       \/ Fails /\ UNCHANGED << run, call >>
    /\ UNCHANGED owner /\ Unbudgeted /\ Uncalled /\ Elsewhere

\* resume_incremental_run, process_incremental of a turn with a receipt.
Resume(d, r, m) ==
    /\ call[d] = Idle
    /\ run[r].st # "absent"
    /\ call' = [call EXCEPT ![d] = Enter(r, m, "start")]
    /\ UNCHANGED << run, owner, faults >> /\ Unbudgeted /\ Uncalled /\ Elsewhere

\* Take the owner's token; a terminal run is only reported.
Start(d) ==
    /\ call[d].at = "start"
    /\ \/ /\ Here(d).st \in Terminal
          /\ call' = IF Here(d).st = "completed" THEN To(d, "final") ELSE [call EXCEPT ![d] = Idle]
          /\ UNCHANGED << owner, faults >>
       \/ /\ Here(d).st \notin Terminal
          /\ Live(d)                              \* incremental_model_busy
          /\ call' = [call EXCEPT ![d] = Idle]
          /\ UNCHANGED << owner, faults >>
       \/ /\ Here(d).st \notin Terminal
          /\ ~Live(d)
          /\ \/ owner' = d /\ call' = To(d, "look") /\ UNCHANGED faults
             \/ Fails /\ call' = [call EXCEPT ![d] = Idle] /\ UNCHANGED owner
    /\ UNCHANGED run /\ Unbudgeted /\ Uncalled /\ Elsewhere

-----------------------------------------------------------------------------
(* _drive: what is on file decides what comes next.                         *)

AnsweredUnlessCommitting(k) == k.st = "response_ready"  \* mutant: asks again after a crash

Answered(k) == k.st \in {"response_ready", "committing"}

\* The run was revoked, or another has taken over: stop.
Revoked(d) ==
    /\ call[d].at \in {"look", "lost", "attach", "call", "refused", "settle"}
    /\ ~Mine(d)
    /\ call' = Return(d)
    /\ UNCHANGED << run, owner, faults >> /\ Unbudgeted /\ Uncalled /\ Elsewhere

Looks(d) == call[d].at = "look" /\ Mine(d)

LookCommit(d) ==
    /\ Looks(d)
    /\ Written(d) # "none"
    /\ call' = To(d, "commit")
    /\ UNCHANGED << run, owner, faults >> /\ Unbudgeted /\ Uncalled /\ Elsewhere

LookMoved(d) ==
    /\ Looks(d)
    /\ Written(d) = "none"
    /\ moved[call[d].run]
    /\ Save(d, Finished(Here(d), "blocked"), Return(d), Return(d))
    /\ UNCHANGED owner /\ Unbudgeted /\ Uncalled /\ Elsewhere

Planned(d) == Looks(d) /\ Written(d) = "none" /\ ~moved[call[d].run]

NeedsReview(k) == k.kind = "fishy" /\ k.stage # "reviewed"

\* The answer on file is compiled: commit it, have it reviewed, or drop it.
LookAnswer(d) ==
    LET k == Here(d)
    IN  /\ Planned(d)
        /\ Answered(k)
        /\ CASE k.kind = "junk" /\ k.round = 2 ->
                    Save(d, Finished(k, "failed"), Return(d), Return(d))
             [] k.kind = "junk" /\ k.round = 1 ->
                    Save(d, [Outcome(k, "invalid") EXCEPT !.st = "retryable", !.kind = "none"],
                         To(d, "look"), Return(d))
             [] NeedsReview(k) ->
                    \/ /\ k.reserved < Limit
                       /\ Save(d, [k EXCEPT !.st = "ready", !.stage = "review", !.kind = "none"],
                               To(d, "look"), Return(d))
                    \/ Save(d, Finished(k, "blocked"), Return(d), Return(d))
             [] OTHER ->
                    Save(d, [k EXCEPT !.st = "committing"], To(d, "commit"), Return(d))
        /\ UNCHANGED owner /\ Unbudgeted /\ Uncalled /\ Elsewhere

LookAsk(d) ==
    /\ Planned(d)
    /\ ~Answered(Here(d))
    /\ IF call[d].model
       THEN call' = To(d, "check") /\ UNCHANGED << run, faults >>
       ELSE Save(d, Finished(Here(d), "retryable"), Return(d), Return(d))
    /\ UNCHANGED owner /\ Unbudgeted /\ Uncalled /\ Elsewhere

-----------------------------------------------------------------------------
(* A request: check, reserve, attach, send.                                 *)

\* A budget file that forgot requests the receipt knows of is not believed.
Check(d) ==
    /\ call[d].at = "check"
    /\ call' = To(d, IF budget[call[d].run].n < Here(d).reserved THEN "lost" ELSE "reserve")
    /\ UNCHANGED << run, owner, faults >> /\ Unbudgeted /\ Uncalled /\ Elsewhere

Lost(d) ==
    /\ call[d].at = "lost"
    /\ Mine(d)
    /\ Save(d, Finished(Here(d), "blocked"), Return(d), Return(d))
    /\ UNCHANGED owner /\ Unbudgeted /\ Uncalled /\ Elsewhere

SpentOffByOne(b) == b.done \/ b.n > Limit       \* mutant: one request too many

Spent(b) == b.done \/ b.n >= Limit

\* reserve_model_request: the ordinal of the request, 0 for None.
Reserve(d) ==
    LET b == budget[call[d].run]
    IN  /\ call[d].at = "reserve"
        /\ \/ /\ Spent(b)
              /\ call' = [call EXCEPT ![d].at = "attach", ![d].n = 0]
              /\ UNCHANGED << budget, faults >>
           \/ /\ ~Spent(b)
              /\ budget' = [budget EXCEPT ![call[d].run].n = @ + 1]
              /\ call' = [call EXCEPT ![d].at = "attach", ![d].n = b.n + 1]
              /\ UNCHANGED faults
           \/ /\ Fails
              /\ \E p \in {"release", "lost"} : call' = To(d, p)  \* unwritable, unreadable
              /\ UNCHANGED budget
        /\ UNCHANGED << run, owner, commit >> /\ Uncalled /\ Elsewhere

LaterOrNot(k, n) == TRUE            \* mutant: any ordinal is accepted

\* load_run, which save_run calls: ordinals only ascend.
Later(k, n) == k.att = << >> \/ n > Last(k.att).n

Attached(d) ==
    [Here(d) EXCEPT !.att = Append(@, [n |-> call[d].n, out |-> "unknown"]),
                    !.reserved = budget[call[d].run].n]

\* mutant: a spent budget is taken for a passing trouble
ExhaustedRetries(d) == call' = To(d, "look") /\ UNCHANGED << run, faults >>

\* request_budget_exhausted
Exhausted(d) ==
    Save(d, [Finished(Here(d), "failed") EXCEPT !.reserved = budget[call[d].run].n],
         Return(d), Return(d))

\* The reservation is entered in the receipt before anything is sent.
Attach(d) ==
    /\ call[d].at = "attach"
    /\ Mine(d)
    /\ CASE call[d].n = 0 -> Exhausted(d)
         [] call[d].n > 0 /\ ~Later(Here(d), call[d].n) ->
                call' = Return(d) /\ UNCHANGED << run, faults >>
         [] OTHER ->
                IF moved[call[d].run]
                THEN Save(d, Finished(Attached(d), "blocked"), Return(d), Return(d))
                ELSE Save(d, [Attached(d) EXCEPT !.st = "dispatching"], To(d, "send"), Return(d))
    /\ UNCHANGED owner /\ Unbudgeted /\ Uncalled /\ Elsewhere

Send(d) ==
    /\ call[d].at = "send"
    /\ asked' = [asked EXCEPT ![call[d].run] = @ + 1]
    /\ call' = To(d, "call")
    /\ UNCHANGED << run, owner, faults, tended >> /\ Unbudgeted /\ Elsewhere

-----------------------------------------------------------------------------
(* The answer, or the error, is entered in the receipt.  A revoked run      *)
(* takes none (Revoked).                                                    *)

Replied(d) == call[d].at = "call" /\ Mine(d)

AnswerError(d) ==
    /\ Replied(d)
    /\ \E e \in {"transient", "unclear", "denied"} :
          Save(d, Finished(Outcome(Here(d), e),
                           IF e = "transient" /\ Here(d).reserved < Limit THEN "retryable"
                                                                         ELSE "failed"),
               Return(d), Return(d))
    /\ UNCHANGED owner /\ Unbudgeted /\ Uncalled /\ Elsewhere

\* Empty or too large: the same invocation asks again.
AnswerUnusable(d) ==
    LET k == Outcome(Here(d), "invalid")
    IN  /\ Replied(d)
        /\ IF k.round = 2 THEN Save(d, Finished(k, "failed"), Return(d), Return(d))
                          ELSE Save(d, Finished(k, "retryable"), To(d, "look"), Return(d))
        /\ UNCHANGED owner /\ Unbudgeted /\ Uncalled /\ Elsewhere

\* mutant: a returning callback writes its answer back
AnswerAnyway(d) ==
    /\ call[d].at = "call"
    /\ \E a \in Answers :
          Save(d, [Outcome(Here(d), "response") EXCEPT !.st = "response_ready", !.kind = a],
               To(d, "look"), Return(d))
    /\ UNCHANGED owner /\ Unbudgeted /\ Uncalled /\ Elsewhere

\* The first answer, or one to the request of a run already reviewed.
Answer(d) ==
    /\ Replied(d)
    /\ Here(d).stage # "review"
    /\ \E a \in Answers :
          Save(d, [Outcome(Here(d), "response") EXCEPT !.st = "response_ready", !.kind = a],
               To(d, "look"), Return(d))
    /\ UNCHANGED owner /\ Unbudgeted /\ Uncalled /\ Elsewhere

\* apply_review: the review amends the draft; the result is not reviewed again.
AnswerReview(d) ==
    LET k == Here(d)
    IN  /\ Replied(d)
        /\ k.stage = "review"
        /\ \/ \E a \in {"good", "junk"} :
                 Save(d, [Outcome(k, "response") EXCEPT
                              !.st = "response_ready", !.stage = "reviewed", !.kind = a],
                      To(d, "look"), Return(d))
           \/ Save(d, Finished(Outcome(k, "invalid"), "failed"), Return(d), Return(d))
        /\ UNCHANGED owner /\ Unbudgeted /\ Uncalled /\ Elsewhere

-----------------------------------------------------------------------------
(* The commit (apply_incremental, resume_incremental): its receipt is saved *)
(* first, then the operations are written; an error in between leaves it    *)
(* open.  Its own writes move the memories the run was planned with.        *)

EndsOf(c) == IF c = "open" THEN Ends ELSE {"partial"}

Receipt(r, c) == [commit EXCEPT ![r][run[r].round] = c]

\* mutant: an interrupted commit counts as done
CommitOptimist(d) ==
    LET r == call[d].run
    IN  /\ call[d].at = "commit"
        /\ \E c \in {"open"} \cup Ends : commit' = Receipt(r, c)
        /\ call' = [call EXCEPT ![d].at = "settle", ![d].got = "whole"]
        /\ UNCHANGED << run, owner, budget, faults >> /\ Uncalled /\ Elsewhere

\* The run was revoked, or its plan is stale.
Stale(d) == ~Mine(d) \/ (Written(d) = "none" /\ moved[call[d].run])

Commit(d) ==
    LET r == call[d].run
    IN  /\ call[d].at = "commit"
        /\ \/ /\ call' = To(d, "refused")     \* Stale(d), or a submission of the host (see
                                              \* HostWork) awaits recovery
              /\ UNCHANGED << commit, moved, faults >>
           \/ /\ ~Stale(d)
              /\ Written(d) \in Ends
              /\ call' = [call EXCEPT ![d].at = "settle", ![d].got = Written(d)]
              /\ UNCHANGED << commit, moved, faults >>
           \/ /\ ~Stale(d)
              /\ Written(d) \in {"none", "open", "cut"}
              /\ \E e \in EndsOf(IF Written(d) = "none" THEN "open" ELSE Written(d)) :
                    /\ commit' = Receipt(r, e)
                    /\ call' = [call EXCEPT ![d].at = "settle", ![d].got = e]
              /\ moved' = [moved EXCEPT ![r] = TRUE]
              /\ UNCHANGED faults
           \/ /\ ~Stale(d)
              /\ Fails
              /\ commit' \in {commit} \cup
                    (IF Written(d) = "none" THEN {Receipt(r, "open")} ELSE {})
              /\ moved' = [moved EXCEPT ![r] = commit[r] # commit'[r] \/ @]
              /\ call' = Return(d)
        /\ UNCHANGED << run, owner, budget, kills, lapses >> /\ Uncalled

\* commit_precondition_changed
Refused(d) ==
    /\ call[d].at = "refused"
    /\ Mine(d)
    /\ Save(d, Finished(Here(d), "blocked"), Return(d), Return(d))
    /\ UNCHANGED owner /\ Unbudgeted /\ Uncalled /\ Elsewhere

\* The status of the commit becomes that of the run.
Settle(d) ==
    /\ call[d].at = "settle"
    /\ Mine(d)
    /\ Save(d, Finished(Here(d), IF call[d].got = "whole" THEN "completed" ELSE "unresolved"),
            [Return(d) EXCEPT ![d].done = call[d].got = "whole"], Return(d))
    /\ UNCHANGED owner /\ Unbudgeted /\ Uncalled /\ Elsewhere

-----------------------------------------------------------------------------
(* The end of an invocation.                                                *)

After(d) == IF call[d].done THEN To(d, "final") ELSE [call EXCEPT ![d] = Idle]

\* Give the token back.  If that cannot be written, the file keeps it, and
\* other processes have to respect it as long as this one lives.
Release(d) ==
    /\ call[d].at = "release"
    /\ \/ /\ owner = d
          /\ owner' = Nobody
          /\ call' = After(d)
          /\ UNCHANGED faults
       \/ /\ owner = d
          /\ Fails
          /\ owner' = HostOf[d]
          /\ call' = [call EXCEPT ![d] = Idle]
       \/ /\ owner # d
          /\ call' = After(d)
          /\ UNCHANGED << owner, faults >>
    /\ UNCHANGED run /\ Unbudgeted /\ Uncalled /\ Elsewhere

\* complete_turn_budget; a failure is not reported.
Final(d) ==
    /\ call[d].at = "final"
    /\ \/ /\ budget[call[d].run].n > 0
          /\ budget' = [budget EXCEPT ![call[d].run].done = TRUE]
          /\ call' = To(d, "seal")
          /\ UNCHANGED faults
       \/ /\ budget[call[d].run].n = 0
          /\ call' = [call EXCEPT ![d] = Idle]
          /\ UNCHANGED << budget, faults >>
       \/ /\ Fails
          /\ call' = [call EXCEPT ![d] = Idle]
          /\ UNCHANGED budget
    /\ UNCHANGED << run, owner, commit >> /\ Uncalled /\ Elsewhere

Seal(d) ==
    /\ call[d].at = "seal"
    /\ IF Here(d).st = "completed"
       THEN Save(d, [Here(d) EXCEPT !.finalized = TRUE],
                 [call EXCEPT ![d] = Idle], [call EXCEPT ![d] = Idle])
       ELSE call' = [call EXCEPT ![d] = Idle] /\ UNCHANGED << run, faults >>
    /\ UNCHANGED owner /\ Unbudgeted /\ Uncalled /\ Elsewhere

-----------------------------------------------------------------------------
(* The two explicit recoveries.  Each arms the same run once more, once,    *)
(* plans it anew, and resumes it.                                           *)

Free(d, r) == call[d] = Idle /\ run[r].st # "absent" /\ ~Live(d)

Replanned(r) == moved' = [moved EXCEPT ![r] = FALSE]

\* Save of a run no invocation drives yet; it is then resumed.
Arm(d, r, m, k) ==
    /\ \/ run' = [run EXCEPT ![r] = k] /\ Replanned(r) /\ UNCHANGED faults
          /\ call' = [call EXCEPT ![d] = Enter(r, m, "start")]
       \/ Fails /\ UNCHANGED << run, moved, call >>
    /\ UNCHANGED << owner, kills, lapses >> /\ Unbudgeted /\ Uncalled

RescuedAgain(k) == [k EXCEPT !.st = "ready"]    \* mutant: the audit is not kept

Rescued(k) == [k EXCEPT !.st = "ready", !.rescued = TRUE]

\* recover_failed_run: only a first request known to have failed in transport.
RecoverFailed(d, r, m) ==
    LET k == run[r]
    IN  /\ Free(d, r)
        /\ k.st = "failed" /\ ~k.rescued /\ k.round = 1
        /\ Attempts(k) = 1 /\ k.reserved = 1
        /\ k.att[1].n = 1 /\ k.att[1].out \in {"transient", "unclear"}
        /\ commit[r][1] = "none"
        /\ budget[r].n = 1 /\ ~Spent(budget[r])
        /\ Arm(d, r, m, Rescued(k))

Partial(d, r) ==
    /\ Free(d, r)
    /\ run[r].st = "unresolved" /\ run[r].round = 1
    /\ commit[r][1] = "partial"

\* recover_incremental_partial, mode repair: rows on file are mended locally.
Repair(d, r) ==
    /\ Partial(d, r)
    /\ Arm(d, r, FALSE, [run[r] EXCEPT !.st = "response_ready", !.kind = "good",
                                       !.round = 2, !.mode = "repair"])

\* Mode replan: the rest is asked for, with what the budget still has.
Replan(d, r) ==
    /\ Partial(d, r)
    /\ run[r].reserved <= budget[r].n
    /\ budget[r].n < Limit
    /\ Arm(d, r, TRUE, [run[r] EXCEPT !.st = "ready", !.stage = "none",
                                      !.round = 2, !.mode = "replan"])

-----------------------------------------------------------------------------
(* maintain_lifecycle: one further request may use what a completed run has *)
(* left; it takes the same owner.  Its answer changes other memories only.  *)

Tended(b) == [b EXCEPT !.n = @ + 1, !.maint = TRUE]

Tend(d, r) ==
    LET b == budget[r]
    IN  /\ Free(d, r)
        /\ run[r].st = "completed" /\ run[r].finalized
        /\ b.done /\ ~b.maint /\ run[r].reserved <= b.n /\ b.n < Limit
        /\ \/ /\ budget' = [budget EXCEPT ![r] = Tended(b)]
              /\ owner' = d
              /\ call' = [call EXCEPT ![d] = Enter(r, TRUE, "tend")]
              /\ UNCHANGED faults
           \/ /\ Fails
              /\ budget' \in {budget, [budget EXCEPT ![r] = Tended(b)]}
              /\ UNCHANGED << owner, call >>
        /\ UNCHANGED << run, commit >> /\ Uncalled /\ Elsewhere

TendSend(d) ==
    /\ call[d].at = "tend"
    /\ tended' = [tended EXCEPT ![call[d].run] = @ + 1]
    /\ call' = To(d, "tending")
    /\ UNCHANGED << run, owner, faults, asked >> /\ Unbudgeted /\ Elsewhere

TendReturn(d) ==
    /\ call[d].at = "tending"
    /\ call' = Return(d)
    /\ UNCHANGED << run, owner, faults >> /\ Unbudgeted /\ Uncalled /\ Elsewhere

-----------------------------------------------------------------------------
(* What others do under the same lock, or without any.                      *)

Cancelled(k) == [Finished(k, "cancelled") EXCEPT !.kind = "none"]

OwnerAfterForget(r) == owner

\* cancel_forgotten_unlocked of a memory, or a source, this run has to do with:
\* first the commit receipts, then the run; the owner stays until it returns.
CutOf(c) == IF c = "open" THEN {"cut"} ELSE IF c = "whole" THEN {"whole", "partial"} ELSE {c}

Cuts(r) ==
    {c \in [Rounds -> Ends \cup {"none", "open", "cut"}] :
        \A k \in Rounds : c[k] \in CutOf(commit[r][k])}

Forget(r) ==
    /\ run[r].st # "absent"
    /\ \E c \in Cuts(r) : commit' = [commit EXCEPT ![r] = c]
    /\ \/ /\ run' = [run EXCEPT ![r] = Cancelled(@)]
          /\ owner' = OwnerAfterForget(r)
          /\ UNCHANGED faults
       \/ Fails /\ UNCHANGED << run, owner >>
    /\ UNCHANGED << budget, call >> /\ Uncalled /\ Elsewhere

\* resume_incremental by work id: settles an open commit without its run.
SettleWork(r, k) ==
    /\ commit[r][k] \in {"open", "cut"}
    /\ \E e \in EndsOf(commit[r][k]) : commit' = [commit EXCEPT ![r][k] = e]
    /\ moved' = [moved EXCEPT ![r] = TRUE]
    /\ UNCHANGED << run, owner, budget, call, faults, kills, lapses >> /\ Uncalled

\* A source, a memory, the scopes or the prompts change.
Move(r) ==
    /\ ~moved[r]
    /\ run[r].st \notin Terminal \cup {"absent"}
    /\ moved' = [moved EXCEPT ![r] = TRUE]
    /\ UNCHANGED << run, owner, commit, budget, call, faults, kills, lapses >>
    /\ Uncalled

\* The budget file comes back from an older copy.
Restore(r) ==
    /\ lapses < MaxLapses
    /\ lapses' = lapses + 1
    /\ \E n \in 0..Limit, done, maint \in BOOLEAN :
          /\ n < budget[r].n /\ (done => budget[r].done) /\ (maint => done /\ budget[r].maint)
          /\ budget' = [budget EXCEPT ![r] = [n |-> n, done |-> done, maint |-> maint]]
    /\ UNCHANGED << run, owner, commit, call, faults, kills, moved >> /\ Uncalled

Kill(p) ==
    /\ kills < MaxKills
    /\ kills' = kills + 1
    /\ call' = [d \in Callers |-> IF HostOf[d] = p THEN Idle ELSE call[d]]
    /\ owner' = IF owner = p \/ (owner \in Callers /\ HostOf[owner] = p) THEN Nobody ELSE owner
    /\ UNCHANGED << run, commit, budget, moved, faults, lapses >> /\ Uncalled

-----------------------------------------------------------------------------
Drive(d) ==
    \/ Start(d) \/ Revoked(d) \/ LookCommit(d) \/ LookMoved(d) \/ LookAnswer(d) \/ LookAsk(d)
    \/ Check(d) \/ Lost(d) \/ Reserve(d) \/ Attach(d) \/ Send(d)
    \/ AnswerError(d) \/ AnswerUnusable(d) \/ Answer(d) \/ AnswerReview(d)
    \/ Commit(d) \/ Refused(d) \/ Settle(d) \/ Release(d) \/ Final(d) \/ Seal(d)
    \/ TendSend(d) \/ TendReturn(d)

Invoke(d, r) ==
    \/ \E m \in BOOLEAN : Prepare(d, r, m) \/ Resume(d, r, m) \/ RecoverFailed(d, r, m)
    \/ Repair(d, r) \/ Replan(d, r) \/ Tend(d, r)

Next ==
    \/ \E d \in Callers : Drive(d)
    \/ \E d \in Callers, r \in Runs : Invoke(d, r)
    \/ \E r \in Runs : Forget(r) \/ Move(r) \/ Restore(r)
    \/ \E r \in Runs, k \in Rounds : SettleWork(r, k)
    \/ \E p \in Procs : Kill(p)

Spec == Init /\ [][Next]_vars

(* An invocation is a running function, a request is answered or times out. *)
(* Nobody is assumed to resume, forget or repair anything.                  *)
FairSpec == Spec /\ \A d \in Callers : WF_vars(Drive(d))

-----------------------------------------------------------------------------
(* Properties. *)

\* The Vault never has two model requests out at once, of whatever run,
\* process or purpose (the owner; docs/incremental-execution.md, "Concurrency").
OneCallAtATime == Cardinality({d \in Callers : call[d].at \in {"call", "tending"}}) <= 1

\* An answer paid for is used before another is asked for, across crashes and
\* failed commits ("a saved response is consumed before any new request").
NoAnswerThrownAway ==
    \A d \in Callers :
        call[d].at \in {"send", "call"} /\ Here(d).st # "cancelled" =>
            Here(d).kind = "none" /\ Written(d) = "none"

\* The allowance of a run is never exceeded: by the runner even when the
\* budget file was lost or restored, by runner and maintenance together when
\* it was not.
CallsWithinBudget ==
    \A r \in Runs :
        /\ asked[r] <= Attempts(run[r]) /\ asked[r] <= Limit
        /\ lapses = 0 => asked[r] + tended[r] <= budget[r].n

\* A run says completed, or completed with unresolved parts, when its commit
\* is, every operation settled; sealed only when the budget is closed too.
\* (Forget may have cut the commit since.)
CompletedIsCommitted ==
    \A r \in Runs :
        LET c == commit[r][run[r].round]
        IN  /\ run[r].st \in {"completed", "unresolved"} => c \in Ends
            /\ run[r].finalized /\ lapses = 0 => budget[r].done

\* What was forgotten stays forgotten: no request is attached to a cancelled
\* run, no answer kept and no commit begun for it, whoever returns late.
ForgottenStaysCancelled ==
    [][\A r \in Runs :
         run[r].st = "cancelled" =>
            /\ run'[r].st = "cancelled" /\ run'[r].kind = "none" /\ run'[r].att = run[r].att
            /\ \A k \in Rounds : commit[r][k] = "none" => commit'[r][k] = "none"]_vars

\* An outcome stands: a terminal run changes by Forget, by the one recovery of
\* a failed first request, by the one round for unresolved parts, or in being
\* sealed.
OutcomesStand ==
    [][\A r \in Runs :
         run[r].st \in Terminal /\ run'[r].st # run[r].st =>
            \/ run'[r].st = "cancelled"
            \/ run[r].st = "failed" /\ ~run[r].rescued /\ run'[r].rescued
            \/ run[r].st = "unresolved" /\ run[r].round = 1 /\ run'[r].round = 2]_vars

\* Every invocation comes back, however often the model answers badly.
InvocationsReturn == \A d \in Callers : call[d] # Idle ~> call[d] = Idle

\* "A missing or malformed review never commits the draft"
\* (incremental_semantics.py): no answer that needs a review is committed.
ReviewedBeforeCommit == \A r \in Runs : run[r].st = "committing" => run[r].kind # "fishy"
=============================================================================
