# Verification of memleaf

memleaf keeps an agent's long-term memory as Markdown files in a directory, the Vault. Agents, hook
scripts and background workers of several processes read and change it under one advisory file lock;
people edit the same files with editors that do not take the lock. A language model decides what to
remember, and its requests cost money. What has to be right, then, is bookkeeping: nothing a person
wrote is lost, nothing is written that no receipt knows of, no request is paid for twice, an answer
is one the files justify, and all of this over crashes, failed writes, late answers and edits at any
moment.

Paths below are relative to `src/src/memleaf/`; `docs/` is `src/docs/`. PROJECT.json lists the
components, the runs, the hazards at their lines, and for every definition the lines it models.

## The system and the modules

| Component | State it keeps | Module |
|---|---|---|
| Host ledger (`host_v2.py`, `memory_writer.py`, `locking.py`) | `_state/host_v2`: works, their items, frozen groups, charges, answers by request id; heads and history | `HostWork`, abstractly `WorkPromise` |
| Host proposals (`host_v2_proposal.py`, `host_v2_schema.py`) | the snapshot of a work, pages read, items | `HostProposal` |
| Host authority (`host_v2_auth.py`, `host_v2_owner.py`) | grants with epochs, single-use approvals, children of recoveries | `HostAuthority` |
| Process jobs (`process_jobs.py`) | `_state/process_jobs.json`: queue, active job, owner pid | `ProcessJobs` |
| Incremental runs (`incremental_execution.py`, `incremental_run_state.py`, `incremental_*recovery.py`, `lifecycle_maintenance.py`) | a receipt per run, one owner for the Vault, a budget row per turn | `ModelRuns` |
| Protocol of answers (`incremental_protocol.py`, `incremental_semantics.py`, `incremental_recovery.py`) | the plan of a turn, its rows and issues | `TurnDraft` |
| Single calls of a model (`llm/`) | usage per thread, thinking controls | `ModelCalls` |
| Routes and configuration (`model_discovery.py`, `llm/router.py`, `config.py`, `scope_state.py`) | `config.yaml`: route, scopes | `ModelRoute` |
| Incremental commit (`incremental_commit.py`, `incremental_journal.py`) | a receipt per work with frozen operations | `IncrementalCommit` |
| Explicit mutations (`memory_update.py`, `memory_retraction.py`) | a journal per memory | `ExplicitMutations` |
| Compaction (`compaction.py`) | journal with phases, staging directory | `Compaction` |
| Mutations together (`service.py`, `memory_commit.py`) | the boundary before every mutation, Forget | `VaultMutations`, on `VaultFiles` |
| Request ledger (`runtime_retention.py`, `extraction_work_state.py`) | budgets and receipts, sealed and retired | `RequestLedger` |
| Capture and Inbox (`capture.py`, `inbox.py`, `process_journal.py`) | sessions, receipts of events, processed turns | `Capture` |
| Requests to remember (`host_retention.py`, `incremental_selection.py`, `processing_route.py`) | intents, links of sessions | `Retention` |
| Retrieval gate and hooks (`retrieval_gate.py`, `host_runtime.py`, `host_events.py`) | a ledger of turns with a lifetime, the flag of what is left to process | `RetrievalGate` |
| Reading (`mcp_server.py`, `retrieval_gate.py`) | pages seen, queue of bodies, reads of a turn | `ReadingTurns` |
| Queries (`service.py`, `query_scan.py`, `query_progress.py`, `retrieval.py`) | snapshots behind cursors | `Queries` |
| Notes of other agents (`native_index.py`, `incremental_native.py`) | an index of files the agents own | `NativeNotes` |
| Layout and migration (`state_layout.py`, `migration.py`, `vault.py`) | marker, owner, old and new places of the state, backups | `VaultState` |
| Hermes provider (`hermes_provider/_provider.py`) | in-memory sessions, aliases, jobs | `HermesProvider` |
| Installers (`installer.py`, `adapters/`, `hermes_runtime.py`, `native_registration.py`) | files of the hosts | `HermesInstall`, `CodexInstall` |

How they interact. A prompt opens a gate (`RetrievalGate`), the model reads through it
(`ReadingTurns`, `Queries`, `NativeNotes`), the Stop hook or the Hermes provider captures the turn
(`Capture`) and enqueues a job (`ProcessJobs`). The worker runs `service.process`: a run per turn
(`ModelRuns`) that asks a model (`ModelRoute`, `ModelCalls`) without holding the lock, compiles the
answer (`TurnDraft`) and commits it (`IncrementalCommit`), unless a request to remember already
decides the turn (`Retention`). Beside it hosts submit proposals of their own (`HostProposal`,
`HostWork`, `HostAuthority`), clients update and retract single memories, compaction shortens
bodies, and Forget removes them. Everything that writes memories does it under the Vault lock and
the boundary of `service.py:497`, which first recovers what stopped halfway; `VaultMutations`
composes them.

Hard to test are: the death of a process, or a failed write, between any two writes of several
files; sections of two invocations interleaving where the lock is released; answers that arrive for
a run that was cancelled, finished or taken over; a pid that stands for an owner; state read in one
section and used in a later one; editors, hosts and installers that write the same files without the
lock; and limits reached in a failing call.

## How the modules are built

Each module has the state of its component as VARIABLES, one action per operation or per section
under a lock, and its properties with their comments at the end. The files of the code are
variables; what a process only holds in memory is a variable apart, and a crash throws it away.
Where a lock is held over several writes, the section is cut at each write (`call.at`, `hold`,
`op`), so that a crash or an edit finds every half-written state. Content is a token: a revision is
the operation that wrote it, a message one of a few kinds, a name a model value.

`loads`, `mixes`, `worlds`, `scenes` and the like are the bounds of a module: records that say how
many edits, crashes, calls or requests a behaviour may contain, and what the files hold at its
start. The initial state picks one, so that a run covers many small instances and no instance pays
for what another needs.

**`HostWork`.** One call is in flight at a time: `HostMemory.call` holds the Vault lock from
authentication to its answer. The ledger exists twice, as in the code: `disk` is the file, `live`
the dictionary the call mutates. `Save` is `_save`: the file becomes `live`, or stays what it was
and the call sees an I/O error. `call.at` is the program counter, one place per write of a file or
per check that a concurrent edit can falsify:

    charge -> compile -> publish -> verify -> select -> guard -> apply -> replace -> rename
           -> confirm -> (next member | settle) -> select ... -> finish -> reply

and `block`, `fail` for the `except` clauses. `Crash` may happen at each; `ExternalEdit` is a person
saving, deleting or restoring a file at any moment, and `stale` remembers that this happened after
the writer's scan, the only tie with people the code cannot win. A MERGE writes the survivor and
then retires the duplicates. Schema and permissions are reduced to whether the submission or item is
accepted; `HostProposal` and `HostAuthority` say when.

**`HostProposal`.** The agent reads pages of a snapshot and proposes items with quotes; an UPDATE,
MERGE or RETRACTION needs an anchor in what was read, patches keep a part of the body, every message
ends up used, deferred or rejected, and a second submission repairs what failed. Messages and bodies
are sequences of words. Writing is one step here.

**`HostAuthority`.** Grants are given, altered, revoked; works are frozen under one; an owner
approves a recovery, a confirmation, a deletion or more budget, and an approval is consumed in one
file before what it allows is saved in another, with a crash in between. Revocation and expiry are
one step, permission sets and scopes one bit.

**`ProcessJobs`.** `op` is the holder of the Vault lock inside the service: recovery of a dead
worker's job, choice, dispatch, launch, record of the pid. `Abort` kills the holder, or fails its
write, between any two of its steps. `frail` says at which of its places this may happen in a
behaviour; a failed launch and the death of a worker always may, `MaxMishaps` times in all. `proc`
are the detached workers. `service.process` is a step that succeeds or raises. Pids are not reused
(a reused pid only delays). `owed` and `turned` are history variables: sessions whose accepted
request no worker has taken up, and whether a request was turned away.

**`ModelRuns`.** Each action is one section under the lock; `call[d].at` is where invocation `d` is
between them. Receipt and budget are different files. A model answers with something that compiles,
something to be reviewed, or junk. The commit is reduced to its receipt: `open`, `cut`, `partial`,
`whole`. `moved` says that sources, memories, scopes or prompts changed since the plan. `Forget`
cancels, `SettleWork` is the commit settled by its own id, `Restore` brings the budget file back
from an older copy, `Kill` ends a process with all its invocations.

**`ModelCalls`.** The request below a run: threads share one backend and its usage is kept per
thread; a reply is an HTTP status, a timeout, garbage, truncated, empty, oversized or whole; each
adapter asks for thinking in its own way. **`ModelRoute`** is the facade above: `init` and the
installers discover a model and write the route without the Vault lock, processes resolve it with an
environment of their own, commits register scopes in the same file.

**`TurnDraft`.** From the answer to a plan: rows, merges and their expansion, observations a row may
use, issues, review, structural repair and recovery, the observations left over.

**`VaultFiles`, `IncrementalCommit`, `ExplicitMutations`, `Compaction`, `VaultMutations`.** The
Markdown files, history, the lock (`hold`), crashes and edits are `VaultFiles`; the three others
extend it, and `VaultMutations` extends the three with the boundary and Forget. `actors` says who
takes part in a behaviour. `hold.at` is the place of the section inside its writes. Only the
transaction of a compaction catches an I/O error and rolls back at once (`Caught`, the `try` of
`compaction.py:673`); everywhere else a failed write ends the section (`Stop`), and the next one
recovers. The assumptions on the constants are what the code guarantees of names: a new memory gets
an identity that no file had before and that no other plan creates, a receipt names its operations
after itself, a merge goes into an operation that writes, a request is for one memory, and whoever
writes a text marks it (`PlanAssumption`, `OrderAssumption`, `RequestsAssumption`,
`MarksAssumption`).

**`RequestLedger`, `VaultState`.** Reservation, completion, retirement and sealing of the budgets
over two files; the move of the state of a Vault to its private layout by two processes, one of
which may be cut off, with staging, markers and backups.

**`Capture`, `Retention`.** Events of a session with revisions, late answers and recording switched
off, their works, settlement, clean-up and recovery; and the requests to remember a turn with the
two processes that carry them out.

**`RetrievalGate`, `ReadingTurns`, `Queries`, `NativeNotes`.** The hooks of a turn with overlapping
Stops, retries and expiry, and what a Stop makes of a processing: it takes up what is `Ready`, runs
turn by turn, may be refused its first or its second look at the Inbox, or raise, and the flag is
written from what it then knows (`Process`, `RunTurn`, `Finish`, `Raise`, `SetProcessPending`).
Lists and bodies read in chunks; the two scans of a query beside a person who edits; the index of
notes.

**`HermesProvider`, `HermesInstall`, `CodexInstall`.** The provider's turns, switches of session and
lost calls; the installs step by step with faults, a crash, an edit and repeats.

## What the runs check

Every property has its comment beside its definition; a group is the conjunction of the properties
of one or several modules, each as strong as if it stood alone.

| Run | Instance | Checks |
|---|---|---|
| `faults` | `MCHostWork`: one work, a MERGE of two memories, two faults, one edit | `TypeOK`, `WrittenFromLedger`, `WrittenInOrder`, `SavedIsWhole`, `NothingLost` |
| `works` | two works on the same memory and a creation, five requests | `NoFork`, `ChargedOncePerRequest` |
| `items` | two items per submission, one fault | `CompletedIsDone`, `KeepsPromise` (refinement of `WorkPromise`), `CallsReturn` |
| `jobs` | `MCJobs`: workers that die and launches that fail; or dispatchers that die or fail as well; a queue of one | `TypeOK`, `OneAtATime`, `NoStall`, `SessionAlone`, `NothingForgotten`, `QueueDrains` |
| `runs_owners` | `MCModelRuns`: three invocations in two processes, one run | `TypeOK`, `OneCallAtATime`, `NoAnswerThrownAway`, `CompletedIsCommitted`, `ForgottenStaysCancelled`, `OutcomesStand` |
| `runs_budget` | one invocation at a time, a failure, a kill, a restored budget | `CallsWithinBudget`, `InvocationsReturn` |
| `components` | `MCComponents`: vault, authority, capture, draft | `TypeOK`, `ReceiptsAreTrue`, `SurvivorFirst`, `ForgottenStaysForgotten`, `OriginalKept`, `ParentAgrees`, `WholeOrUndone`, `AuthorityHolds`, `CaptureHolds`, `DraftHolds` |
| `services` | `MCServices`: thirteen parts | `SessionsHold`, `StorageHolds`, `AnswersHold`, `InstallHolds`, `ProposalHolds`, `RoutesHold` |
| `replay`, `runs_review`, `revived`, `shifted` | see below | one disagreement each |

`MCComponents` and `MCServices` check components that share no variable in one run: `part` says
which of them a behaviour is about, and the others keep their initial state. It is a sum of state
spaces, never a product. The modules that instantiate the parts (`MCDrafts`, `MCHosts`,
`MCStorage`, `MCQueries`, `MCInstalls`, `MCProposals`, `MCRoutes`) say what the bounds of each are.

The groups:

* `SessionsHold`. Gate: an answer that is let through saw every page of the last list begun for it,
  in order (`CheckedAnswers`); a continuation is captured with its prompt (`TurnsWhole`); a turn
  that is ready to be processed is asked for by the flag, unless the Stop that wrote the flag did
  not see it (`AskedAgain`; what that leaves out is below). Provider: a session is processed after
  its parent is known, but for a child whose link is being told or was dropped with a switch
  (`LinkedFirst`); no confirmed turn stops being asked for (`AllAsked`), aliases end.
  Retention: a request is given up only for a completed commit of it, is one run, is void once
  recording is forbidden, and no turn is derived twice.
* `StorageHolds`. The newest value of every file of the state survives a migration cut off anywhere,
  a lost control is not made anew, a Vault is refused only for a reason, a published backup is
  whole. A reserved request stays on file, sealed receipts are over and stay sealed.
* `AnswersHold`. An answer is of memories that stood together at one moment since the first scan
  ended, unless a file was changed and changed back between the scans; then each file still stood as
  read (`OneMoment`). All pages of a list, and of a body, are of the same memories and whole; a list
  called complete misses nothing; Forget takes one memory; a segment of a note is what the file says
  and was shared; a model that follows `continue` sees every row and every body whole, and the reads
  a turn is frozen with are those that went out.
* `InstallHolds`. At every step: no half-written entry is active, what belongs to others stays,
  "configured" is true (of the first handler of an event that runs memleaf, and of all of them
  unless the file held several before), a failure restores or is harmless, a repeat
  changes nothing, "active" was earned by a hook that ran.
* `ProposalHolds`. Nothing is replaced that was not read in that revision, a merge loses no word,
  only the user retracts, aliases stay, one change per memory, a completed work answers every
  message, refresh helps when it is advised.
* `RoutesHold`. "ready" is true, credentials are real, calls are charged as sent, scopes stay
  registered; usage is the caller's own, cut answers are no answers, thinking is reported as it was.
* `AuthorityHolds`. A frozen operation has one holder, children and budgets were approved, an
  approval works once and an interrupted consumption goes on, nothing is written after the grant
  changed, nothing returns after Forget.
* `CaptureHolds`. An acknowledged message is in the Inbox until a completed work used that revision,
  turns keep their places, a repeated control counts once.
* `DraftHolds`. A merge is one decision, a memory changes once and for a reason in the turn, every
  omission has a disposition, every row of a complete turn is accounted for, settled stays.

Bounds. `MaxFaults`, `MaxEdits`, `MaxKills`, `MaxCrashes`, `MaxLapses` and the loads bound how often
something goes wrong; each component has at least one failure at every place, `faults` two, so that
a failure during the recovery from a failure is covered. Two members are enough for the order of a
group, two works for a fork, two items for decisions that differ within a submission, two
submissions (`Limit`) for one that follows another and the last one being spent. In `ProcessJobs`
the queue fills up (`QueueMax` is 1) and finished jobs are pruned (`Retained` is 2) within a
behaviour; three jobs are one active, one waiting and one that ended; four requests, four workers
and three mishaps allow a worker to be replaced and its successor to die. `Canonical` and `Alike`
name the first session and argument, and give all requests the same arguments where no holder fails.
In `ModelRuns` `Limit` is 1 or 2 where the code has 5: what matters is the first, the last and the
one after the last request (`runs_review` uses 5). The vault has eleven mixes of who acts, each with
one failure; three memories are two that merge and one that is new. Lists have two pages, bodies two
or three chunks, sessions are three because a chain of two links has a middle. Installs run up to
three times: the first fails or dies, the second repairs, the third must change nothing; two of the
starting hooks files hold two memleaf handlers of one event. A person makes up to two edits during a
query, in one world five: that is what it takes to change two files and change them back behind both
scans (`restored`). Symmetry is
used only in runs without liveness, over values the specification treats alike. `CHECK_DEADLOCK
FALSE` is given because with bounded requests, faults and edits every system here does come to rest.

Fairness. `HostWork`: `WF(Service)`, a call in flight is a running function (`CallsReturn`).
`ProcessJobs`: weak fairness of the lock's holder and of every worker, operating system processes
that run; nobody is assumed to enqueue (`QueueDrains`). `ModelRuns`: weak fairness per invocation,
its requests answer or time out; nobody is assumed to resume or to forget (`InvocationsReturn`).
`QueueDrains` excuses behaviours in which a worker was killed: the code has no daemon, and a dead
worker's job waits for the next enqueue. The other modules assume no fairness and have safety
properties only: their next step is always taken by a client, a host or a person, and none of them
has to.

## Disagreements between the code and its documents

Shown by a run that TLC ends with a counterexample:

* `replay`: a submission that dies after its charge has no result to replay, for ever
  (`host_v2.py:214`, docs/host-v2-contract.md:36).
* `runs_review`: a run is marked reviewed before its amended answer is known to compile; if it does
  not, the next first answer that needs a review is committed without one
  (`incremental_execution.py:400`, comment in `incremental_semantics.py`).
* `revived`: clean-up removes the blocks of the settled revisions; a block that was superseded
  before any work used it becomes visible again and is processed as a new turn
  (`process_journal.py:177`, docs/source-work-contract.md:23).
* `shifted`: after a merge the recovery of an answer takes another row for the one an issue names,
  and the fact is dropped without an issue (`incremental_recovery.py:140`, `:306`).

## Weaknesses met while modelling

The properties that hold excuse these, each by a named condition in its module.

Host works and authority
* A refresh never takes up a new `config.json`: every later submission is `SNAPSHOT_STALE` and burns
  the budget (`host_v2.py:441`, `:524`; excuse `policy`). A native file that changed under a work
  with a native target refuses every call, refresh and cancel included (`host_v2.py:96`; excuse
  `native`).
* `original_body` is never set, so the refusal of cumulative patches never fires; two works together
  may rewrite a body, though docs/host-v2-contract.md lets no patch bypass the approval.
* A processing approval does not need an exhausted budget, as docs/host-v2-contract.md:68 describes.

Jobs and runs
* A dispatcher that dies between the launch and the record of the pid leaves a live worker nobody
  knows, and the next enqueue starts a second one (`process_jobs.py:684`,
  docs/general-processing.md:96). `MCJobs` keeps dispatchers from dying just there.
* A worker that recorded `succeeded` and then fails to dispatch the next job records `failed` over
  it (`process_jobs.py:812`, `845`, against README.en.md:267). A full queue turns an enqueue away
  after it took back a dead worker's job, which then waits (`process_jobs.py:736`; `turned`).
  docs/general-processing.md:98 requeues a dead job on a status read; `status` only reads.
* A commit that was interrupted and then meets a pending host submission makes its run `blocked`,
  which is terminal: the run cannot be resumed (`incremental_execution.py:285`,
  docs/incremental-execution.md:63).
* docs/incremental-execution.md:47, docs/source-work-contract.md:97 and
  docs/incremental-partial-recovery.md:81 give a run two requests; `extraction_budget.py:18` five.
* The Claude and Gemini adapters accept a truncated answer and report the thinking asked for as
  effective; usage in an error reply is lost.

Vault
* A memory a person edited while its compaction was pending loses its archived original on rollback
  (`compaction.py:365`; `touched`). An interrupted Forget leaves a completion whose parent cannot be
  resolved until it is repeated (`forgetting`).
* `_index/compaction.json` present at an upgrade is listed as migrated and unlinked after its
  recovery, so that every later opening raises `StateLayoutError` (`gone`); a crash inside
  `_copy_staging` leaves a partial directory that closes the Vault (`torn`, `state_layout.py:254`).
* The first page of a read counts a hit by writing the file back as it was read, and can put back a
  person's edit (`service.py:943`). `include_history` can hide an active memory behind a filtered
  copy; a reader confined to some scopes may see a closed copy of a task that is open elsewhere.
* A note that was unreadable once, or changed at the same time and size, stays out of the index
  until it is rebuilt (`native_index.py:397`); shadow marks are lost with a file that is missing for
  a moment; one illegal entry of `native_sources` fails every native request.

Sessions
* A retention run that ends blocked, failed, cancelled or partial leaves its intent pending for
  ever: its turn is not processed automatically, and 128 of them refuse new ones. A forked or cyclic
  line blocks the row of its turn. A link made after the child's turn was captured lets the turn be
  derived twice (`slipped`).
* `process_pending` says less than that something is left (`unseen`). A Stop that finds the engine
  busy or a control record unreadable gets a summary with nothing to retry and clears the flag,
  although the turn it captured was not looked at (`processing_route.py:206-209`,
  `host_runtime.py:455`). A Stop writes the flag from its own last look, over the one an overlapping
  Stop has raised since, and a failure to write it is passed over. Such turns wait for the next
  captured answer. A run that ended blocked or failed, or waits for an explicit recovery, is never
  retried by a Stop; a turn without its answer keeps all later ones of the session waiting
  (`earlier_source_incomplete`).
* After an expiry the answer is captured under the continuation's own name (`expired`).
* The Hermes provider processes a child whose pending link was dropped by a switch without telling
  the link (`unlinked`), against its comment; a deferred session whose job was pruned is polled for
  ever.
* A query compares the contents of its two scans. Files that are changed and changed back in between
  go unnoticed, and it can answer with memories that never stood together (`query_scan.py:241`;
  `restored`). docs/public-query-integrity.md:84 says the scan is no atomic snapshot.
* In a queue of bodies, a memory that was deleted blocks `continue` for those behind it; a list
  answer that was lost is skipped by `continue`.

Installers and routes
* Hermes: an install that dies after it disabled an entry leaves it disabled, and later installs
  refuse it as a conflict; the rollback overwrites what a person or Hermes wrote meanwhile
  (`installer.py:191`) and does not undo `native_sources`.
* Codex: if an event has two memleaf handlers, the merge stops at the first (`base.py:751`); the
  second stays and runs too, although it may be of another Vault, which the docstring of
  `merge_hook_config` calls a conflict.
* Codex: a hook added after the file was read is kept only in the backup, and one added after the
  backup nowhere (`base.py:720`; `slipped`). One working hook of five is enough for
  "active", whichever definition ran (`base.py:302`).
* Routes: `install_codex` says "ready" without the check of capabilities (`installer.py:1433`
  against the comment at `:943`); `init` writes over a working route, ignores the single-pass
  capability when it chooses, resets other options, and may lose a scope registered meanwhile
  (`model_discovery.py:634`; `lost`).

Limits the documents admit, and the models keep: an editor that saves between the last scan and the
rename loses to the program (docs/candidate-reconciliation.md:85). An owner that could not be
removed from the file keeps other processes waiting until its process ends. After a restored budget
file, runner and maintenance together may exceed the limit, the runner alone may not.

## What is proved

TLAPS checks the proofs for every value of the constants: any number of works, items, memories,
requests and submissions, runs, invocations and processes, any faults and edits. They assume the
named ASSUMEs of each module only; the theorems on `HostAuthority` and `VaultState` have them as
their hypothesis `Named`, the one on `HostProposal` as `WorldsRight`, which the runs check on their
instances (`AuthorityNamed`, `StateNamed`, `WorldsAreRight`).

`HostWorkSafety`: `TypeCorrect`, that is `Spec => []TypeOK`, as the first layer (`Typed`), which
also says where a call in flight can be; and `LedgerBeforeHead`, `MembersInOrder`, `SavedMeansWhole` and
`ArchivedBeforeReplaced`, that is `WrittenFromLedger`, `WrittenInOrder`, `SavedIsWhole`,
`NothingLost`. None of the four is inductive. What the step that replaces a head relies on was
established several steps before, by `Publish`, `Guard` or `Apply`, and is kept in `call` and
`live`, which the properties do not mention. The invariant (`Safe`) therefore adds two kinds of
facts: the same statements about the ledger in memory (what `live` says of the heads is true while a
call is in flight, and `live` agrees with `disk` on published groups once execution starts), and
what each place of the call knows (at `replace` and `rename` the head's predecessor is archived
unless `stale`; at `settle` all members are marked). `disk` and `live` are shown apart because a
save may fail, and a crash throws `live` away. The proof has one step per action, and `NothingLost`
follows from the invariant and the two actions that change a head.

`ModelRunsSafety`: `TypesHold`, `OneRequestOut` and `AllowanceKept`, that is `TypeOK`,
`OneCallAtATime` and `CallsWithinBudget`. The limit on the attempts of a receipt is not a guard of
the code: it follows from their ordinals, which only ascend and stay within the budget's limit
(`Ascends`, checked when a receipt is loaded). `Owned` says that an invocation is the owner from
taking the token until it gives it back; two invocations at a request would both be the owner. A
kill frees only tokens of the process that died, and a token that could not be given back names the
process, so it is nobody's invocation. `Counting` orders the three counts of requests: sent,
attempts on file, budget. Each is raised in a section of its own, the budget first, so the invariant
adds one for the invocation that has raised one count and not the next (`Pending`); that only one
can be there is again `Owned`. The second half is claimed while `lapses = 0`, as in the property.
`QuietStep` and `SaveStep` cover the actions that neither reserve, enter nor send; the others have
proofs of their own.

`HostWorkPromise`: `ChargedOnce`, `CompletedMeansDone` and `LedgerKeepsPromise`, that is
`ChargedOncePerRequest`, `CompletedIsDone` and the refinement of `WorkPromise`. The invariant
(`Held`) is `Safe` and what the ledger in memory has beyond the one on file, place by place
(`Rest`). `Paid` counts the submissions a ledger retains; it has to hold of the file and of the
memory, since a crash throws one away. `Pending` says, per place of the call, what of the next save
is not on file yet: a charge, decisions on open items, the end of an item, a closing. `RestNext`
proves the invariant and, of every step, `Advance`: the file changes in one work and by one of those
kinds. Each kind is a step of `WorkPromise` (`PromiseStep`), and a crash, an edit and a scan are
stutters, since the promise is about the file.

`HostWorkPromise` also proves `OneLine`, that is `NoFork` as long as `edits = 0`: a person who edits a memory
makes versions that are not the program's. The invariant adds that what was replaced never comes
back as a head (`Past`) and was replaced by one group (`Single`), for the file and for the memory,
that no version is referred to before its group is saved (`Known`: a predecessor cannot be a version
still to be written), and that no scan goes stale. One saved group per replaced revision is not
inductive without them: between the archive and the save the group that replaced is not saved yet.

`ModelRunsSafety` also proves `AnswersUsed`, `CompletedStands`, `ForgottenForGood` and `OutcomesKept`, that is
`NoAnswerThrownAway`, `CompletedIsCommitted`, `ForgottenStaysCancelled` and `OutcomesStand`. The
invariant is the one above and `Orderly`. `Fits` says what the files bear out of the
place of an invocation: from the decision to ask to the answer there is neither answer nor commit,
or the run was revoked; at `settle` the commit has an outcome; at `seal` the budget is closed.
`Agree` says that the files of a run agree: an answer is on file only while it awaits its commit,
and what is reported completed is committed. The guards are read in one section and the writes made
in a later one; that nobody else writes in between, but Forget, is `Owned`. The two action
properties follow from `Steady`, proved of every action with the invariant: it lists what a step may
do to a receipt that is final.

`ProcessJobsSafety`: `TypeCorrect`, `AloneInSession`, `RequestsKept`, `Serialized` and
`NoneStranded`, that is `TypeOK`, `SessionAlone`, `NothingForgotten`, `OneAtATime` and `NoStall`.
The properties hold under different assumptions on who may fail, so the invariant has three layers,
each inductive above those before it. `Sound` holds whoever fails: the holder's copy is the file but
for an active job it may have found (`Copied`), the job that is being launched waits for its worker
(`Launched`), and the owner of a job is a worker that was launched for it (`OwnersKnown`). `Manned`
needs that no dispatcher fails between a launch and the record of the pid: then every worker that is
not yet finishing is the one the file names (`Posted`), a session has one open job, and whatever is
owed has a job somebody will see to (`Owing`); a worker that finishes may have finished before, and
its job is then over for good. `Serial` needs that no holder fails: the active job is the one job
that is starting or running (`OneActive`), so two workers at work would both be its owner.
`PostedFrame`, `SeenFrame` and `FinishesFrame` say when a step leaves a worker and a request as they
were; the proof of each action shows that its writes are of that kind (`Undisturbed`), and treats by
hand the one worker or job they are not about.

`VaultSafety`: `TypesHold`, `ReceiptsTrue`, `SurvivorsWritten`, `ForgottenForGood`, `OriginalsKept`,
`ParentsAgree` and `CompactionsEndWhole`, that is all properties of `VaultMutations` and
`Compaction` that the run `components` checks: `TypeOK`, `ReceiptsAreTrue`, `SurvivorFirst`,
`ForgottenStaysForgotten`, `OriginalKept`, `ParentAgrees` and `WholeOrUndone`. They hold for any
number of memories, receipts, operations, requests, faults and edits, and for any mix of who acts.
The invariant (`Inv`) has layers, each inductive above those before it.

* `Typed`: the shape of every file and what each place of a section may assume of it (a request
  under way has its journal, a transaction its staged copies).
* `Transacted`: a compaction's journal is of the staged copies, one of a memory, at the phase its
  place says (`PhaseAt`); outside recovery and compaction nothing is staged (`Phased`), which is what
  the boundary is for; a staged memory holds its source or the replacement unless a person edited it
  (`Shadowed`). A committed journal vouches for the archives. Without it neither `OriginalKept` nor
  `WholeOrUndone` is inductive: the rollback removes archives, and only the staged copy says that the
  original is the head again.
* `Receipted`: what is written is on a receipt (`OnRecord`); before a write the base is archived or
  the scan is stale (`AtFile`); a written operation still `prepared` is seen by the next boundary
  before anybody else acts (`Acknowledged`). The last is why no written operation is ever blocked: a
  crash between the write and its receipt leaves it `prepared`, and `reconcile_applied_unlocked` runs
  before the commit may look at it again.
* `Cleared`: how far Forget has come (`Deleting`), what a request is about to write over
  (`Requested`), and that whatever has a head, an archive, a staged copy or a pending Forget existed
  once (`Existence`). So a new memory never takes the identity of a forgotten one, and a forgotten
  memory has nothing that could write it.
* `Inheriting`: from the moment a completion is frozen, its parent is saved and over, and what the
  parent settled the completion has settled, or an unfinished Forget cancels it in both.
* `OriginalKept` itself, from the layers above: `OriginalReplaced` is the case of a head that is
  written over, `RecoveredOriginal` that of a recovery.

`WholeOrUndone` is about the step that removes the journal: `EndsWhole` shows that only three steps
do, and takes each from the layers.

`HostAuthoritySafety!AuthorityKept`: `Named => (Spec => AuthorityHolds)`, for every number of grants,
works and approvals. `Named` says that ids differ: a child's id is that of its approval, never that
of a work that was prepared (both are new tokens), and what a person writes is no frozen operation.
The run `components` checks it on its instance (`AuthorityNamed`). No part of the invariant mentions
the state of a grant: a grant may be revoked at any moment, also while an approval is being saved, so
nothing that was true of it when it was checked can be kept. What can be kept is who has what:

* `Stamped`: an operation bears the name of a work that froze it, which from then on is not `Fresh`,
  so no name is given twice; of the works that have one operation all but one have moved it.
  `WrittenUnderAuthority` needs both: the work that writes is the only one that could, and it is
  checked in the same step.
* `Descended`: a child is of the parent and the kind of its consumed approval, and the parent names
  it. So a second use of a consumed approval (`InterruptedGoesOn`) finds either no child, or a parent
  that has one and refuses.
* `Consumed`: between the two files, what the approval was bound to still holds. Only the lock makes
  this true: nothing else may change a work until the save or the death of the process.
* `Buried`: what was buried had been frozen before, so a work that is still `Fresh` cannot bring a
  buried operation back.

`VaultStateSafety!StateRight`: `Named => (Spec => StateHolds)`, for any number of files, of staged
parts and of processes that open the Vault, whatever dies, is written, is lost or is backed up
meanwhile, and also for an old layout that is backed up, which no run enumerates. `StateHolds` is one
half of `StorageHolds` in the run `services`. A migration reads in one step and relies on it many
steps later, so the invariant says what each place of an opening knows (`PlacedAt`):

* `Locked`: whoever is inside holds the lock. So a copy that was compared stays equal to what it was
  copied from (`Copied`) until the marker is written, and `MarkComplete` changes where every file is
  read without changing what is read (`StateKept`).
* `Behind`: before the marker is there, a copy that a dead migration left may be older than the file
  the older version still writes, never newer. So a copy that differs goes on differing, and the
  Vault stays closed for a reason (`Caused`): the refusal outlives the comparison by any number of
  steps.
* `Filling`: a staging directory that is neither absent nor whole is being filled, or was cut off.
* `Accounted`: a moved file that is not there went in use or was lost; what was lost is required, so
  `EnsureFiles` does not make it; a Vault of the older layout has its directories before anybody
  looks, so nobody finds it new and binds an owner (`OwnerStands`).
* `Backups`: what the backup holds, per stage, is what the preflight showed.

`HostProposalSafety!ProposalRight`: `WorldsRight => (Spec => ProposalKept)`, for any memories, any
offers in any order, second submissions, refreshes, cancels, and edits by a person between any two
calls. `WorldsRight` is what the schema accepts (no field basis in a restore, no field that is not
the agent's to set) and what a person may write (no alias). `ProposalKept` speaks of what was saved,
possibly several submissions after the agent read it, so the invariant (`Inv`) speaks of every
item from its compilation on:

* `PlanRight`: what a plan says is about the revision it was compiled from, in terms of what was
  shown by then, so nothing that happens later can make it wrong. `CreateRight` to `CompactRight`
  prove it of each action, from the guards of `compile_item` alone.
* `EntryRight`: only an item that waits for its write, or has it, has a plan that changes anything;
  that is why a later submission cannot change a memory twice (`ChangedSettled`): while anything
  waits no submission is taken, and the memories of what is settled are refused.
* `Whole`: an item that is replaced was open, and the messages of open items are asked for again.
* `ReadOf`: while nothing was written, a target that was read is still the head, so a refresh is
  never advised for a moved target that a refresh just took up.
* An alias that is not written keeps pointing to what is no alias of it: a write that would make it
  one would belong to a group that writes both (`WrittenRight`).

Only model-checked: the groups `CaptureHolds` and `DraftHolds` of the run `components`, every
property of the run `services` but `StateHolds` and `ProposalKept`, and all liveness. Of
`ProposalHolds` that leaves `MergeKeepsWords` and `UserCuts`, which are about concatenated bodies: the
concatenation is recursive. Liveness under fairness and
ENABLED are out of the prover's reach, as is what a recursive definition computes; no module with
theorems declares a recursive operator.

## What the models abstract

Where a module reduces what its code does, and why a property does not depend on it:

* `HostWork`, `HostProposal`, `HostAuthority`: a proposal is what it changes; the schema is accepted
  or refused at every place where the code authorizes. `HostProposal` writes in one step (crashes
  are `HostWork`), takes approvals as given (`HostAuthority`), and leaves out provenance lists, the
  expiry of pages, tags, keywords and custom metadata. `HostAuthority` has one item of one memory
  per work and does not refresh revisions.
* Vault modules: expected revisions are fixed when they are read; each memory is shortened at most
  once; a source is the evidence of every operation that wrote the memory; the host ledger's part of
  the boundary is a refusal.
* `ModelRuns`: no budgets of older releases, one Vault; its commit is a receipt, and
  `IncrementalCommit` has the operations. `ModelCalls` leaves the death of a process to `ModelRuns`,
  and has at most two requests per run and one compaction. `ModelRoute`: one installer at a time,
  the byte comparison and the replacement of `finish_registration` are one step, a scope whose
  memory was deleted before its registration is left out.
* `TurnDraft`: identical CREATEs, deadlines, effective dates, history links and the boundary of
  scopes are left out; dates and wording decide nothing here.
* `Capture`: one session; explicit texts, source sequences and legacy blocks are left out; when a
  turn is due is nondeterministic. `Retention`: a run is ready, asked, answered or lost and its
  commit is one lock with a crash variant; a request is queued before the answer is captured; no
  budget.
* `RetrievalGate`: hooks of a call end before the Stop of its prompt, gates expire oldest first. A
  run leaves its turn closed or not; why is `ModelRuns`. A batch takes up all ready turns, as a
  session here has fewer than `MAX_BATCH_TURNS`. A Stop that is killed is one that never ends, and
  `AskedAgain` speaks only of moments at which none is under way.
  `ReadingTurns`: bodies in chunks, one row per page, ids of calls unique, an expiry is
  `RetrievalGate`. `Queries`: relevance is one bit, the size of a page nondeterministic, a file is
  read at once, notes of other agents are not in the context. `NativeNotes`: no scores, no
  duplicates of local bodies.
* `HermesProvider`: one callback at a time; numbers of turns, notices, prefetch and evidence are
  left out. Installers: one at a time, paths and launchers are records, two events, two provider
  files, `Vault.initialize` is `VaultState`; the dry run is left out.
* `VaultState`: an older binary running after the upgrade, the blockers of a backup and its checks
  are left out; a person who edits during a backup edits a file in use, not the copy of a migration
  that died. `RequestLedger`: one turn per source work, commit receipts are sealed with their
  runs.

## Not modelled

* The legacy planning engine (`memory_planner.py`, `single_pass_plan.py`,
  `single_pass_memory_planner.py`, the coordinators, `parallel_model.py`, and all of
  `validation.py`, `turn_plan.py`, `model_execution.py` and `process_journal.py` but the digests,
  the JSON parser and what the Inbox uses): no entry point reaches it
  (docs/automatic-processing-route.md:5, "There is no executable legacy processing engine"). It is
  about a sixth of the source. With it go `MemoryWriter.write_many` and its helpers, `apply_shadow`
  and `scope_maintenance.py`, which nothing calls.
* The text index, which is written anew whenever memories change and decides nothing.
* JSON-RPC and command-line shells, argument checks, formatting, redaction, the parsing of Markdown,
  the text of prompts, the relevance and order of search results: functions of their input that a
  unit test reaches.
* The Antigravity adapter, which the repository calls unsupported.

## What is left

In this order:

1. Capture (`Capture`) as theorems.
2. `semantic_maintenance.py` and the pruning of archives by age (`retention.py`), on `VaultFiles`.
3. The dispatch of `mcp_server.py` with its validators, and `host_v2_mcp.invoke`, above
   `ReadingTurns` and `HostWork`.
4. The evidence budget of the Hermes provider and its notices.
