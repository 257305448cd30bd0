------------------------------ MODULE Retention ------------------------------
(***************************************************************************)
(* "Remember this turn" (host_retention.py): a model queues the request    *)
(* during its turn, the answer is captured later, perhaps in a session that*)
(* continues this one, and the host's completion call and the background   *)
(* worker (processing_route.py) each try to carry it out with one paid run *)
(* that replaces the automatic one.  Meanwhile the user may forbid         *)
(* recording, sessions may be linked, forked and reset, late events revise *)
(* the turn, and either process may die.  ModelRuns models a run, and      *)
(* IncrementalCommit its commit, in full.                                  *)
(***************************************************************************)
EXTENDS Naturals, FiniteSets

CONSTANTS
    Sessions, Turns,
    Host, Worker,       \* the completion call, the background worker
    None,
    Loads               \* bounds of a behaviour

VARIABLES
    parent,     \* session -> the one it continues, or None
    off,        \* sessions whose recording is switched off
    hidden,     \* private <<session, turn>>
    heard,      \* <<session, turn>> -> captured events; none before the answer
    pending,    \* requests <<session, turn>>
    runs,       \* run id -> run
    works,      \* run id -> its commit work
    entries,    \* <<session, turn>> -> processed_turns entry, or None
    owner,      \* of the model, or None
    job,        \* process -> what it is doing, or None
    slipped,    \* turns that joined a request's line only after the answer
    load, used

vars == << parent, off, hidden, heard, pending, runs, works, entries, owner, job, slipped, load, used >>

hostVars == << parent, off, hidden, heard, slipped >>
runVars == << runs, works, entries, owner >>

Places == Sessions \X Turns
Processes == {Host, Worker}

Use(what) == used[what] < load[what] /\ used' = [used EXCEPT ![what] = @ + 1] /\ UNCHANGED load
Unused == UNCHANGED << load, used >>

(***************************************************************************)
(* Lines of sessions.                                                      *)
(***************************************************************************)

Line(s) ==
    LET at[n \in 0..Cardinality(Sessions)] ==
            IF n = 0 \/ at[n - 1] = None THEN (IF n = 0 THEN s ELSE None) ELSE parent[at[n - 1]]
    IN at

Sound(s) == Line(s)[Cardinality(Sessions)] = None
Ancestors(s) == {Line(s)[n] : n \in 0..Cardinality(Sessions)} \ {None}

(* The sessions from s up to o, none of them forked.                        *)
Path(s, o) == {x \in Ancestors(s) : o \in Ancestors(x)}
Unforked(s, o) == \A x \in Path(s, o) \ {s} : Cardinality({y \in Sessions : parent[y] = x}) = 1

Allowed(s, t) == s \notin off /\ << s, t >> \notin hidden

(* The whole frozen path of a request made in o, asked for a turn of s.     *)
Authorised(s, t, o) ==
    /\ Sound(s) /\ o \in Ancestors(s) /\ Unforked(s, o)
    /\ \A x \in Path(s, o) : Allowed(x, t)

(* Requests for the same turn in the session or one it continues; two of    *)
(* them, a cycle or a fork is an error.                                     *)
Asked(s, t) == {o \in Ancestors(s) : << o, t >> \in pending}
Bindable(s, t) ==
    /\ Sound(s) /\ Cardinality(Asked(s, t)) <= 1
    /\ \A o \in Asked(s, t) : Unforked(s, o)

(***************************************************************************)
(* The host.                                                               *)
(***************************************************************************)

Idle(p) == job[p] = None
HostOnly == UNCHANGED << runVars, job >>

(* save_turn, or update_memory in a turn: the model asks before its answer  *)
(* is captured, here or in a session that went on with the turn.            *)
Queue(s, t) ==
    /\ \A x \in Sessions : s \in Ancestors(x) => heard[<< x, t >>] = {}
    /\ Use("requests")
    /\ Bindable(s, t) /\ Allowed(s, t)
    /\ \A o \in Asked(s, t) : Authorised(s, t, o)
    /\ Asked(s, t) = {} => Cardinality(pending) < load.most
    /\ pending' = IF Asked(s, t) = {} THEN pending \cup {<< s, t >>} ELSE pending
    /\ UNCHANGED hostVars /\ HostOnly

(* A captured turn is complete: its question and its answer.                *)
Capture(s, t) ==
    /\ heard[<< s, t >>] = {} /\ Allowed(s, t) /\ Use("captures")
    /\ heard' = [heard EXCEPT ![<< s, t >>] = {1, 2}]
    /\ UNCHANGED << parent, off, hidden, pending, slipped >> /\ HostOnly

(* A late event joins the turn or replaces its answer.                      *)
Revise(s, t) ==
    /\ heard[<< s, t >>] = {1, 2} /\ Allowed(s, t) /\ Use("revisions")
    /\ \E events \in {{1, 2, 3}, {1, 3}} : heard' = [heard EXCEPT ![<< s, t >>] = events]
    /\ UNCHANGED << parent, off, hidden, pending, slipped >> /\ HostOnly

Hide(s, t) ==
    /\ Use("controls") /\ hidden' = hidden \cup {<< s, t >>}
    /\ UNCHANGED << parent, off, heard, pending, slipped >> /\ HostOnly

(* Switching a session off hides the turn that asks for it too.             *)
SwitchOff(s, t) ==
    /\ Use("controls") /\ off' = off \cup {s} /\ hidden' = hidden \cup {<< s, t >>}
    /\ UNCHANGED << parent, heard, pending, slipped >> /\ HostOnly

SwitchOn(s) ==
    /\ s \in off /\ Use("controls") /\ off' = off \ {s}
    /\ UNCHANGED << parent, hidden, heard, pending, slipped >> /\ HostOnly

(* A line that changes late leaves turns behind that were captured under    *)
(* the old one.                                                             *)
Link(s, o) ==
    /\ s # o /\ parent[s] = None /\ Use("links")
    /\ parent' = [parent EXCEPT ![s] = o]
    /\ slipped' = slipped \cup {p \in Places : heard[p] # {}}
    /\ UNCHANGED << off, hidden, heard, pending >> /\ HostOnly

Reset(s) ==
    /\ parent[s] # None /\ Use("links")
    /\ parent' = [parent EXCEPT ![s] = None]
    /\ UNCHANGED << off, hidden, heard, pending, slipped >> /\ HostOnly

(***************************************************************************)
(* Carrying a request out.  A job is [s, t, at, refs, origin, id]: "look"  *)
(* (does the worker's turn carry a request?), "bind", "start", "drive",    *)
(* "pop", and "auto" for the worker's own run.                             *)
(***************************************************************************)

Work(p, new) == job' = [job EXCEPT ![p] = new]
At(p, where) == ~Idle(p) /\ job[p].at = where
Next1(p, where) == [job[p] EXCEPT !.at = where]
ProcessOnly == UNCHANGED hostVars

ExplicitId(s, o, t) == [s |-> s, t |-> t, o |-> o, events |-> {}]
AutomaticId(s, t) == [s |-> s, t |-> t, o |-> None, events |-> heard[<< s, t >>]]

Known(id) == id \in DOMAIN runs
Closed == {"completed", "unresolved", "blocked", "failed"}
Terminal(id) == Known(id) /\ runs[id].status \in Closed

(* The host reports that the turn is over.                                  *)
Complete(s, t) ==
    /\ Idle(Host) /\ heard[<< s, t >>] # {} /\ Use("calls")
    /\ Work(Host, [s |-> s, t |-> t, at |-> "bind", origin |-> None, id |-> None, refs |-> {}])
    /\ UNCHANGED pending /\ UNCHANGED runVars /\ ProcessOnly

(* settle_completed_intent_unlocked: a settled work over every event of the *)
(* turn, still authorised, consumes its request.                            *)
Covers(id, p) ==
    /\ id.o # None /\ << id.s, id.t >> = p
    /\ works[id].state = "settled" /\ works[id].result = "completed"
    /\ works[id].events = heard[p] /\ works[id].new = heard[p]
Consumed(id) ==
    IF Covers(id, << id.s, id.t >>) /\ Authorised(id.s, id.t, id.o) THEN {<< id.o, id.t >>} ELSE {}

(* A pass of the worker: _snapshot settles what a crash left, then it takes *)
(* a turn that is neither decided nor refused.                              *)
Refused(s, t) ==
    \/ ~Allowed(s, t)
    \/ LET id == AutomaticId(s, t) IN
           \/ Terminal(id) /\ runs[id].status # "completed"
           \/ ~Known(id) /\ entries[<< s, t >>] # None /\ entries[<< s, t >>].events = heard[<< s, t >>]
Decided(s, t) ==
    LET id == AutomaticId(s, t) IN
    IF Terminal(id) THEN runs[id].status = "completed"
    ELSE ~Known(id) /\ entries[<< s, t >>] # None
         /\ entries[<< s, t >>].events = heard[<< s, t >>] /\ ~entries[<< s, t >>].deferred

Left == UNION {Consumed(id) : id \in DOMAIN works}

Pick(s, t) ==
    /\ Idle(Worker) /\ owner = None /\ heard[<< s, t >>] # {} /\ Use("passes")
    /\ pending' = pending \ Left
    /\ IF Decided(s, t) \/ Refused(s, t) THEN UNCHANGED job
       ELSE Work(Worker, [s |-> s, t |-> t, at |-> "look", origin |-> None, id |-> None, refs |-> {}])
    /\ UNCHANGED runVars /\ ProcessOnly

(* complete_for_captured_turn: a request bound to the turn goes first; an   *)
(* error in binding ends the turn's row.                                    *)
Look ==
    /\ At(Worker, "look")
    /\ LET s == job[Worker].s  t == job[Worker].t IN
       Work(Worker, IF ~Bindable(s, t) THEN None
                    ELSE IF Asked(s, t) = {} THEN Next1(Worker, "auto") ELSE Next1(Worker, "bind"))
    /\ Unused /\ UNCHANGED pending /\ UNCHANGED runVars /\ ProcessOnly

(* After a request that took the worker's whole turn there is nothing left  *)
(* to do; after one that did not the worker goes on with its own run.       *)
Retained(p, status, id) ==
    IF p = Worker /\ status = "completed" /\ ~Covers(id, << id.s, id.t >>) THEN "auto" ELSE "end"
After(p, where) == IF where = "end" THEN None ELSE [Next1(p, where) EXCEPT !.id = None]

(* remember_turn "complete": one lock binds the request, checks its path,   *)
(* and fixes the events it is about.                                        *)
Bind(p) ==
    /\ At(p, "bind")
    /\ LET s == job[p].s  t == job[p].t IN
       IF ~Bindable(s, t) \/ Asked(s, t) = {} \/ ~Allowed(s, t) THEN Work(p, None)
       ELSE \E o \in Asked(s, t) :
            LET id == ExplicitId(s, o, t) IN
            IF \/ ~Authorised(s, t, o)
               \/ \E r \in DOMAIN runs : r.o = o /\ r.t = t /\ r.s # s
            THEN Work(p, None)
            ELSE IF Terminal(id) /\ runs[id].status # "completed" THEN Work(p, None)
            ELSE Work(p, [job[p] EXCEPT !.at = IF Terminal(id) THEN "pop" ELSE "start",
                          !.origin = o, !.id = id, !.refs = heard[<< s, t >>]])
    /\ Unused /\ UNCHANGED pending /\ UNCHANGED runVars /\ ProcessOnly

(***************************************************************************)
(* The run and its commit.                                                 *)
(***************************************************************************)

NewRun(id, refs) ==
    [status |-> "ready", events |-> heard[<< id.s, id.t >>], refs |-> refs]

(* admit_unlocked: the request is still pending, bound to this turn, free   *)
(* of other runs, and its path is authorised: in the lock that creates it.  *)
Admitted(id) ==
    \/ id.o = None
    \/ /\ Bindable(id.s, id.t) /\ Asked(id.s, id.t) = {id.o}
       /\ Authorised(id.s, id.t, id.o)
       /\ \A r \in DOMAIN runs : r.o = id.o /\ r.t = id.t => r = id

(* A mutant of Free below, which looks at works and runs only.              *)
FreeUndecided(id) ==
    LET p == << id.s, id.t >> IN
    /\ \A w \in DOMAIN works : << w.s, w.t >> = p =>
          works[w].state = "settled" /\ ~(id.o = None /\ w.o = None /\ works[w].events = heard[p])
    /\ \A r \in DOMAIN runs : << r.s, r.t >> = p => runs[r].status \in Closed

(* No other run or unsettled commit owns the turn, and an automatic run     *)
(* does not take a decided revision again.                                  *)
Free(id) ==
    LET p == << id.s, id.t >> IN
    /\ id.o = None => entries[p] = None \/ entries[p].events # heard[p]
    /\ \A w \in DOMAIN works : << w.s, w.t >> = p =>
          works[w].state = "settled" /\ ~(id.o = None /\ w.o = None /\ works[w].events = heard[p])
    /\ \A r \in DOMAIN runs : << r.s, r.t >> = p => runs[r].status \in Closed

Create(id, refs) ==
    /\ runs' = [r \in DOMAIN runs \cup {id} |-> IF r = id THEN NewRun(id, refs) ELSE runs[r]]
    /\ owner' = id

(* run_incremental and the ownership of resume_incremental_run.             *)
Enter(p, id, refs) ==
    /\ IF owner # None THEN Work(p, None) /\ UNCHANGED runVars
       ELSE IF Known(id)
       THEN IF runs[id].refs # refs THEN Work(p, None) /\ UNCHANGED runVars
            ELSE IF Terminal(id)
            THEN /\ Work(p, IF runs[id].status = "completed" THEN [Next1(p, "pop") EXCEPT !.id = id] ELSE None)
                 /\ UNCHANGED runVars
            ELSE /\ owner' = id /\ Work(p, [Next1(p, "drive") EXCEPT !.id = id])
                 /\ UNCHANGED << runs, works, entries >>
       ELSE IF Admitted(id) /\ Allowed(id.s, id.t) /\ Free(id) /\ refs \subseteq heard[<< id.s, id.t >>]
       THEN Create(id, refs) /\ Work(p, [Next1(p, "drive") EXCEPT !.id = id]) /\ UNCHANGED << works, entries >>
       ELSE Work(p, None) /\ UNCHANGED runVars
    /\ Unused /\ UNCHANGED pending /\ ProcessOnly

Start(p) == At(p, "start") /\ Enter(p, job[p].id, job[p].refs)
Auto ==
    /\ At(Worker, "auto")
    /\ LET id == AutomaticId(job[Worker].s, job[Worker].t) IN Enter(Worker, id, id.events)

Driven(p) == IF At(p, "drive") THEN job[p].id ELSE None
Run(p) == runs[Driven(p)]
Drives(p, statuses) == At(p, "drive") /\ Run(p).status \in statuses
Became(p, status) == runs' = [runs EXCEPT ![Driven(p)].status = status]
Committed(id) == id \in DOMAIN works

(* The path of a request, and the user's leave for the turn itself.         *)
Permitted(id) ==
    /\ id.o # None => Authorised(id.s, id.t, id.o)
    /\ Allowed(id.s, id.t)
(* _check_sources, _source_valid: nothing the run was planned from changed. *)
Unchanged(id) == Permitted(id) /\ runs[id].events = heard[<< id.s, id.t >>]

(* The end of an invocation: the owner lets go, and the caller reads how it *)
(* went.                                                                    *)
Ended(p, status) ==
    /\ Became(p, status) /\ owner' = None
    /\ Work(p, IF Driven(p).o # None
               THEN (IF status = "completed" THEN Next1(p, "pop") ELSE None)
               ELSE None)

Block(p) ==
    /\ Drives(p, {"ready", "asked", "answered"}) /\ ~Committed(Driven(p)) /\ ~Unchanged(Driven(p))
    /\ Ended(p, "blocked")
    /\ Unused /\ UNCHANGED << pending, works, entries >> /\ ProcessOnly

Dispatch(p) ==
    /\ Drives(p, {"ready"}) /\ ~Committed(Driven(p)) /\ Unchanged(Driven(p))
    /\ Became(p, "asked")
    /\ Unused /\ UNCHANGED << job, owner, pending, works, entries >> /\ ProcessOnly

Answer(p) ==
    /\ Drives(p, {"asked"})
    /\ \/ Became(p, "answered") /\ Unused /\ UNCHANGED << job, owner >>
       \/ Use("failures") /\ Ended(p, "failed")
    /\ UNCHANGED << pending, works, entries >> /\ ProcessOnly

(* A run whose first answer was lost with its process asks again.           *)
Again(p) ==
    /\ Drives(p, {"lost"}) /\ Became(p, "ready")
    /\ Unused /\ UNCHANGED << job, owner, pending, works, entries >> /\ ProcessOnly

Prepared(id) == [events |-> runs[id].events, new |-> runs[id].refs, state |-> "prepared",
                 wrote |-> FALSE, result |-> "unresolved"]

(* _settle_source: only an automatic work, or a request over the whole turn *)
(* of a source that still holds, decides the turn.                          *)
Whole(w, p) == w.new = heard[p] /\ w.events = heard[p]
Entry(id, w, valid, result) ==
    LET p == << id.s, id.t >> IN
    IF id.o # None /\ ~(valid /\ Whole(w, p)) THEN entries
    ELSE [entries EXCEPT ![p] =
            [events |-> IF valid THEN w.new ELSE IF @ = None THEN {} ELSE @.events,
             deferred |-> ~(valid /\ result = "completed")]]

(* The receipt, the entry and the request are settled in one write.         *)
Settled(id, w, valid, result) ==
    LET new == [w EXCEPT !.state = "settled", !.result = result, !.wrote = @ \/ valid] IN
    /\ works' = [i \in DOMAIN works \cup {id} |-> IF i = id THEN new ELSE works[i]]
    /\ entries' = Entry(id, w, valid, result)
    /\ pending' = IF valid /\ id.o # None /\ result = "completed" /\ Whole(w, << id.s, id.t >>)
                  THEN pending \ {<< id.o, id.t >>} ELSE pending

(* apply_incremental, in one lock.                                          *)
Apply(p) ==
    /\ Drives(p, {"answered"}) /\ ~Committed(Driven(p)) /\ Unchanged(Driven(p))
    /\ \E result \in {"completed", "unresolved"} : Settled(Driven(p), Prepared(Driven(p)), TRUE, result)
    /\ Unused /\ UNCHANGED << runs, job, owner >> /\ ProcessOnly

(* resume_incremental: a commit that was cut short is settled by what it    *)
(* finds; a request whose path no longer holds is refused.                  *)
Resume(p) ==
    /\ At(p, "drive") /\ Committed(Driven(p)) /\ works[Driven(p)].state = "prepared"
    /\ LET id == Driven(p)  w == works[id] IN
       IF id.o # None /\ ~Authorised(id.s, id.t, id.o)
       THEN Ended(p, "blocked") /\ UNCHANGED << pending, works, entries >>
       ELSE /\ \E result \in {"completed", "unresolved"} :
                 /\ result = "completed" => Unchanged(id) \/ w.wrote
                 /\ Settled(id, w, Unchanged(id), result)
            /\ UNCHANGED << runs, job, owner >>
    /\ Unused /\ ProcessOnly

Finish(p) ==
    /\ At(p, "drive") /\ Committed(Driven(p)) /\ works[Driven(p)].state = "settled"
    /\ Run(p).status \notin Closed
    /\ Ended(p, works[Driven(p)].result)
    /\ Unused /\ UNCHANGED << pending, works, entries >> /\ ProcessOnly

(* A request whose run completed is no longer pending.                      *)
Pop(p) ==
    /\ At(p, "pop")
    /\ pending' = pending \ {<< job[p].origin, job[p].t >>}
    /\ Work(p, After(p, Retained(p, "completed", job[p].id)))
    /\ Unused /\ UNCHANGED runVars /\ ProcessOnly

(* A process dies, also between the writes of a commit.                     *)
Crash(p) ==
    /\ ~Idle(p) /\ Use("crashes") /\ Work(p, None)
    /\ owner' = IF Driven(p) # None THEN None ELSE owner
    /\ \/ UNCHANGED << runs, works, entries >>
       \/ /\ Drives(p, {"asked"}) /\ Became(p, "lost") /\ UNCHANGED << works, entries >>
       \/ /\ Drives(p, {"answered"}) /\ ~Committed(Driven(p)) /\ Unchanged(Driven(p))
          /\ \E wrote \in BOOLEAN :
               works' = [i \in DOMAIN works \cup {Driven(p)} |->
                          IF i = Driven(p) THEN [Prepared(i) EXCEPT !.wrote = wrote] ELSE works[i]]
          /\ UNCHANGED << runs, entries >>
    /\ UNCHANGED pending /\ ProcessOnly

(***************************************************************************)
(* The specification.                                                      *)
(***************************************************************************)

NoUse == [requests |-> 0, captures |-> 0, revisions |-> 0, controls |-> 0, links |-> 0,
          calls |-> 0, passes |-> 0, failures |-> 0, crashes |-> 0]

Init ==
    /\ load \in Loads /\ used = NoUse
    /\ parent = load.parent /\ off = {} /\ hidden = {} /\ slipped = {}
    /\ heard = [p \in Places |-> {}] /\ pending = {}
    /\ runs = << >> /\ works = << >> /\ entries = [p \in Places |-> None]
    /\ owner = None /\ job = [p \in Processes |-> None]

HostStep ==
    \/ \E << s, t >> \in load.where :
          \/ Queue(s, t) \/ Capture(s, t) \/ Revise(s, t) \/ Hide(s, t) \/ SwitchOff(s, t)
          \/ Complete(s, t)
    \/ \E s \in Sessions : SwitchOn(s) \/ Reset(s)
    \/ \E s \in load.linking, o \in Sessions : Link(s, o)

ProcessStep(p) ==
    \/ Bind(p) \/ Start(p) \/ Block(p) \/ Dispatch(p) \/ Answer(p) \/ Again(p)
    \/ Apply(p) \/ Resume(p) \/ Finish(p) \/ Pop(p) \/ Crash(p)

Next ==
    \/ HostStep
    \/ \E << s, t >> \in load.where : Pick(s, t)
    \/ Look \/ Auto
    \/ \E p \in Processes : ProcessStep(p)

Spec == Init /\ [][Next]_vars

(***************************************************************************)
(* What a request may count on.                                            *)
(***************************************************************************)

(* A queued request is given up only for a run of it whose commit completed *)
(* (host_retention.py:154, 163).                                            *)
KeptUntilSaved ==
    [][\A q \in pending \ pending' :
         \E id \in DOMAIN works' : /\ id.o = q[1] /\ id.t = q[2]
                                   /\ works'[id].state = "settled" /\ works'[id].result = "completed"]_vars

(* One request is one run with one allowance, whatever sessions continue    *)
(* the one it was made in (host_retention.py:79, 132).                      *)
OneRunEach ==
    \A a, b \in DOMAIN runs : a.o # None /\ a.o = b.o /\ a.t = b.t => a = b

Asking(id) == runs'[id].status = "asked" /\ (id \in DOMAIN runs => runs[id].status # "asked")
Writing(id) == id \in DOMAIN works' /\ works'[id].wrote /\ (id \in DOMAIN works => ~works[id].wrote)

(* Once any session between the request and its turn is private, its run is *)
(* neither created nor sent to a model, and writes no memory                *)
(* (host_retention.py:50, incremental_commit.py:156).                       *)
RevokedStays ==
    [][\A id \in DOMAIN runs' :
         /\ id.o # None /\ (id \notin DOMAIN runs \/ Asking(id) \/ Writing(id))
         => \A x \in Path(id.s, id.o) : << x, id.t >> \notin hidden /\ x \notin off]_vars

(* The same events are not derived twice, once for the request and once     *)
(* automatically (host_retention.py:201, incremental_execution.py:152);     *)
(* a line that changed after the capture is not covered.                    *)
Derived(id) == id \in DOMAIN works /\ works[id].state = "settled" /\ works[id].wrote /\ works[id].result = "completed"
DerivedOnce ==
    \A a, b \in DOMAIN works :
        /\ Derived(a) /\ Derived(b) /\ a # b
        /\ << a.s, a.t >> = << b.s, b.t >> /\ << a.s, a.t >> \notin slipped
        => works[a].events # works[b].events \/ works[a].new # works[b].new

(* The worker pays for no automatic run of a turn while a request for it    *)
(* waits (processing_route.py:246).                                         *)
RequestFirst ==
    [][\A id \in DOMAIN runs' \ DOMAIN runs :
         id.o = None /\ << id.s, id.t >> \notin slipped => Asked(id.s, id.t) = {}]_vars

RetentionHolds ==
    /\ KeptUntilSaved /\ RevokedStays /\ RequestFirst
    /\ [](OneRunEach /\ DerivedOnce)
=============================================================================
