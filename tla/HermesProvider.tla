--------------------------- MODULE HermesProvider ---------------------------
(***************************************************************************)
(* The memory provider inside Hermes (hermes_provider/_provider.py and     *)
(* _mcp_client.py).  Hermes rotates the physical session when it           *)
(* compresses a conversation; the provider links the child to its parent   *)
(* in the core, captures every turn that ends (sync_turn) and asks the     *)
(* core to process its session in the background.  Each call of the core   *)
(* may fail, before or after it took effect.                               *)
(***************************************************************************)
EXTENDS Naturals, Sequences, FiniteSets

CONSTANTS
    Sessions,
    Turns,        \* turns of the conversation, numbered from 1
    None,
    Loads,        \* bounds of a behaviour: turns, fails (calls that fail and
                  \* workers that die), jobs, and switches in the order of their kinds
    MaxKept       \* _MAX_SESSION_ALIASES and _MAX_DEFERRED_PROCESS_SESSIONS

VARIABLES
    cur,          \* _session_id
    aliases,      \* session -> the session that continues it
    links,        \* _pending_lineage: links the core has not confirmed, in order
    deferred,     \* _deferred_process_sessions
    jobOf,        \* _process_jobs_by_session
    sync,         \* the sync_turn that runs, under _sync_lock from "begin" on
    rpc,          \* the session_lineage call of the last switch, outside the lock
    told,         \* session -> the session Hermes named as its parent (history)
    parent,       \* session -> the parent the core has on file
    jobs,         \* background jobs of the core
    inbox,        \* turn -> the session it was captured in
    processed,    \* turns that were processed
    given,        \* turn -> the session in which Hermes began it
    acked,        \* turns whose capture the provider saw succeed (history)
    dropped,      \* sessions dropped by a switch, or turned away by a full set
    unlinked,     \* children whose pending link was dropped (history)
    fails, switches, load

vars == << cur, aliases, links, deferred, jobOf, sync, rpc, told, parent, jobs, inbox,
           processed, given, acked, dropped, unlinked, fails, switches, load >>
core == << parent, jobs, processed >>
host == << cur, aliases, rpc, told, switches, load >>

MAX_LINEAGE_RETRIES == 2

Idle == [at |-> "idle", turn |-> 0, session |-> None, ready |-> FALSE,
         left |-> {}, of |-> None]
Quiet == [at |-> "quiet", child |-> None, parent |-> None]

Init ==
    /\ cur = CHOOSE s \in Sessions : TRUE
    /\ aliases = [s \in Sessions |-> None] /\ links = << >>
    /\ deferred = {} /\ jobOf = [s \in Sessions |-> 0]
    /\ sync = Idle /\ rpc = Quiet
    /\ told = [s \in Sessions |-> None] /\ parent = told
    /\ jobs = << >> /\ inbox = [t \in Turns |-> None] /\ processed = {}
    /\ given = inbox /\ acked = {} /\ dropped = {} /\ unlinked = {}
    /\ fails = 0 /\ switches = 0 /\ load \in Loads

(* _canonical_session_id: aliases never form a cycle, see AliasesEnd.      *)
Canonical[s \in Sessions] == LET Follow[n \in 0..Cardinality(Sessions)] ==
                                     IF n = 0 THEN s
                                     ELSE IF aliases[Follow[n - 1]] = None THEN Follow[n - 1]
                                     ELSE aliases[Follow[n - 1]]
                             IN Follow[Cardinality(Sessions)]

(* The client ends the server it talks to with the first call that fails,  *)
(* so that no late answer is taken for that of another call.               *)
Fail == fails < load.fails /\ fails' = fails + 1

(* A call of the core: it takes effect and is answered, it fails, or it    *)
(* takes effect and its answer is lost.                                    *)
Call(effect, none, ok, failed) ==
    \/ effect /\ ok /\ UNCHANGED fails
    \/ Fail /\ (effect \/ none) /\ failed

(***************************************************************************)
(* on_session_switch.                                                      *)
(***************************************************************************)

Fresh == {s \in Sessions \ (dropped \cup {cur}) : told[s] = None /\ \A k \in Sessions : told[k] # s}

(* sync_turn takes _sync_lock once it has resolved its session. *)
Unlocked == sync.at \in {"idle", "resolved"}

(* _migrate_session_state *)
Migrate(old, new) ==
    /\ aliases' = [aliases EXCEPT ![old] = new]
    /\ jobOf' = IF jobOf[old] = 0 THEN jobOf
                ELSE [jobOf EXCEPT ![old] = 0, ![new] = jobOf[old]]

Switch(kind) ==
    /\ switches < Len(load.switches) /\ load.switches[switches + 1] = kind
    /\ switches' = switches + 1 /\ UNCHANGED load

(* Compression: the child continues the current session.                   *)
SwitchOn(new) ==
    /\ Unlocked /\ rpc = Quiet
    /\ Switch("compression")
    /\ new \in Fresh
    /\ Migrate(cur, new)
    /\ cur' = new
    /\ told' = [told EXCEPT ![new] = cur]
    /\ rpc' = [at |-> "check", child |-> new, parent |-> cur]
    /\ UNCHANGED << links, deferred, sync, core, inbox, given, acked, dropped, unlinked, fails >>

Children == {links[k].child : k \in 1..Len(links)}

(* _drop_session_aliases: every alias of a chain that reaches one of them. *)
Chain(targets) ==
    {s \in Sessions : aliases[s] # None /\ Canonical[s] \in {Canonical[t] : t \in targets}}

(* A reset or rewind (the link of the new session is cleared), or another  *)
(* conversation, to which Hermes may come back.                            *)
SwitchAway(new, reset) ==
    /\ Unlocked /\ rpc = Quiet
    /\ Switch(IF reset THEN "reset" ELSE "resume")
    /\ new # cur
    /\ links' = << >> /\ deferred' = {}
    /\ dropped' = dropped \cup deferred \cup {cur}
    /\ unlinked' = unlinked \cup Children
    /\ cur' = new
    /\ aliases' = IF reset THEN [s \in Sessions |-> IF s \in Chain({cur, new}) THEN None ELSE aliases[s]]
                  ELSE aliases
    /\ told' = IF reset THEN [told EXCEPT ![new] = None] ELSE told
    /\ rpc' = IF reset THEN [at |-> "check", child |-> new, parent |-> None] ELSE Quiet
    /\ UNCHANGED << jobOf, sync, core, inbox, given, acked, fails >>

(* _remember_pending_lineage *)
Remember(attempts) ==
    IF Len(links) < MaxKept
    THEN links' = Append(links, [child |-> rpc.child, parent |-> rpc.parent, attempts |-> attempts])
         /\ UNCHANGED unlinked
    ELSE unlinked' = unlinked \cup {rpc.child} /\ UNCHANGED links

(* A link behind one that is pending waits for its turn. *)
CheckPending ==
    /\ rpc.at = "check" /\ Unlocked
    /\ rpc' = [rpc EXCEPT !.at = IF links = << >> THEN "call" ELSE "queue"]
    /\ UNCHANGED << cur, aliases, links, deferred, jobOf, sync, told, core, inbox, given, acked,
                    dropped, unlinked, fails, switches, load >>

(* service.session_lineage: a session keeps the first parent it was given. *)
Accepts(child, of) == of = None \/ parent[child] \in {None, of}
Link(child, of) == parent' = [parent EXCEPT ![child] = of]

LinkCall ==
    /\ rpc.at = "call"
    /\ IF Accepts(rpc.child, rpc.parent)
       THEN Call(Link(rpc.child, rpc.parent), UNCHANGED parent,
                 rpc' = Quiet, rpc' = [rpc EXCEPT !.at = "remember"])
       ELSE rpc' = [rpc EXCEPT !.at = "remember"] /\ UNCHANGED << parent, fails >>
    /\ UNCHANGED << cur, aliases, links, deferred, jobOf, sync, told, jobs, processed, inbox,
                    given, acked, dropped, unlinked, switches, load >>

RememberLink ==
    /\ rpc.at \in {"queue", "remember"} /\ Unlocked
    /\ Remember(IF rpc.at = "queue" THEN 0 ELSE 1) /\ rpc' = Quiet
    /\ UNCHANGED << cur, aliases, deferred, jobOf, sync, told, core, inbox, given, acked,
                    dropped, fails, switches, load >>

(***************************************************************************)
(* sync_turn.  Hermes began the turn in the session that was current then. *)
(***************************************************************************)

Quietly == UNCHANGED << host, given, unlinked >>

BeginTurn(t) ==
    /\ t <= load.turns /\ given[t] = None /\ rpc = Quiet
    /\ \A k \in Turns : k < t => given[k] # None
    /\ given' = [given EXCEPT ![t] = cur]
    /\ UNCHANGED << host, links, deferred, jobOf, sync, core, inbox, acked, dropped, unlinked, fails >>

Resolve(t) ==
    /\ sync = Idle /\ given[t] # None /\ inbox[t] = None
    /\ \A k \in Turns : k < t /\ given[k] = given[t] => inbox[k] # None
    /\ sync' = [Idle EXCEPT !.at = "resolved", !.turn = t, !.session = Canonical[given[t]]]
    /\ UNCHANGED << links, deferred, jobOf, core, inbox, acked, dropped, fails >> /\ Quietly

Enter ==
    /\ sync.at = "resolved"
    /\ sync' = [sync EXCEPT !.at = "lineage"]
    /\ UNCHANGED << links, deferred, jobOf, core, inbox, acked, dropped, fails >> /\ Quietly

To(place) == sync' = [sync EXCEPT !.at = place]
LineageReady(yes) == sync' = [sync EXCEPT !.at = "capture", !.ready = yes]

(* The last pending link is that of the session, and the first may still   *)
(* be tried.                                                               *)
Retriable ==
    links[Len(links)].child = sync.session /\ links[1].attempts <= MAX_LINEAGE_RETRIES

Again == [links EXCEPT ![1].attempts = @ + 1]

(* _retry_pending_lineage, one link at a time *)
RetryPendingLineage ==
    /\ sync.at = "lineage"
    /\ \/ links = << >> /\ LineageReady(TRUE) /\ UNCHANGED << links, parent, fails >>
       \/ links # << >> /\ ~Retriable /\ LineageReady(FALSE) /\ UNCHANGED << links, parent, fails >>
       \/ /\ links # << >> /\ Retriable
          /\ LET of == links[1].parent  child == links[1].child IN
             IF Accepts(child, of)
             THEN Call(Link(child, of), UNCHANGED parent,
                       links' = Tail(links) /\ UNCHANGED sync,
                       links' = Again /\ LineageReady(FALSE))
             ELSE links' = Again /\ LineageReady(FALSE) /\ UNCHANGED << parent, fails >>
    /\ UNCHANGED << deferred, jobOf, jobs, processed, inbox, acked, dropped >> /\ Quietly

(* _capture_visible of the texts of the turn; a failed one ends the sync.  *)
CaptureVisible ==
    /\ sync.at = "capture"
    /\ Call(inbox' = [inbox EXCEPT ![sync.turn] = sync.session], UNCHANGED inbox,
            acked' = acked \cup {sync.turn} /\ To(IF sync.ready THEN "others" ELSE "defer"),
            UNCHANGED acked /\ sync' = Idle)
    /\ UNCHANGED << links, deferred, jobOf, core, dropped >> /\ Quietly

(* _defer_process_session *)
Defer(s) ==
    IF s \in deferred \/ Cardinality(deferred) < MaxKept
    THEN deferred' = deferred \cup {s} /\ UNCHANGED dropped
    ELSE dropped' = dropped \cup {s} /\ UNCHANGED deferred

DeferSync ==
    /\ sync.at = "defer"
    /\ Defer(sync.session) /\ sync' = Idle
    /\ UNCHANGED << links, jobOf, core, inbox, acked, fails >> /\ Quietly

(* _process_deferred_sessions: the others first, then the session itself,  *)
(* for which a rerun is asked.                                             *)
ProcessDeferredSessions ==
    /\ sync.at = "others"
    /\ sync' = [sync EXCEPT !.at = "next", !.left = deferred \ {sync.session}]
    /\ UNCHANGED << links, deferred, jobOf, core, inbox, acked, dropped, fails >> /\ Quietly

Rerun == sync.of = sync.session

(* _process_session *)
ProcessSession ==
    /\ sync.at = "next"
    /\ \E s \in IF sync.left = {} THEN {sync.session} ELSE sync.left :
           sync' = [sync EXCEPT !.of = s, !.left = @ \ {s},
                                !.at = IF jobOf[s] = 0 THEN "enqueue" ELSE "poll"]
    /\ UNCHANGED << links, deferred, jobOf, core, inbox, acked, dropped, fails >> /\ Quietly

Done == sync' = IF Rerun THEN Idle ELSE [sync EXCEPT !.at = "next"]

(* Mutant: a job that failed or was deferred is over as well. *)
ConsumeAny(s, status) == deferred' = deferred \ {s} /\ UNCHANGED dropped

(* _consume_process_job *)
Consume(s, status) ==
    IF status = "succeeded" THEN deferred' = deferred \ {s} /\ UNCHANGED dropped
    ELSE Defer(s)

Poll ==
    LET s == sync.of  status == jobs[jobOf[s]].status IN
    /\ sync.at = "poll"
    /\ \/ /\ Fail
          /\ IF Rerun THEN To("enqueue") /\ UNCHANGED << deferred, dropped >>
             ELSE Defer(s) /\ Done
          /\ UNCHANGED jobOf
       \/ /\ status \in {"succeeded", "deferred", "failed"}
          /\ jobOf' = [jobOf EXCEPT ![s] = 0]
          /\ Consume(s, status)
          /\ IF Rerun THEN To("enqueue") ELSE Done
          /\ UNCHANGED fails
       \/ /\ status \in {"queued", "running", "lost"}
          /\ IF Rerun \/ status = "lost" THEN To("enqueue") /\ UNCHANGED << deferred, dropped >>
             ELSE Defer(s) /\ Done
          /\ UNCHANGED << jobOf, fails >>
    /\ UNCHANGED << links, core, inbox, acked >> /\ Quietly

(* The core keeps one unfinished job of a session; a request while it runs *)
(* asks for another turn of it, and revives one whose worker died.         *)
Unfinished(s) == {j \in 1..Len(jobs) : jobs[j].session = s /\ jobs[j].status \in {"queued", "running", "lost"}}

JobFor(s) == IF Unfinished(s) = {} THEN Len(jobs) + 1 ELSE CHOOSE j \in Unfinished(s) : TRUE

Start(s) ==
    jobs' = IF Unfinished(s) = {}
            THEN Append(jobs, [session |-> s, status |-> "queued", rerun |-> FALSE, read |-> {}])
            ELSE [jobs EXCEPT ![JobFor(s)] =
                    IF @.status = "running" THEN [@ EXCEPT !.rerun = TRUE]
                    ELSE [@ EXCEPT !.status = "queued"]]

(* _enqueue_process_job *)
EnqueueProcessJob ==
    LET s == sync.of IN
    /\ sync.at = "enqueue"
    /\ Unfinished(s) = {} => Len(jobs) < load.jobs
    /\ Call(Start(s), UNCHANGED jobs,
            jobOf' = [jobOf EXCEPT ![s] = JobFor(s)], UNCHANGED jobOf)
    /\ Defer(s)
    /\ Done
    /\ UNCHANGED << links, parent, processed, inbox, acked >> /\ Quietly

(* initialize, after a shutdown or without; the map of jobs is kept by it. *)
Initialize(new, after) ==
    /\ sync = Idle /\ rpc = Quiet /\ Switch(IF after THEN "shutdown" ELSE "initialize")
    /\ cur' = new /\ aliases' = [s \in Sessions |-> None]
    /\ links' = << >> /\ deferred' = {}
    /\ jobOf' = IF after THEN [s \in Sessions |-> 0] ELSE jobOf
    /\ dropped' = dropped \cup deferred \cup {cur}
    /\ unlinked' = unlinked \cup Children
    /\ UNCHANGED << sync, rpc, told, core, inbox, given, acked, fails >>

(***************************************************************************)
(* The background jobs of the core (ProcessJobs in brief).                 *)
(***************************************************************************)

Run(j) ==
    /\ jobs[j].status = "queued"
    /\ jobs' = [jobs EXCEPT ![j].status = "running", ![j].read =
                   {t \in Turns : inbox[t] = jobs[j].session} \ processed]
    /\ UNCHANGED << parent, processed >>

End(j) ==
    /\ jobs[j].status = "running"
    /\ \E status \in {"succeeded", "deferred", "failed", "lost"} :
        /\ IF status \in {"failed", "lost"} THEN Fail ELSE UNCHANGED fails
        /\ jobs' = [jobs EXCEPT ![j].read = {}, ![j].rerun = FALSE, ![j].status =
                       IF status # "lost" /\ jobs[j].rerun THEN "queued" ELSE status]
        /\ \E some \in SUBSET jobs[j].read :
            /\ status = "succeeded" => some = jobs[j].read
            /\ status \in {"failed", "lost"} => some = {}
            /\ status = "deferred" => some # jobs[j].read
            /\ processed' = processed \cup some
    /\ UNCHANGED parent

Core ==
    /\ \E j \in 1..Len(jobs) : (Run(j) /\ UNCHANGED fails) \/ End(j)
    /\ UNCHANGED << links, deferred, jobOf, sync, inbox, acked, dropped >> /\ Quietly

Next ==
    \/ \E s \in Sessions : SwitchOn(s)
    \/ \E s \in Sessions, b \in BOOLEAN : SwitchAway(s, b) \/ Initialize(s, b)
    \/ CheckPending \/ LinkCall \/ RememberLink
    \/ \E t \in Turns : BeginTurn(t) \/ Resolve(t)
    \/ Enter \/ RetryPendingLineage \/ CaptureVisible \/ DeferSync
    \/ ProcessDeferredSessions \/ ProcessSession \/ Poll \/ EnqueueProcessJob
    \/ Core

(***************************************************************************)
(* Properties.                                                             *)
(***************************************************************************)

(* "Keep that child captureable, but never process it until its parent     *)
(* link is confirmed": a session is enqueued only when the core has its    *)
(* parent, but for a child whose link is just being told or was dropped    *)
(* with a switch.                                                          *)
LinkedFirst ==
    \A s \in Sessions : jobs' # jobs /\ sync.at = "enqueue" /\ sync.of = s =>
        \/ parent[s] = told[s] \/ told[s] = None
        \/ s \in unlinked \/ rpc.child = s

(* "If the model is unavailable [...] the inbox is retained": between two  *)
(* syncs, a turn whose capture was confirmed and that is not processed     *)
(* belongs to the current session or to one that will be asked for again,  *)
(* or an unfinished job will read it.                                      *)
AllAsked ==
    sync = Idle => \A t \in acked \ processed :
        LET s == inbox[t] IN
        \/ s = cur \/ s \in deferred \/ s \in dropped
        \/ \E j \in Unfinished(s) : jobs[j].status = "queued" \/ t \in jobs[j].read \/ jobs[j].rerun

(* Following aliases always ends, at a session that nothing continues.     *)
AliasesEnd == \A s \in Sessions : aliases[Canonical[s]] = None

(* The provider of Hermes, in every step. *)
ProviderHolds == [][LinkedFirst /\ (AllAsked /\ AliasesEnd)']_vars

Spec == Init /\ [][Next]_vars
=============================================================================
