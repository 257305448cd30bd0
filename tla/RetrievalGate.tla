--------------------------- MODULE RetrievalGate ---------------------------
(***************************************************************************)
(* One session of a host that runs memleaf in its hooks (retrieval_gate.py,*)
(* host_runtime.py, host_events.py).  A turn has to search, or to walk the *)
(* directory of actions to its end, before its answer counts as checked;   *)
(* otherwise the Stop hook sends the host back with a synthetic prompt.    *)
(* An identifier <<t, n>> is the host's name of the n-th prompt of turn t: *)
(* <<t, 0>> is the user's, the others are synthetic.                       *)
(***************************************************************************)
EXTENDS Naturals, Sequences, FiniteSets, SequencesExt

CONSTANTS
    Turns,        \* how many turns the user may begin
    Pages,        \* pages of the directory of actions; page c has cursor c - 1
    Filters,
    Loads         \* bounds of a behaviour: turns, tool calls, gates that expire, filters

VARIABLES
    gates,        \* identifier -> gate
    order,        \* identifiers of the gates in the order of their creation
    hook,         \* identifier -> where the hooks of that prompt are
    calls,        \* tool calls in the order they were made
    inbox,        \* captured messages << role, identifier, prompt >>, in their order
    pending,      \* process_pending of the session
    closed,       \* turns whose run is over, well or not, or waits for a recovery that the
                  \* user has to ask for: no processing takes them up of itself
    walk,         \* identifier -> pages of the last walk, in the order observed (history)
    load,
    expired,      \* turns of which a gate expired (history)
    unseen        \* ready turns that the Stop that wrote the flag did not see (history)

vars == << gates, order, hook, calls, inbox, pending, closed, walk,
           load, expired, unseen >>
history == << load, expired, unseen >>

MAX_GATE_RETRIES == 2
Ids == (1..Turns) \X (0..MAX_GATE_RETRIES)
Statuses == {"NOT_SEARCHED", "FOUND", "NO_MATCH", "ERROR", "DEGRADED"}

NoGate == [live |-> FALSE]

NewGate == [live |-> TRUE, status |-> "NOT_SEARCHED", retries |-> 0, waiting |-> FALSE,
            marker |-> 0, aliases |-> {}, seen |-> {}, more |-> FALSE, filter |-> "",
            next |-> 0]

Idle == [at |-> "idle", gate |-> << 0, 0 >>, as |-> << 0, 0 >>, degraded |-> FALSE, turns |-> {},
         left |-> {}, seen |-> {}, marker |-> << >>]
Ended == [Idle EXCEPT !.at = "ended"]

Init ==
    /\ gates = [i \in Ids |-> NoGate] /\ order = << >>
    /\ hook = [i \in Ids |-> Idle] /\ calls = << >>
    /\ inbox = << >> /\ pending = FALSE /\ closed = {}
    /\ walk = [i \in Ids |-> << >>]
    /\ load \in Loads /\ expired = {} /\ unseen = {}

Live(i) == gates[i].live
At(i, place) == hook[i].at = place
Go(i, place) == hook' = [hook EXCEPT ![i].at = place]

(* find_turn: by its own name or by an alias; at most one gate. *)
GatesOf(i) == {g \in Ids : Live(g) /\ (g = i \/ i \in gates[g].aliases)}

(* _is_current_entry *)
Newest(g) ==
    Live(g) /\ \A k \in 1..Len(order) :
        Live(order[k]) => \E j \in k..Len(order) : order[j] = g

(***************************************************************************)
(* UserPromptSubmit: open_turn.                                            *)
(***************************************************************************)

Submit(t) ==
    /\ t <= load.turns /\ At(<< t, 0 >>, "idle")
    /\ t > 1 => ~At(<< t - 1, 0 >>, "idle")
    /\ Go(<< t, 0 >>, "submitted")
    /\ UNCHANGED << gates, order, calls, inbox, pending, closed, walk, history >>

(* The host continues a turn it was sent back to. *)
Continue(i) ==
    /\ At(i, "blocked")
    /\ LET next == << i[1], i[2] + 1 >> IN
       hook' = [hook EXCEPT ![i] = Ended, ![next].at = "submitted",
                            ![next].marker = hook[i].marker]
    /\ UNCHANGED << gates, order, calls, inbox, pending, closed, walk, history >>

(* find_pending_continuation *)
Awaiting(marker) == {g \in Ids : Live(g) /\ gates[g].waiting /\ marker = << g, gates[g].marker >>}

Match(i) ==
    /\ At(i, "submitted")
    /\ IF Awaiting(hook[i].marker) # {}
       THEN \E g \in Awaiting(hook[i].marker) :
                hook' = [hook EXCEPT ![i].at = "matched", ![i].gate = g]
       ELSE Go(i, "open")
    /\ UNCHANGED << gates, order, calls, inbox, pending, closed, walk, history >>

(* bind_turn_alias, then consume_continuation *)
Bind(i) ==
    /\ At(i, "matched")
    /\ IF Live(hook[i].gate)
       THEN gates' = [gates EXCEPT ![hook[i].gate].aliases = @ \cup {i}] /\ Go(i, "bound")
       ELSE Go(i, "working") /\ UNCHANGED gates
    /\ UNCHANGED << order, calls, inbox, pending, closed, walk, history >>

Consume(i) ==
    /\ At(i, "bound")
    /\ gates' = IF Live(hook[i].gate) THEN [gates EXCEPT ![hook[i].gate].waiting = FALSE]
                ELSE gates
    /\ Go(i, "working")
    /\ UNCHANGED << order, calls, inbox, pending, closed, walk, history >>

(* open_retrieval_turn and the capture of the prompt as the user's text *)
Open(i) ==
    /\ At(i, "open")
    /\ IF GatesOf(i) = {}
       THEN /\ gates' = [gates EXCEPT ![i] = NewGate] /\ order' = Append(order, i)
            /\ walk' = [walk EXCEPT ![i] = << >>]
       ELSE UNCHANGED << gates, order, walk >>
    /\ inbox' = Append(inbox, << "user", i, i >>)
    /\ Go(i, "working")
    /\ UNCHANGED << calls, pending, closed, history >>

(***************************************************************************)
(* PreToolUse and the call itself, then PostToolUse, which may be repeated.*)
(***************************************************************************)

(* prepare_memory_tool binds the call to the gate; the server refuses one  *)
(* of another turn than the newest (validate_current_turn).                *)
Ask(i) ==
    /\ At(i, "working") /\ Len(calls) < load.calls
    /\ \E g \in GatesOf(i), kind \in {"search", "list_todos"}, filter \in load.filters,
          cursor \in 0..(Pages - 1), answer \in {"found", "no_match", "error"} :
        /\ kind = "search" => cursor = 0 /\ filter = CHOOSE f \in load.filters : TRUE
        /\ kind = "list_todos" => answer # "no_match"
        /\ ~Newest(g) => answer = "error"
        /\ calls' = Append(calls, [by |-> i, gate |-> g, kind |-> kind, filter |-> filter,
                                   cursor |-> cursor, answer |-> answer, posted |-> FALSE])
    /\ UNCHANGED << gates, order, hook, inbox, pending, closed, walk, history >>

StatusOf(answer) ==
    CASE answer = "found" -> "FOUND" [] answer = "no_match" -> "NO_MATCH" [] answer = "error" -> "ERROR"

Observed(gate, n) ==
    [gate EXCEPT !.status = StatusOf(calls[n].answer), !.seen = @ \cup {n}, !.waiting = FALSE]

ObserveSearch(n, g) ==
    /\ calls[n].kind = "search"
    /\ gates' = [gates EXCEPT ![g] = Observed(@, n)]
    /\ UNCHANGED walk

(* Mutant: whatever the filter of the walk. *)
ChainedByCursor(gate, call) ==
    IF call.cursor # 0 THEN gate.more /\ gate.next = call.cursor
    ELSE gate.more => gate.filter = call.filter

(* A cursor continues the walk that is on file; no cursor begins it again, *)
(* but no other walk may begin before this one has ended.                  *)
Chained(gate, call) ==
    IF call.cursor # 0
    THEN gate.more /\ gate.filter = call.filter /\ gate.next = call.cursor
    ELSE gate.more => gate.filter = call.filter

ObserveTodoList(n, g) ==
    LET call == calls[n]  more == call.cursor + 1 < Pages IN
    /\ call.kind = "list_todos" /\ Newest(g)
    /\ IF call.answer = "error"
       THEN gates' = [gates EXCEPT ![g] = Observed(@, n)] /\ UNCHANGED walk
       ELSE /\ Chained(gates[g], call)
            /\ gates' = [gates EXCEPT ![g] = [Observed(@, n) EXCEPT
                   !.filter = call.filter, !.more = more,
                   !.next = IF more THEN call.cursor + 1 ELSE 0]]
            /\ walk' = [walk EXCEPT ![g] =
                   Append(IF call.cursor = 0 THEN << >> ELSE @, << call.filter, call.cursor >>)]

(* The hooks of a call end before the prompt that made it.                 *)
Post(n) ==
    /\ At(calls[n].by, "working")
    /\ calls' = [calls EXCEPT ![n].posted = TRUE]
    /\ LET found == GatesOf(calls[n].by)  g == calls[n].gate IN
       IF g \in found /\ n \notin gates[g].seen
          /\ (calls[n].kind = "list_todos" => Newest(g)
                /\ (calls[n].answer # "error" => Chained(gates[g], calls[n])))
       THEN ObserveSearch(n, g) \/ ObserveTodoList(n, g)
       ELSE UNCHANGED << gates, walk >>
    /\ UNCHANGED << order, hook, inbox, pending, closed, history >>

(***************************************************************************)
(* Stop: complete_turn.                                                    *)
(***************************************************************************)

Unchecked(gate) == gate.status \in {"NOT_SEARCHED", "ERROR"} \/ gate.more

(* validate_turn, and what follows from the state it returned *)
Stop(i) ==
    /\ At(i, "working")
    /\ \A n \in 1..Len(calls) : calls[n].by = i => calls[n].posted
    /\ \/ /\ GatesOf(i) = {}
          /\ hook' = [hook EXCEPT ![i].at = "answer", ![i].degraded = TRUE, ![i].as = i]
       \/ \E g \in GatesOf(i) :
            hook' = [hook EXCEPT ![i].gate = g, ![i].as = g,
                ![i].degraded = gates[g].status = "DEGRADED",
                ![i].at = IF ~Unchecked(gates[g]) THEN "answer"
                          ELSE IF gates[g].retries < MAX_GATE_RETRIES THEN "retry"
                          ELSE "degrade"]
    /\ UNCHANGED << gates, order, calls, inbox, pending, closed, walk, history >>

(* request_gate_retry *)
Retry(i) ==
    /\ At(i, "retry")
    /\ LET g == hook[i].gate  n == gates[g].retries + 1 IN
       IF Live(g)
       THEN /\ gates' = [gates EXCEPT ![g].retries = n, ![g].waiting = TRUE, ![g].marker = n]
            /\ hook' = [hook EXCEPT ![i].at = "blocked", ![i].marker = << g, n >>]
       ELSE Go(i, "degrade") /\ UNCHANGED gates
    /\ UNCHANGED << order, calls, inbox, pending, closed, walk, history >>

(* mark_degraded *)
Degrade(i) ==
    /\ At(i, "degrade")
    /\ LET g == hook[i].gate IN
       gates' = IF Live(g) THEN [gates EXCEPT ![g].status = "DEGRADED", ![g].waiting = FALSE]
                ELSE gates
    /\ hook' = [hook EXCEPT ![i].at = "answer", ![i].degraded = TRUE]
    /\ UNCHANGED << order, calls, inbox, pending, closed, walk, history >>

Told == {inbox[n][2] : n \in DOMAIN inbox}
Said(t, role) == {n \in DOMAIN inbox : inbox[n][1] = role /\ inbox[n][2] = t}
Complete(t) == Said(t, "user") # {} /\ Cardinality(Said(t, "assistant")) = 1
Position(t) == SelectInSeq(inbox, LAMBDA m : m[2] = t)

(* _snapshot: the turns a processing takes up.  One that is incomplete     *)
(* bars those captured after it.                                           *)
Ready == {t \in Told \ closed : \A s \in Told : Position(s) <= Position(t) => Complete(s)}

(* capture_visible under the name of the turn that the gate was opened for;*)
(* without a text to capture, only the flag leads to a processing.         *)
Answer(i) ==
    /\ At(i, "answer")
    /\ \/ /\ hook' = [hook EXCEPT ![i] = [Ended EXCEPT !.at = "process"]]
          /\ inbox' = Append(inbox, << "assistant", hook[i].as, i >>)
       \/ /\ hook' = [hook EXCEPT ![i] = [Ended EXCEPT !.at = IF pending THEN "process" ELSE @]]
          /\ UNCHANGED inbox
    /\ UNCHANGED << gates, order, calls, pending, closed, walk, history >>

(* process_inbox takes up what is ready, or is refused a look: another     *)
(* process owns the engine, or a control record cannot be read.  Then it   *)
(* returns, with nothing to retry.                                         *)
Process(i) ==
    /\ At(i, "process")
    /\ \/ hook' = [hook EXCEPT ![i].at = "processing", ![i].turns = Ready]
       \/ Go(i, "clear")
    /\ UNCHANGED << gates, order, calls, inbox, pending, closed, walk, history >>

(* A turn is run.  It may also come to nothing that is on file: the model  *)
(* is unavailable or busy, or a saved answer or commit is to be resumed.   *)
RunTurn(i) ==
    /\ At(i, "processing")
    /\ \E t \in hook[i].turns :
        /\ hook' = [hook EXCEPT ![i].turns = @ \ {t}]
        /\ closed' \in {closed, closed \cup {t}}
    /\ UNCHANGED << gates, order, calls, inbox, pending, walk, history >>

(* Mutant: only a run that is on file is resumed.                          *)
RetryableRuns == {}
(* retryable_deferred_turns *)
Retryable == Ready

(* The batch is over, or breaks off; a second look counts what is left to  *)
(* retry, and counts nothing when it is refused.                           *)
Finish(i) ==
    /\ At(i, "processing")
    /\ \/ hook' = [hook EXCEPT ![i] = [Ended EXCEPT !.at = "clear", !.left = Retryable, !.seen = Ready]]
       \/ hook' = [hook EXCEPT ![i] = [Ended EXCEPT !.at = "clear"]]
    /\ UNCHANGED << gates, order, calls, inbox, pending, closed, walk, history >>

Raise(i) ==
    /\ hook[i].at \in {"process", "processing", "clear"}
    /\ hook' = [hook EXCEPT ![i] = [Ended EXCEPT !.at = "raise"]]
    /\ UNCHANGED << gates, order, calls, inbox, pending, closed, walk, history >>

(* _set_process_pending, which passes over a failure to write.             *)
SetProcessPending(i) ==
    /\ At(i, "clear") \/ At(i, "raise")
    /\ \/ /\ pending' = (At(i, "raise") \/ hook[i].left # {})
          /\ unseen' = IF pending' THEN {} ELSE Ready \ hook[i].seen
       \/ UNCHANGED pending /\ unseen' = unseen \cup Ready
    /\ hook' = [hook EXCEPT ![i] = Ended]
    /\ UNCHANGED << gates, order, calls, inbox, closed, walk, load, expired >>

(* _prune_entries: the life of the gate has passed, or 256 others are      *)
(* newer; either way it is the oldest.                                     *)
Expire(g) ==
    /\ Live(g) /\ Len(SelectSeq(order, LAMBDA i : ~Live(i))) < load.expiries
    /\ \E k \in 1..Len(order) : order[k] = g /\ \A j \in 1..(k - 1) : ~Live(order[j])
    /\ gates' = [gates EXCEPT ![g] = NoGate]
    /\ expired' = expired \cup {g[1]}
    /\ UNCHANGED << order, hook, calls, inbox, pending, closed, walk, load, unseen >>

Next ==
    \/ \E t \in 1..Turns : Submit(t)
    \/ \E n \in 1..Len(calls) : Post(n)
    \/ \E i \in Ids :
         \/ Continue(i) \/ Match(i) \/ Bind(i) \/ Consume(i) \/ Open(i)
         \/ Ask(i) \/ Stop(i) \/ Retry(i) \/ Degrade(i) \/ Answer(i)
         \/ Process(i) \/ RunTurn(i) \/ Finish(i) \/ Raise(i)
         \/ SetProcessPending(i) \/ Expire(i)

(***************************************************************************)
(* Properties.                                                             *)
(***************************************************************************)

(* "Continue memleaf list_todos with the returned next_cursor until        *)
(* has_more=false before answering": an answer that is let through and not *)
(* called degraded was searched for, and saw the last directory that was   *)
(* begun for it, every page of it once and in order.                       *)
CheckedAnswers ==
    \A i \in Ids : At(i, "working") /\ hook'[i].at = "answer" /\ ~hook'[i].degraded =>
        LET g == hook'[i].gate IN
        /\ \E n \in 1..Len(calls) : calls[n].gate = g /\ calls[n].posted /\ calls[n].answer # "error"
        /\ walk[g] = << >> \/ \E f \in Filters : walk[g] = [c \in 1..Pages |-> << f, c - 1 >>]

(* "Internal continuation prompts [...] are bound to the original          *)
(* retrieval turn and are never captured as business text" (open_turn),    *)
(* and the answer is captured with the user's text, unless the gate went.  *)
TurnsWhole ==
    \A m \in ToSet(inbox) : m[3][1] \notin expired => m[2] = << m[3][1], 0 >>

(* A turn that is ready is asked for by the flag, which the next Stop      *)
(* obeys.  Not so a turn that was not ready yet when the Stop that wrote   *)
(* the flag last looked, or while another process owned the engine and     *)
(* refused that Stop a look (host_runtime.py:455), or if the flag could not*)
(* be written: the next captured answer has to bring those back.           *)
AskedAgain ==
    (\A i \in Ids : hook[i].at \notin {"process", "processing", "clear", "raise"})
        => pending \/ Ready \subseteq unseen

(* The retrieval gate of a session, in every step. *)
GateHolds == [][CheckedAnswers /\ (TurnsWhole /\ AskedAgain)']_vars

Spec == Init /\ [][Next]_vars
=============================================================================
