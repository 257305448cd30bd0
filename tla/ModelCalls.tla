------------------------------ MODULE ModelCalls ------------------------------
(***************************************************************************)
(* One call of a model, below the run that pays for it (llm/base.py and the *)
(* three adapters, llm/thinking.py, incremental_execution.py from the       *)
(* dispatch on).  The threads of a process share one backend; what a call   *)
(* used is left with the backend and fetched by whoever called.  A reply is *)
(* reduced to what the adapters tell apart.  Which route a call takes is    *)
(* ModelRoute, what becomes of an answer is ModelRuns.                      *)
(***************************************************************************)
EXTENDS Naturals, Sequences

CONSTANTS
    Threads,
    Traits,       \* model -> [reasons, none, max, profile, version, floor, pro]
    MaxRequests,  \* requests of one run
    None,
    Scenes        \* [adapter, family, model, thinking, replies, active, most, shortenings, cancels]

VARIABLES
    usage,        \* thread -> what its last call of the backend used
    routed,       \* the same, of the router above the backend
    calls,        \* thread -> the call it waits for: [step, by, id]
    runs,         \* thread -> [status, attempts]; an attempt: [call, outcome, used]
    wire,         \* every request, in order: [by, asked, controls, reply]
    scene, spent

vars == << usage, routed, calls, runs, wire, scene, spent >>

Ids == 1..Len(wire)
NoUsage == [call |-> None, effective |-> None, source |-> None]

(***************************************************************************)
(* How much a model is asked to think.                                     *)
(***************************************************************************)

Efforts == << "disabled", "minimal", "low", "high", "max" >>
Rank(effort) == CHOOSE i \in DOMAIN Efforts : Efforts[i] = effort

(* The settings name four purposes; a review goes by the gate's.            *)
Requested(thinking, purpose) ==
    LET p == IF purpose = "semantic_review" THEN "gate" ELSE purpose IN
    IF p \in DOMAIN thinking THEN thinking[p] ELSE "low"

(* What goes into the payload, what it is said to do, and whether the       *)
(* temperature is left out.                                                 *)
Sent(effort, effective, omits) == [effort |-> effort, effective |-> effective, omits |-> omits]
Unasked(omits) == Sent(None, "provider_default", omits)
Unsupported(omits) == Sent(None, "unsupported", omits)

OpenAI(family, m, asked) ==
    IF asked = "default" THEN Unasked(FALSE)
    ELSE IF family = "deepseek" THEN Sent(asked, asked, asked # "disabled")
    ELSE IF family # "openai" \/ ~m.reasons THEN Unsupported(FALSE)
    ELSE IF asked = "disabled" /\ ~m.none THEN Unsupported(TRUE)
    ELSE IF asked = "max" /\ ~m.max THEN Sent("high", "high", TRUE)
    ELSE Sent(asked, asked, TRUE)

Claude(m, asked) ==
    LET omits == m.profile # "effort_only" IN
    CASE m.profile = "unsupported" -> Unsupported(FALSE)
      [] m.profile # "unsupported" /\ asked = "default" -> Unasked(omits)
      [] m.profile = "always_adaptive" /\ asked = "disabled" -> Sent("low", "low", omits)
      [] m.profile = "effort_only" /\ asked = "disabled" -> Sent("low", "disabled", omits)
      [] m.profile \in {"explicit_adaptive", "effort_only"} /\ asked = "max" -> Sent("high", "high", omits)
      [] OTHER -> Sent(asked, asked, omits)

Gemini(m, asked) ==
    CASE asked = "default" -> Unasked(m.version = 3)
      [] asked # "default" /\ m.version = 3 ->
            IF asked \in {"disabled", "low"} THEN Sent(m.floor, m.floor, TRUE) ELSE Sent("high", "high", TRUE)
      [] asked # "default" /\ m.version = 2 ->
            IF asked = "disabled" THEN IF m.pro THEN Sent("low", "low", FALSE) ELSE Sent("disabled", "disabled", FALSE)
            ELSE IF asked = "low" THEN Sent("low", "low", FALSE) ELSE Sent("high", "high", FALSE)
      [] OTHER -> Unsupported(FALSE)

Controls(asked) ==
    LET m == Traits[scene.model] IN
    CASE scene.adapter = "openai" -> OpenAI(scene.family, m, asked)
      [] scene.adapter = "claude" -> Claude(m, asked)
      [] OTHER -> Gemini(m, asked)

(***************************************************************************)
(* What a reply comes to.                                                  *)
(***************************************************************************)

Answer(reply) == reply.kind = "answer"

(* The transport's errors, by what it may tell: the status and no text.     *)
PostError(reply) ==
    CASE reply.kind = "http" -> IF reply.status \in {401, 403} THEN "model_auth_failed"
                                ELSE IF reply.status = 429 THEN "model_rate_limited" ELSE "model_http_error"
      [] reply.kind = "timeout" -> "model_timeout"
      [] reply.kind = "network" -> "model_network_error"
      [] OTHER -> "model_invalid_response"

(* Only the OpenAI adapter knows an answer that was cut.                    *)
Truncated(reply) == scene.adapter = "openai" /\ reply.finish = "length"
TextError(reply) == IF ~reply.shaped \/ Truncated(reply) \/ ~reply.text THEN "model_invalid_response" ELSE None
ErrorOf(reply) == IF Answer(reply) THEN TextError(reply) ELSE PostError(reply)

(* Asking for no reasoning is never reported as none while the reply        *)
(* contains some.                                                           *)
Observed(controls, reply) ==
    CASE reply.shaped /\ "content" \in reply.reasoning -> << "reasoning_observed", "reasoning_content" >>
      [] "tokens" \in reply.reasoning -> << "reasoning_observed", "reasoning_tokens" >>
      [] "zero" \in reply.reasoning -> << "no_reasoning_observed", "reasoning_tokens" >>
      [] OTHER -> << IF controls.effort = None THEN controls.effective ELSE "unknown", "unavailable" >>

UsageOf(id, controls, reply) ==
    LET seen == IF scene.adapter = "openai" THEN Observed(controls, reply)
                ELSE << controls.effective, IF controls.effort = None THEN "unavailable" ELSE "request_parameter" >> IN
    [call |-> IF reply.counted THEN id ELSE None, effective |-> seen[1], source |-> seen[2]]

Init ==
    \E s \in Scenes :
        /\ scene = s
        /\ usage = [t \in Threads |-> NoUsage] /\ routed = [t \in Threads |-> NoUsage]
        /\ calls = [t \in Threads |-> [step |-> "idle"]]
        /\ runs = [t \in Threads |-> [status |-> "prepared", attempts |-> << >>]]
        /\ wire = << >>
        /\ spent = [shortenings |-> 0, cancels |-> 0]

(***************************************************************************)
(* A call: the request goes out once, and its reply may be any.             *)
(***************************************************************************)

(* Each thread has what its own calls used. *)
Own(t) == t

Complete(t, by, purpose) ==
    LET asked == Requested(scene.thinking, purpose) IN
    /\ Len(wire) < scene.most
    /\ wire' = Append(wire, [by |-> by, asked |-> asked, controls |-> Controls(asked), reply |-> None])
    /\ calls' = [calls EXCEPT ![t] = [step |-> "sent", by |-> by, id |-> Len(wire) + 1]]

(* A run throws away what an earlier call left, and is charged before.      *)
Dispatch(t, purpose) ==
    /\ scene.adapter = "openai" /\ scene.family \in {"openai", "deepseek"}
    /\ calls[t].step = "idle"
    /\ runs[t].status \in {"prepared", "retryable"} /\ Len(runs[t].attempts) < MaxRequests
    /\ runs' = [runs EXCEPT ![t] = [status |-> "dispatching",
                                    attempts |-> Append(@.attempts, [call |-> Len(wire) + 1, outcome |-> "unknown", used |-> None])]]
    /\ Complete(t, "run", purpose)
    /\ usage' = [usage EXCEPT ![Own(t)] = NoUsage]
    /\ UNCHANGED << routed, scene, spent >>

(* A compaction through the router, or with a backend the caller gave.      *)
Shorten(t, by) ==
    /\ calls[t].step = "idle" /\ spent.shortenings < scene.shortenings
    /\ spent' = [spent EXCEPT !.shortenings = @ + 1]
    /\ Complete(t, by, "compact")
    /\ usage' = [usage EXCEPT ![Own(t)] = NoUsage]
    /\ UNCHANGED << routed, runs, scene >>

Reply(t, reply) ==
    /\ calls[t].step = "sent"
    /\ wire' = [wire EXCEPT ![calls[t].id].reply = reply]
    /\ calls' = [calls EXCEPT ![t].step = "answered"]
    /\ usage' = [usage EXCEPT ![Own(t)] =
                   IF Answer(reply) THEN UsageOf(calls[t].id, wire[calls[t].id].controls, reply) ELSE @]
    /\ UNCHANGED << routed, runs, scene, spent >>

(***************************************************************************)
(* The run, or whoever called, takes the result.                            *)
(***************************************************************************)

Transient == {"model_timeout", "model_rate_limited", "model_network_error", "model_invalid_response"}
RetryableStatuses == {408, 500, 502, 503, 504}
Retryable(reply, attempts) ==
    /\ \/ ErrorOf(reply) \in Transient
       \/ ErrorOf(reply) = "model_http_error" /\ reply.status \in RetryableStatuses
    /\ Len(attempts) < MaxRequests

(* The usage goes to the attempt that is the last, if the run still runs.   *)
Attempted(run, outcome, used) ==
    [run.attempts EXCEPT ![Len(run.attempts)] = [@ EXCEPT !.outcome = outcome, !.used = used]]
Recorded(run, reply, used) ==
    IF ErrorOf(reply) # None
    THEN [status |-> IF Retryable(reply, run.attempts) THEN "retryable" ELSE "failed",
          attempts |-> Attempted(run, ErrorOf(reply), used)]
    ELSE IF reply.big THEN [status |-> "retryable", attempts |-> Attempted(run, "invalid_response", used)]
    ELSE [status |-> "response_ready", attempts |-> Attempted(run, "response", used)]

Record(t) ==
    /\ calls[t].step = "answered" /\ calls[t].by = "run"
    /\ IF runs[t].status # "dispatching" THEN UNCHANGED runs
       ELSE runs' = [runs EXCEPT ![t] = Recorded(@, wire[calls[t].id].reply, usage[Own(t)].call)]
    /\ usage' = [usage EXCEPT ![Own(t)] = NoUsage]
    /\ calls' = [calls EXCEPT ![t] = [step |-> "idle"]]
    /\ UNCHANGED << routed, wire, scene, spent >>

Return(t) ==
    /\ calls[t].step = "answered" /\ calls[t].by # "run"
    /\ IF calls[t].by = "router"
       THEN /\ routed' = [routed EXCEPT ![Own(t)] = usage[Own(t)]]
            /\ usage' = [usage EXCEPT ![Own(t)] = NoUsage]
       ELSE UNCHANGED << routed, usage >>
    /\ calls' = [calls EXCEPT ![t] = [step |-> "idle"]]
    /\ UNCHANGED << runs, wire, scene, spent >>

(* Forget cancels the run, also while its answer is on the way.             *)
Cancel(t) ==
    /\ spent.cancels < scene.cancels /\ runs[t].status \in {"prepared", "dispatching", "retryable"}
    /\ spent' = [spent EXCEPT !.cancels = @ + 1]
    /\ runs' = [runs EXCEPT ![t].status = "cancelled"]
    /\ UNCHANGED << usage, routed, calls, wire, scene >>

Next ==
    \E t \in scene.active :
        \/ \E purpose \in {"single_pass", "semantic_review"} : Dispatch(t, purpose)
        \/ \E by \in {"router", "direct"} : Shorten(t, by)
        \/ \E reply \in scene.replies : Reply(t, reply)
        \/ Record(t) \/ Return(t) \/ Cancel(t)

Spec == Init /\ [][Next]_vars

(***************************************************************************)
(* Properties.                                                             *)
(***************************************************************************)

TypeOK ==
    /\ \A t \in Threads : calls[t].step \in {"idle", "sent", "answered"} /\ Len(runs[t].attempts) <= MaxRequests
    /\ \A t \in Threads : \A u \in {usage[t], routed[t]} : u.call = None \/ u.call \in Ids

Attempts(t) == {runs[t].attempts[i] : i \in DOMAIN runs[t].attempts}

(* The usage a run reports for an attempt is what the reply to that very    *)
(* request said, whatever the other threads and the compactions of the      *)
(* same one did with the backend: nothing left over, nothing lost           *)
(* (incremental_run_state.py, "provider-observed usage only").              *)
UsageIsOwn ==
    \A t \in Threads : \A a \in Attempts(t) :
        a.outcome # "unknown" =>
            a.used = IF Answer(wire[a.call].reply) /\ wire[a.call].reply.counted THEN a.call ELSE None

(* An answer that was cut at the limit of its tokens, that has no text or   *)
(* that came with an error never becomes the answer of a run, nor is an     *)
(* answered request asked again.                                            *)
OnlyWholeAnswers ==
    \A t \in Threads : \A i \in DOMAIN runs[t].attempts :
        LET a == runs[t].attempts[i] IN
        a.outcome = "response" =>
            /\ LET r == wire[a.call].reply IN r.kind = "answer" /\ r.shaped /\ r.text /\ r.finish # "length"
            /\ i = Len(runs[t].attempts)

(* A reply that contains reasoning is never reported as one without         *)
(* (openai_compatible.py: "never reported as an effective disable").        *)
ThinkingIsHonest ==
    scene.adapter = "openai" =>
        \A t \in Threads : \A u \in {usage[t], routed[t]} :
            u.call # None /\ u.effective \in {"disabled", "no_reasoning_observed"} =>
                wire[u.call].reply.reasoning \cap {"content", "tokens"} = {}

(* No stage thinks harder than it was asked to; a model that cannot be      *)
(* switched off is asked for its lowest effort.                             *)
NoMoreThanAsked ==
    \A i \in Ids :
        LET w == wire[i] IN
        w.controls.effort # None => Rank(w.controls.effort) <= Rank(IF w.asked = "disabled" THEN "low" ELSE w.asked)

CallsHold == [](TypeOK /\ UsageIsOwn /\ OnlyWholeAnswers /\ ThinkingIsHonest /\ NoMoreThanAsked)
=============================================================================
