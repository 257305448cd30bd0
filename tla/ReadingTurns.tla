---------------------------- MODULE ReadingTurns ----------------------------
(***************************************************************************)
(* What a model reads in one turn through the MCP server (mcp_server.py)   *)
(* under a retrieval gate (retrieval_gate.py): search and list_todos in    *)
(* pages, the long bodies of a list queued by the server, and read, which  *)
(* "continue" points at the next page of the first of them.  Several server*)
(* processes may serve one session; the user may open the next turn, a     *)
(* person may edit a memory, and an answer may get lost, between any two   *)
(* steps.  RetrievalGate models the prompts and hooks around a turn.       *)
(***************************************************************************)
EXTENDS Naturals, Sequences, FiniteSets, SequencesExt, FiniteSetsExt

CONSTANTS
    Memories,
    Filters,      \* arguments of list_todos
    Servers,      \* MCP server processes
    None,
    Loads         \* memories of the start, and bounds of a behaviour

VARIABLES
    text,         \* memory -> [chunks, version], or None when deleted
    generation,   \* of the knowledge files
    gates,        \* the turns, oldest first
    call,         \* server -> the call it works on, or None
    seen,         \* turn -> what the model was told in it
    load, used

vars == << text, generation, gates, call, seen, load, used >>

Use(what) == used[what] < load[what] /\ used' = [used EXCEPT ![what] = @ + 1] /\ UNCHANGED load
Unused == UNCHANGED << load, used >>

(* "owner" is the host session of a turn; "bare" turns belong to a server.  *)
NewTurn(owner) ==
    [by |-> owner, status |-> "NOT_SEARCHED", reads |-> {}, queue |-> << >>,
     page |-> None]
NothingSeen ==
    [list |-> {}, rows |-> {}, chunks |-> {}, ended |-> FALSE, rest |-> TRUE, exact |-> TRUE]

Turns == DOMAIN gates
Newest(g) == \A h \in Turns : gates[h].by = gates[g].by => h <= g

Listed(filter) == {m \in load.lists[filter] : text[m] # None}
(* The order of a list; a page holds one row.                               *)
Row(filter, k) == SetToSortSeq(Listed(filter), LAMBDA a, b : load.rank[a] < load.rank[b])[k]

Idle(s) == call[s] = None
(* A model that follows the answers makes one call of a turn at a time.     *)
Alone(s, g) == \A r \in Servers \ {s} : ~Idle(r) => call[r].turn # g
Asked(s, g, new) == [new EXCEPT ![g].rest = FALSE, ![g].exact = @ /\ Alone(s, g)]

(***************************************************************************)
(* Turns: a host opens one for a prompt, the server one for a first call   *)
(* without an id.                                                          *)
(***************************************************************************)

Append1(owner) == /\ gates' = Append(gates, NewTurn(owner)) /\ seen' = Append(seen, NothingSeen)

OpenTurn ==
    /\ Use("turns") /\ Append1("host")
    /\ UNCHANGED << text, generation, call >>

OpenBare(s) ==
    /\ Idle(s) /\ Use("bare") /\ Append1(s)
    /\ UNCHANGED << text, generation, call >>

(***************************************************************************)
(* Searching.                                                              *)
(***************************************************************************)

Observed(g, status) == [gates EXCEPT ![g].status = status]

(* _managed_search_state, then observe_search: the outcome decides whether  *)
(* the turn may read.                                                       *)
Search(s, g, status) ==
    /\ Idle(s) /\ Newest(g) /\ Use("searches")
    /\ gates' = Observed(g, status) /\ seen' = Asked(s, g, seen)
    /\ UNCHANGED << text, generation, call >>

(***************************************************************************)
(* Lists.                                                                  *)
(***************************************************************************)

(* todo_continuation: the page the server issued last, not a cursor of the  *)
(* model's.                                                                 *)
Continuation(g) == gates[g].page

FirstPage(filter) == [filter |-> filter, next |-> 1, generation |-> generation]
Stale(page) == page.generation # generation
More(page) == page.next < Cardinality(Listed(page.filter))

(* Another list may not begin while one is unfinished.                      *)
Mismatch(g, page) == page.next = 1 /\ gates[g].page # None /\ gates[g].page.filter # page.filter

(* Mutant: a new list leaves the bodies of the old one in the queue, and a  *)
(* page of it empties them.                                                 *)
QueueOfPage(g, page) == IF page.next > 1 THEN << >> ELSE gates[g].queue
(* A new list begins a new queue of bodies; its pages keep it.              *)
QueueOf(g, page) == IF page.next = 1 THEN << >> ELSE gates[g].queue

(* observe_todo_list for a page that was found.                             *)
Walked(g, page) ==
    [gates EXCEPT ![g].status = "FOUND", ![g].queue = QueueOf(g, page),
        ![g].page = IF More(page) THEN [page EXCEPT !.next = @ + 1] ELSE None]

Told(g, page) ==
    IF page.next > 1 THEN seen
    ELSE [seen EXCEPT ![g].list = Listed(page.filter), ![g].rows = {}, ![g].ended = FALSE]

(* One page is read and observed; its bodies are recorded one by one before *)
(* the answer.                                                              *)
ListTodos(s, g, page) ==
    /\ Idle(s) /\ Newest(g)
    /\ UNCHANGED << text, generation >>
    /\ IF Stale(page)
       THEN gates' = Observed(g, "ERROR") /\ seen' = Asked(s, g, seen) /\ UNCHANGED call
       ELSE IF Mismatch(g, page)
       THEN seen' = Asked(s, g, seen) /\ UNCHANGED << gates, call >>
       ELSE IF Listed(page.filter) = {}
       THEN gates' = [Walked(g, page) EXCEPT ![g].status = "NO_MATCH"] /\ seen' = Asked(s, g, Told(g, page)) /\ UNCHANGED call
       ELSE LET m == Row(page.filter, page.next) IN
            /\ gates' = Walked(g, page) /\ seen' = Asked(s, g, Told(g, page))
            /\ call' = [call EXCEPT ![s] = [kind |-> "list", turn |-> g, memory |-> m, text |-> text[m],
                                            more |-> More(page), stage |-> "bundle"]]

ListFirst(s, g, filter) == Use("walks") /\ ListTodos(s, g, FirstPage(filter))
ListContinue(s, g) == Unused /\ Continuation(g) # None /\ ListTodos(s, g, Continuation(g))

(***************************************************************************)
(* Bodies.                                                                 *)
(***************************************************************************)

(* guarded_read with the page it got: only that moves an unfinished body.   *)
Place(queue, m) == SelectInSeq(queue, LAMBDA page : page.memory = m)
Queued(queue, m, t, last) ==
    LET k == Place(queue, m)
        page == [memory |-> m, offset |-> last, version |-> t.version] IN
    IF last < t.chunks
    THEN IF k = 0 THEN Append(queue, page) ELSE [queue EXCEPT ![k] = page]
    ELSE IF k = 0 THEN queue ELSE RemoveAt(queue, k)

MayRead(g) == Newest(g) /\ gates[g].status = "FOUND"

Recorded(g, m, t, last) ==
    [gates EXCEPT ![g].queue = Queued(@, m, t, last), ![g].reads = @ \cup {m}]

(* The rows of a full list carry the first chunk of their bodies.           *)
Bundle(s) ==
    /\ ~Idle(s) /\ call[s].stage = "bundle"
    /\ LET c == call[s] IN
       IF MayRead(c.turn)
       THEN gates' = Recorded(c.turn, c.memory, c.text, 1) /\ call' = [call EXCEPT ![s].stage = "answer"]
       ELSE call' = [call EXCEPT ![s] = None] /\ UNCHANGED gates
    /\ UNCHANGED << text, generation, seen >> /\ Unused

Chunk(m, t, i) == [memory |-> m, version |-> t.version, at |-> i, final |-> i = t.chunks]

(* "rest": the answer says that no body is left to read.  A turn that may no*)
(* longer read gets an error for the page, though its body was recorded.    *)
Answer(s) ==
    /\ ~Idle(s) /\ call[s].stage = "answer"
    /\ LET c == call[s] IN
       seen' = IF ~MayRead(c.turn) THEN [seen EXCEPT ![c.turn].exact = FALSE]
               ELSE [seen EXCEPT ![c.turn].rows = @ \cup {c.memory}, ![c.turn].ended = ~c.more,
                       ![c.turn].chunks = @ \cup {Chunk(c.memory, c.text, 1)},
                       ![c.turn].rest = (gates[c.turn].queue = << >>)]
    /\ call' = [call EXCEPT ![s] = None]
    /\ UNCHANGED << text, generation, gates >> /\ Unused

(* body_continuation: the server, not the model, names the page.            *)
ReadContinue(s, g, restart) ==
    /\ Idle(s) /\ MayRead(g) /\ gates[g].queue # << >>
    /\ call' = [call EXCEPT ![s] = [kind |-> "read", turn |-> g, stage |-> "read",
                                    expected |-> gates[g].queue[1], restart |-> restart]]
    /\ seen' = Asked(s, g, seen)
    /\ UNCHANGED << text, generation, gates >>
    /\ IF restart THEN Use("restarts") ELSE Unused

(* The page of read_page: nothing of a deleted memory, an error if the text *)
(* is not the version it began with.                                        *)
Readable(m, version) == text[m] # None /\ (version = None \/ text[m].version = version)

Expected(c) == gates[c.turn].queue # << >> /\ gates[c.turn].queue[1] = c.expected

ReadPage(s) ==
    /\ ~Idle(s) /\ call[s].stage = "read"
    /\ LET c == call[s]
           m == c.expected.memory
           from == IF c.restart THEN 0 ELSE c.expected.offset
           version == IF c.restart THEN None ELSE c.expected.version IN
       IF MayRead(c.turn) /\ Expected(c) /\ Readable(m, version)
       THEN /\ gates' = Recorded(c.turn, m, text[m], from + 1)
            /\ seen' = [seen EXCEPT ![c.turn].chunks = @ \cup {Chunk(m, text[m], from + 1)},
                          ![c.turn].rest = (gates'[c.turn].queue = << >>)]
       ELSE seen' = [seen EXCEPT ![c.turn].rest = FALSE] /\ UNCHANGED gates
    /\ call' = [call EXCEPT ![s] = None]
    /\ UNCHANGED << text, generation >> /\ Unused

(* A read whose memory and place the model chose itself.                    *)
ReadAt(s, g, m, from) ==
    /\ Idle(s) /\ MayRead(g) /\ Readable(m, None) /\ from < text[m].chunks /\ Use("reads")
    /\ gates' = Recorded(g, m, text[m], from + 1)
    /\ seen' = [seen EXCEPT ![g].chunks = @ \cup {Chunk(m, text[m], from + 1)},
                  ![g].rest = (gates'[g].queue = << >>), ![g].exact = FALSE]
    /\ UNCHANGED << text, generation, call >>

(***************************************************************************)
(* Meanwhile.                                                              *)
(***************************************************************************)

Edit(m, chunks) ==
    /\ text[m] # None /\ Use("edits") /\ generation' = generation + 1
    /\ text' = [text EXCEPT ![m] = [chunks |-> chunks, version |-> @.version + 1]]
    /\ UNCHANGED << gates, call, seen >>
Delete(m) ==
    /\ text[m] # None /\ Use("edits") /\ generation' = generation + 1
    /\ text' = [text EXCEPT ![m] = None]
    /\ UNCHANGED << gates, call, seen >>

(* The server dies: what it was about to say is never heard.                *)
Die(s) ==
    /\ ~Idle(s) /\ Use("deaths")
    /\ seen' = [seen EXCEPT ![call[s].turn].exact = FALSE]
    /\ call' = [call EXCEPT ![s] = None]
    /\ UNCHANGED << text, generation, gates >>

(* An answer is lost on its way; the turn goes on without it.               *)
Lose(s) ==
    /\ ~Idle(s) /\ call[s].stage = "answer" /\ Use("deaths")
    /\ seen' = [seen EXCEPT ![call[s].turn].exact = FALSE] /\ call' = [call EXCEPT ![s] = None]
    /\ UNCHANGED << text, generation, gates >>

Init ==
    /\ load \in Loads
    /\ used = [what \in {"turns", "bare", "searches", "walks", "restarts", "reads", "edits", "deaths"} |-> 0]
    /\ text = load.text /\ generation = 1
    /\ gates = << >> /\ seen = << >>
    /\ call = [s \in Servers |-> None]

Next ==
    \/ OpenTurn
    \/ \E s \in load.servers :
        \/ OpenBare(s) \/ Bundle(s) \/ Answer(s) \/ ReadPage(s) \/ Die(s)
        \/ \E g \in Turns :
            \/ \E status \in load.outcomes : Search(s, g, status)
            \/ \E filter \in Filters : ListFirst(s, g, filter)
            \/ ListContinue(s, g)
            \/ \E restart \in BOOLEAN : ReadContinue(s, g, restart)
            \/ \E m \in Memories, from \in load.offsets : ReadAt(s, g, m, from)
    \/ \E m \in Memories, chunks \in load.lengths : Edit(m, chunks)
    \/ \E m \in Memories : Delete(m)

(***************************************************************************)
(* Properties.                                                             *)
(***************************************************************************)

Whole(g, m) ==
    \E c \in seen[g].chunks :
        /\ c.memory = m /\ c.final
        /\ \A i \in 1..c.at : \E d \in seen[g].chunks : d.memory = m /\ d.version = c.version /\ d.at = i

(* A model that follows "continue" until the list says it has no more and   *)
(* the answers name no further body has seen every row of one list and every*)
(* body of it whole, in one version, whatever was edited meanwhile          *)
(* (mcp_server.py:60, retrieval_gate.py:683).                               *)
FollowerSeesAll ==
    \A g \in Turns :
        seen[g].exact /\ seen[g].ended /\ seen[g].rest =>
            seen[g].rows = seen[g].list /\ \A m \in seen[g].rows : Whole(g, m)

(* The reads a turn is frozen with for its comparison are the memories whose*)
(* text went out in it, and no text reaches the model without being among   *)
(* them (retrieval_gate.py:649, 761).                                       *)
SnapshotReads(g) == gates[g].reads
ReadsAreTrue ==
    \A g \in Turns :
        /\ {c.memory : c \in seen[g].chunks} \subseteq SnapshotReads(g)
        /\ seen[g].exact /\ (\A s \in Servers : Idle(s)) =>
              SnapshotReads(g) = {c.memory : c \in seen[g].chunks} \/ ~Newest(g)

ReadingHolds == [][(FollowerSeesAll /\ ReadsAreTrue)']_vars
=============================================================================
