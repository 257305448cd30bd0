------------------------------ MODULE MCDrafts ------------------------------
(* What answers of the model become.  An instance that takes no part ("on" *)
(* is FALSE) keeps the first of its initial states.                         *)
EXTENDS Integers, Sequences, FiniteSets

CONSTANTS NoDraft, d1, d2, d3

VARIABLES world, snap, answered, answer, vouched, spared, draft, focus, phase

draftVars == << world, snap, answered, answer, vouched, spared, draft, focus, phase >>

----------------------------------------------------------------------------
(* Three Vaults of three memories, a turn of two messages.                 *)

Memory(area, inside, content) ==
    [area |-> area, kind |-> "fact", inside |-> inside, valid |-> TRUE, status |-> "active",
     head |-> NoDraft, seen |-> [content |-> content, status |-> 0, responsibility |-> 0]]

World(a, b, c, need, explicit) ==
    [mem |-> [m \in {d1, d2, d3} |-> IF m = d1 THEN a ELSE IF m = d2 THEN b ELSE c],
     need |-> need, limit |-> 2, explicit |-> explicit, later |-> "complete"]

Plainly == Memory("knowledge", TRUE, 0)

(* the second memory is newer than the turn *)
Newer == World(Plainly, Memory("knowledge", TRUE, 2), Memory("native", TRUE, 0), {d1, d2, d3}, FALSE)
(* the first memory is completed, the third has no current version *)
Closed == World([Plainly EXCEPT !.status = "completed", !.seen.status = 1], Plainly,
                Memory("history", TRUE, 0), {d1}, FALSE)
(* the second memory stands for the first; the user asked to remember *)
Asked == World(Plainly, [Memory("history", TRUE, 0) EXCEPT !.head = d1], Memory("none", TRUE, 0), {d2}, TRUE)

Row(name, act, on, dups, ev, patch) ==
    [says |-> name, act |-> act, on |-> on, dups |-> dups, ev |-> ev, patch |-> patch,
     proof |-> "none", shape |-> "plain"]

Kept == [body |-> "kept"]
Cut == [body |-> "cut"]

Rows ==
    {Row("u1", "UPDATE", d1, {}, {1}, Kept), Row("u2", "UPDATE", d1, {}, {1, 2}, Cut),
     Row("u3", "UPDATE", d1, {}, {2}, [status |-> "active"]),
     Row("r", "UPDATE", d2, {}, {1}, [validity |-> "retracted"]),
     Row("g", "MERGE", d1, {d2}, {2}, Kept), Row("h", "MERGE", d2, {d1}, {1, 2}, Cut),
     [Row("b", "MERGE", d1, {d2}, {2}, Kept) EXCEPT !.shape = "boxed"],
     Row("c", "CREATE", NoDraft, {}, {1}, Kept),
     [Row("d", "CREATE", NoDraft, {}, {1}, Kept) EXCEPT !.shape = "bare"],
     [Row("e", "CREATE", NoDraft, {}, {1}, Kept) EXCEPT !.shape = "boxed"],
     Row("n", "NO_CHANGE", d1, {}, {1}, << >>), Row("m", "NO_CHANGE", d3, {}, {2}, << >>),
     Row("z", "NO_MEMORY", NoDraft, {}, {}, << >>), Row("q", "DEFERRED", NoDraft, {}, {2}, << >>),
     Row("l", "CREATE", NoDraft, {}, {3}, Kept), Row("x", "UPDATE", d3, {}, {1}, Kept),
     Row("a", "UPDATE", d2, {}, {1}, [assignee |-> "user", body |-> "kept"])}

Named(S) == {row \in Rows : row.says \in S}
Pairs(S, T) == {<< a, b >> : a \in S, b \in T}
Single == {<< a >> : a \in Rows} \cup Pairs(Named({"u1", "u2", "r", "h"}), Named({"n", "c", "a"}))
Partly == {<< a, b, c >> : a \in Named({"g"}), b, c \in Named({"d", "e", "c"})}
          \cup Pairs(Named({"u1", "n", "r"}), Named({"d", "e", "q"}))
Again == {<< Row("c2", "CREATE", NoDraft, {}, {1}, Kept) >>,
          << Row("z2", "NO_MEMORY", NoDraft, {}, {1, 2}, << >>) >>,
          << Row("u9", "UPDATE", d1, {}, {1, 2}, Cut) >>}
Added == {Row("add", "UPDATE", d2, {}, {1}, Kept), Row("ad2", "UPDATE", d2, {}, {1}, Cut)}

With(w, drafts, redrafts, additions, edits) ==
    [f \in DOMAIN w \cup {"drafts", "redrafts", "additions", "edits"} |->
        CASE f = "drafts" -> drafts [] f = "redrafts" -> redrafts
          [] f = "additions" -> additions [] f = "edits" -> edits [] OTHER -> w[f]]

DraftWorlds ==
    << With(Newer, Pairs(Rows, Rows), {}, {}, {}), With(Closed, Single, {}, Added, {}),
       With(Asked, Single, {}, {}, {}), With(Newer, Partly, {}, {}, {d1}),
       With(Closed, Partly, Again, {}, {d1}) >>

Draft == INSTANCE TurnDraft WITH
    Absent <- NoDraft, Memories <- {d1, d2, d3}, Fresh <- {1, 2}, Later <- {3},
    ByUser <- {1}, Worlds <- DraftWorlds, asked <- answered, work <- draft

DraftInit(on) == Draft!Init /\ (~on => world = 1)
DraftHolds == Draft!DraftHolds

DraftSpec == Draft!Spec
NothingSilent == Draft!NothingSilent
=============================================================================
