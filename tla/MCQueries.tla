------------------------------ MODULE MCQueries ------------------------------
(* Queries over two current files and one of the history, in nine worlds.     *)
EXTENDS Integers, Sequences, FiniteSets

CONSTANTS Nowhere

VARIABLES vault, blocked, linked, control, session, day, request, scan, stroll, reply, stood, restored, raced,
          queryLoad, queryUsed

queryVars == << vault, blocked, linked, control, session, day, request, scan, stroll, reply, stood, restored, raced,
                queryLoad, queryUsed >>

Text(id, title, x, key) ==
    [id |-> id, named |-> TRUE, scopes |-> {x}, scoped |-> TRUE, sound |-> TRUE, title |-> title,
     match |-> TRUE, task |-> FALSE, status |-> "active", validity |-> "valid", closed |-> FALSE,
     link |-> Nowhere, pages |-> 1, due |-> 0, key |-> key]
Task(note) == [note EXCEPT !.task = TRUE]
Copy(note, of) == [note EXCEPT !.link = of, !.closed = TRUE, !.status = "completed"]
Broken(note) == [note EXCEPT !.sound = FALSE]
Unnamed(note) == [note EXCEPT !.sound = FALSE, !.named = FALSE, !.scoped = FALSE]

Books ==
    [gone |-> Unnamed(Text("none", "none", "g", 0)),
     m1 |-> [Text("m", "one", "p", 1) EXCEPT !.pages = 2],
     m2 |-> [Text("m", "one", "p", 4) EXCEPT !.pages = 2],
     m3 |-> [Text("m", "one", "d", 1) EXCEPT !.validity = "retracted"],
     n1 |-> Text("n", "two", "g", 2), n2 |-> Text("n", "one", "g", 2),
     n3 |-> Text("n", "two", "d", 2),
     mt |-> Task(Text("m", "one", "p", 1)), nt |-> Task(Text("n", "two", "g", 2)),
     dt |-> [Task(Text("m", "one", "p", 1)) EXCEPT !.due = 1],
     mc |-> Copy(Task(Text("h", "one", "p", 3)), "m"), nc |-> Copy(Task(Text("h", "two", "g", 3)), "n"),
     hs |-> Text("h", "one", "g", 3),
     bm |-> Broken(Text("m", "one", "p", 1)), bd |-> Broken(Text("o", "one", "d", 5)),
     bu |-> Unnamed(Text("o", "none", "g", 5))]

Ask(kind, scope, old) == [kind |-> kind, scope |-> scope, history |-> old, id |-> Nowhere, title |-> "none",
     from |-> 0, clock |-> 0, named |-> Nowhere, path |-> Nowhere]
World(a, b, h, edits, asks, bounds) ==
    [vault |-> [f \in {"a", "b", "h"} |-> CASE f = "a" -> a [] f = "b" -> b [] f = "h" -> h],
     edits |-> [f \in {"a", "b", "h"} |-> IF f \in DOMAIN edits THEN edits[f] ELSE {}],
     requests |-> asks, bound |-> bounds, blocked |-> {}, linked |-> TRUE, control |-> {},
     groups |-> << >>, reads |-> Nowhere]
Bound(asks, edits, blocks, links, jobs) ==
    [asks |-> asks, edits |-> edits, blocks |-> blocks, links |-> links, jobs |-> jobs, days |-> 0]

Scenes ==
    [pages |-> World("m1", "n1", Nowhere, [a |-> {"m2", "n2"}, b |-> {Nowhere, "n3"}],
        {Ask("search", {"p"}, FALSE)}, Bound(2, 2, 0, 1, 0)),
     restored |-> World("m1", "n1", Nowhere, [a |-> {"m1", "m2"}, b |-> {"n1", "n3"}],
        {Ask("search", {"p"}, FALSE)}, Bound(1, 5, 0, 0, 0)),
     tasks |-> [World("mt", "nt", "nc", [b |-> {Nowhere}, h |-> {"mc"}],
        {Ask("tasks", Nowhere, TRUE), Ask("search", Nowhere, TRUE)}, Bound(2, 1, 1, 0, 0))
          EXCEPT !.groups = [m \in {"m"} |-> {"p"}]],
     days |-> [World("dt", "nt", Nowhere, [b |-> {Nowhere}],
        {[Ask("tasks", Nowhere, FALSE) EXCEPT !.from = 3]}, [Bound(2, 1, 0, 0, 0) EXCEPT !.days = 1])
          EXCEPT !.vault.a = "dt"],
     prompt |-> [World("m1", "n2", "hs", [b |-> {"bm"}],
        {[Ask("context", Nowhere, FALSE) EXCEPT !.path = {"p"}], [Ask("context", Nowhere, TRUE) EXCEPT !.named = {"d"}],
         Ask("context", {"g"}, FALSE), Ask("context", Nowhere, FALSE)}, Bound(2, 1, 1, 0, 0))
          EXCEPT !.groups = [m \in {"m"} |-> {"p"}]],
     broken |-> World("m1", "n2", "hs", [a |-> {"bm", "n1"}, b |-> {"bd", "bu", "m3"}],
        {Ask("search", {"p"}, FALSE), Ask("search", {"d"}, TRUE)}, Bound(1, 2, 0, 0, 1)),
     catalog |-> [World("m1", "n3", Nowhere, [a |-> {"n3", "m3"}, b |-> {"bu"}],
        {Ask("catalog", Nowhere, FALSE)}, Bound(3, 1, 0, 1, 0)) EXCEPT !.linked = FALSE],
     body |-> [World("m1", "n1", Nowhere, [a |-> {"m2", Nowhere, "bm"}, b |-> {"m3"}],
        {[Ask("body", Nowhere, FALSE) EXCEPT !.id = "m"]}, Bound(2, 2, 1, 0, 0))
          EXCEPT !.groups = [m \in {"m"} |-> {"p"}], !.reads = {"p", "d"}],
     forget |-> World("m1", "n1", "mc", [a |-> {"m2", "n3"}, b |-> {"n2", "bu", "m2"}, h |-> {"hs"}],
        {[Ask("forget", Nowhere, TRUE) EXCEPT !.title = "one"],
         [Ask("forget", Nowhere, TRUE) EXCEPT !.id = "m"]}, Bound(1, 2, 0, 0, 0))]

Query == INSTANCE Queries WITH
    Absent <- Nowhere, Paths <- << "a", "b", "h" >>,
    Area <- [f \in {"a", "b", "h"} |-> IF f = "h" THEN "history" ELSE "knowledge"],
    Notes <- Books, Vanished <- "gone", Worlds <- Scenes, MaxItems <- 1, walk <- stroll

QueryInit(on) == Query!Init /\ (~on => queryLoad = "pages")
QueriesHold == Query!QueriesHold

----------------------------------------------------------------------------
(* Native notes of two agents, over what a person may do to them.          *)

CONSTANT NoNote

VARIABLES sourcesOf, notes, noteIndex, noteAsk, compared, hiddenNotes, noteLoad, noteUsed

noteVars == << sourcesOf, notes, noteIndex, noteAsk, compared, hiddenNotes, noteLoad, noteUsed >>

NotesOf(agent, path, share) == [agent |-> agent, path |-> path, share |-> share, enabled |-> TRUE]
Sheet(kind, text) == [kind |-> kind, text |-> text, stamp |-> 1, quiet |-> FALSE]
Fragment(s, i, word) == [source |-> s, place |-> i, text |-> word]

BothNotes == [s1 |-> NotesOf("codex", "p", TRUE), s2 |-> NotesOf("hermes", "q", FALSE)]
Sheets == [p |-> Sheet("note", << "x", "y" >>), q |-> Sheet("note", << "x" >>)]
StaleNotes == [s1 |-> [agent |-> "codex", path |-> "p", share |-> TRUE, enabled |-> TRUE, availability |-> "available",
                stamp |-> 1, text |-> << "x", "y" >>, shadows |-> {Fragment("s1", 1, "x")}]]

Shelf(edits, faults) ==
    [sources |-> BothNotes, file |-> Sheets, index |-> NoNote, words |-> {}, ids |-> {}, planners |-> {},
     texts |-> {}, quiet |-> {}, kinds |-> {}, may |-> {}, hidden |-> {},
     edits |-> edits, faults |-> faults]

Shelves == {
    [Shelf(2, 1) EXCEPT !.words = {"x"}, !.may = {"share", "enable"}],
    [Shelf(2, 0) EXCEPT !.words = {"x"}, !.texts = {<< "y", "x" >>}, !.quiet = {<< "x", "z" >>},
       !.sources.s2.share = TRUE],
    [Shelf(2, 0) EXCEPT !.words = {"x"}, !.kinds = {"note", "missing", "directory", "large"}, !.may = {"lock"},
       !.sources.s2.share = TRUE],
    [Shelf(2, 0) EXCEPT !.words = {"x"}, !.index = StaleNotes, !.hidden = {Fragment("s1", 1, "x")},
       !.texts = {<< "x" >>, << "z", "x" >>}, !.may = {"share", "move", "enable"}],
    [Shelf(2, 1) EXCEPT !.ids = {Fragment("s1", 1, "x"), Fragment("s2", 1, "x")}, !.may = {"share", "move"},
       !.texts = {<< "z" >>}],
    [Shelf(2, 1) EXCEPT !.planners = {"hermes"}, !.texts = {<< "x" >>, << "z" >>}, !.quiet = {<< "z" >>},
       !.may = {"share", "lock"}, !.kinds = {"unsafe"}]}

Notes == INSTANCE NativeNotes WITH Sources <- {"s1", "s2"}, Agents <- {"hermes", "codex"},
    Files <- {"p", "q"}, None <- NoNote, Loads <- Shelves,
    config <- sourcesOf, file <- notes, index <- noteIndex, ask <- noteAsk, guard <- compared,
    shadowed <- hiddenNotes, load <- noteLoad, used <- noteUsed

NotesInit(active) == Notes!Init /\ (~active => noteLoad = CHOOSE l \in Shelves : TRUE)
NotesHold == Notes!NotesHold

----------------------------------------------------------------------------
(* Turns of a model that searches, lists and reads.                        *)

CONSTANT NoCall

VARIABLES bodies, knowledge, readingTurns, onWire, toldOf, readingLoad, readingUsed

readingVars == << bodies, knowledge, readingTurns, onWire, toldOf, readingLoad, readingUsed >>

Chunks(a, b) == [m1 |-> [chunks |-> a, version |-> 1], m2 |-> [chunks |-> b, version |-> 1]]
Limited(servers, lists, a, b) ==
    [text |-> Chunks(a, b), lists |-> [all |-> {"m1", "m2"}, due |-> {"m2"}],
     rank |-> [m1 |-> 1, m2 |-> 2], offsets |-> {}, lengths |-> {2}, outcomes |-> {},
     servers |-> servers, turns |-> 1, bare |-> 0, walks |-> lists, searches |-> 0, restarts |-> 0,
     reads |-> 0, edits |-> 0, deaths |-> 0]

Readings == {
    [Limited({"a"}, 1, 3, 2) EXCEPT !.edits = 1, !.restarts = 1, !.lengths = {1, 3}],
    [Limited({"a", "b"}, 2, 2, 1) EXCEPT !.deaths = 1],
    [Limited({"a"}, 2, 2, 2) EXCEPT !.bare = 1, !.searches = 1, !.outcomes = {"FOUND", "NO_MATCH", "ERROR"}],
    [Limited({"a"}, 1, 3, 2) EXCEPT !.offsets = {0, 2}, !.reads = 1],
    [Limited({"a", "b"}, 1, 1, 2) EXCEPT !.turns = 2, !.searches = 1, !.outcomes = {"NO_MATCH"}],
    [Limited({"a"}, 2, 2, 2) EXCEPT !.edits = 2, !.lengths = {1}]}

Reading == INSTANCE ReadingTurns WITH Memories <- {"m1", "m2"}, Filters <- {"all", "due"},
    Servers <- {"a", "b"}, None <- NoCall, Loads <- Readings,
    text <- bodies, generation <- knowledge, gates <- readingTurns, call <- onWire, seen <- toldOf,
    load <- readingLoad, used <- readingUsed

ReadingInit(active) == Reading!Init /\ (~active => readingLoad = CHOOSE l \in Readings : TRUE)
ReadingHolds == Reading!ReadingHolds
=============================================================================
