------------------------------- MODULE Queries -------------------------------
(***************************************************************************)
(* Queries of a Vault (service.py, query_scan.py, query_progress.py,       *)
(* retrieval.py): lists of scopes, memories and tasks that are handed out  *)
(* in pages, the pages of one memory, and the search for what Forget is to *)
(* delete.  A query holds the lock of the Vault, and yet a person edits    *)
(* the Markdown files while it reads them one by one; so it reads them     *)
(* twice.                                                                  *)
(***************************************************************************)
EXTENDS Integers, Sequences, FiniteSets, SequencesExt

CONSTANTS
    Absent,
    Paths,        \* the files, in the order in which a scan reads them
    Area,         \* path -> "knowledge" or "history"
    Notes,        \* content of a file -> what it says
    Vanished,     \* of Notes: the file went away between its listing and its reading
    Worlds,       \* name -> files, edits, requests and bounds of a behaviour
    MaxItems      \* items of a page

VARIABLES
    vault,        \* path -> content, or Absent
    blocked,      \* memories of unfinished groups of hosts
    linked,       \* the registry makes project "p" a part of domain "d"
    control,      \* what the pipeline has not done yet
    session,      \* the scope saved for the caller's session, or Absent
    day,          \* the calendar day
    request,      \* the query that is running, or Absent
    scan,         \* how far it is, and what it read
    walk,         \* the caller's cursor and what it received up to it, or Absent
    reply,        \* the last answer
    stood,        \* sets of files that stood together as the first scan read them, at
                  \* one moment after its end (history)
    restored,     \* files that were changed after their first reading and changed back
                  \* before their second (history)
    raced,        \* files edited after the last look of the query (history)
    queryLoad, queryUsed

vars == << vault, blocked, linked, control, session, day, request, scan, walk, reply, stood,
           restored, raced, queryLoad, queryUsed >>
others == << blocked, linked, control, session, day >>

World == Worlds[queryLoad]
Files == ToSet(Paths)
All == Absent
Use(what) == queryUsed[what] < World.bound[what]
             /\ queryUsed' = [queryUsed EXCEPT ![what] = @ + 1] /\ UNCHANGED queryLoad
Unused == UNCHANGED << queryLoad, queryUsed >>

NotRead == [p \in Files |-> Absent]
Scan(round, areas) == [at |-> "first", round |-> round, areas |-> areas, todo |-> << >>,
                       seen |-> NotRead, again |-> NotRead, jobs |-> {}, pipeline |-> "unknown", doomed |-> {}]
NoReply == [outcome |-> "none"]

Init ==
    /\ queryLoad \in DOMAIN Worlds
    /\ queryUsed = [what \in {"asks", "edits", "blocks", "links", "jobs", "days"} |-> 0]
    /\ vault = World.vault /\ blocked = World.blocked /\ linked = World.linked
    /\ control = World.control /\ session = Absent /\ day = 1
    /\ request = Absent /\ scan = Scan(1, << >>) /\ walk = Absent /\ reply = NoReply
    /\ stood = {} /\ restored = {} /\ raced = {}

----------------------------------------------------------------------------
(* What a scan found: s is path -> content read.                           *)

Found(s) == {p \in Files : s[p] # Absent}
Note(s, p) == Notes[s[p]]
Claims(s, id) == {p \in Found(s) : Note(s, p).named /\ Note(s, p).id = id}
Ambiguous(s) == {id \in {Note(s, p).id : p \in Found(s)} : Cardinality(Claims(s, id)) > 1}
Sound(s) == {p \in Found(s) : Note(s, p).sound}
Valid(s) == {p \in Sound(s) : Note(s, p).id \notin Ambiguous(s)}
In(s, set, area) == {p \in set : Area[p] = area}
IdsOf(s, set) == {Note(s, p).id : p \in set}

(* Scopes a request may see and how specific each is.                      *)
Allowed(scope) ==
    CASE scope = {"p"} /\ linked -> [x \in {"p", "d", "g"} |-> CASE x = "p" -> 4 [] x = "d" -> 3 [] x = "g" -> 1]
      [] scope = {"p"} /\ ~linked -> [x \in {"p", "g"} |-> IF x = "p" THEN 4 ELSE 1]
      [] scope = {"d"} -> [x \in {"d", "g"} |-> IF x = "d" THEN 2 ELSE 1]
      [] OTHER -> [x \in {"g"} |-> 1]
Rank(scope, note) ==
    IF scope = All THEN 1
    ELSE LET ranks == {0} \cup {Allowed(scope)[x] : x \in note.scopes \cap DOMAIN Allowed(scope)} IN
         CHOOSE r \in ranks : \A other \in ranks : other <= r
Readable(note) == World.reads = All \/ note.scopes \subseteq World.reads

OfBlocked(note) == note.id \in blocked \/ note.link \in blocked
(* The memories a query may use, and the files it must own up to.          *)
Usable(s) == {p \in Valid(s) : Readable(Note(s, p)) /\ ~OfBlocked(Note(s, p))}
Issues(s) ==
    {p \in Found(s) \ Valid(s) : ~Note(s, p).scoped \/ Readable(Note(s, p))}
      \cup {p \in Valid(s) : Readable(Note(s, p)) /\ OfBlocked(Note(s, p))}
Status(s, issues, scope) ==
    IF \E p \in issues : ~Note(s, p).scoped \/ Rank(scope, Note(s, p)) > 0
    THEN "partial" ELSE "complete"
ClaimsComplete(scope) ==
    ~\E id \in blocked : \E x \in World.groups[id] : scope = All \/ x \in DOMAIN Allowed(scope)

----------------------------------------------------------------------------
(* The lists.                                                              *)

(* A more specific memory hides one of the same title.                     *)
Overlaid(s, set, r) ==
    {p \in set : r.scope # All /\ \E q \in set :
        Note(s, q).title = Note(s, p).title /\ Rank(r.scope, Note(s, q)) > Rank(r.scope, Note(s, p))}
InScope(s, set, r) == {p \in set : Rank(r.scope, Note(s, p)) > 0}
Searched(s, r) ==
    InScope(s, {p \in Usable(s) : r.history \/ Note(s, p).validity = "valid"}, r)
Hits(s, r) ==
    {p \in Searched(s, r) \ Overlaid(s, Searched(s, r), r) :
        Note(s, p).match /\ (Note(s, p).task => Note(s, p).status = "active")}

Open(s) == {p \in In(s, Usable(s), "knowledge") : Note(s, p).task /\ Note(s, p).validity = "valid"}
ClosedCopies(s) ==
    {p \in In(s, Usable(s), "history") : Note(s, p).task /\ Note(s, p).closed
        /\ Note(s, p).link \notin IdsOf(s, In(s, Usable(s), "knowledge")) \cup Ambiguous(s)}
(* Due from the day asked for on, or overdue; a task without a day is late. *)
Due(note, r) == note.due = 0 \/ note.due >= r.from \/ note.due < r.clock
Tasks(s, r) ==
    {p \in InScope(s, IF r.history THEN Open(s) \cup ClosedCopies(s)
                      ELSE {q \in Open(s) : Note(s, q).status = "active"}, r) : Due(Note(s, p), r)}
Sooner(one, two) ==
    \/ one.due # 0 /\ (two.due = 0 \/ one.due < two.due)
    \/ one.due = two.due /\ one.key < two.key

ScopesKnown(s) ==
    {"g"} \cup (IF linked THEN {"p", "d"} ELSE {})
      \cup UNION {Note(s, p).scopes : p \in {q \in In(s, Valid(s), "knowledge") : Note(s, q).validity = "valid"}}
ScopeOrder == [x \in {"g", "d", "p"} |-> CASE x = "g" -> 1 [] x = "d" -> 2 [] x = "p" -> 3]

Listed(s, r) ==
    CASE r.kind = "catalog" -> SetToSortSeq(ScopesKnown(s), LAMBDA x, y : ScopeOrder[x] < ScopeOrder[y])
      [] r.kind = "search" ->
           SetToSortSeq(Hits(s, r), LAMBDA p, q :
             \/ Rank(r.scope, Note(s, p)) > Rank(r.scope, Note(s, q))
             \/ /\ Rank(r.scope, Note(s, p)) = Rank(r.scope, Note(s, q))
                /\ Note(s, p).key < Note(s, q).key)
      [] r.kind = "tasks" -> SetToSortSeq(Tasks(s, r), LAMBDA p, q : Sooner(Note(s, p), Note(s, q)))

(* What the caller gets of a list: each memory in the version read.        *)
Rows(s, r, list) == IF r.kind = "catalog" THEN list ELSE [i \in DOMAIN list |-> << list[i], s[list[i]] >>]

(* What a cursor is bound to: the query, its list with each version and    *)
(* rank, and all that was read, the files with issues included.            *)
FingerprintOfList(s, r, list) ==
    [request |-> r, read |-> << >>, list |-> list, ranks |-> << >>]
Fingerprint(s, r, list) ==
    [request |-> r, read |-> s, list |-> list,
     ranks |-> IF r.kind = "search" THEN [i \in DOMAIN list |-> Rank(r.scope, Note(s, list[i]))] ELSE << >>]

----------------------------------------------------------------------------
(* A query reads the files, looks at the pipeline, and reads them again.   *)

Areas(r) == IF r.history THEN << "knowledge", "history" >> ELSE << "knowledge" >>
Refuse(why) == /\ reply' = [outcome |-> why] /\ request' = Absent
               /\ UNCHANGED << scan, walk >>

(* A first call, or one with the cursor of the walk.  A memory of an       *)
(* unfinished group is refused at once.                                    *)
QueryClock(r, follow) == [r EXCEPT !.clock = IF follow THEN walk.request.clock ELSE day]
Ask(r, follow) ==
    /\ request = Absent /\ Use("asks") /\ (follow => walk # Absent)
    /\ stood' = {} /\ restored' = {} /\ raced' = {}
    /\ IF r.kind = "body" /\ r.id \in blocked
       THEN Refuse("recovery_required")
       ELSE /\ request' = [r |-> QueryClock(r, follow), follow |-> follow]
            /\ scan' = Scan(IF r.kind = "forget" /\ r.id # Absent THEN 2 ELSE 1, Areas(r))
            /\ walk' = (IF follow THEN walk ELSE Absent) /\ reply' = NoReply
    /\ UNCHANGED << vault, others >>

Reading == request # Absent /\ scan.at \in {"first", "second"}
ListArea ==
    /\ Reading /\ scan.todo = << >> /\ scan.areas # << >>
    /\ scan' = [scan EXCEPT !.areas = Tail(@),
          !.todo = SelectSeq(Paths, LAMBDA p : Area[p] = Head(scan.areas) /\ vault[p] # Absent)]
    /\ UNCHANGED << vault, others, request, walk, reply, stood, restored, raced >> /\ Unused
ReadFile ==
    LET p == Head(scan.todo)
        content == IF vault[p] = Absent THEN Vanished ELSE vault[p] IN
    /\ Reading /\ scan.todo # << >>
    /\ scan' = IF scan.at = "first" THEN [scan EXCEPT !.todo = Tail(@), !.seen[p] = content]
               ELSE [scan EXCEPT !.todo = Tail(@), !.again[p] = content]
    /\ UNCHANGED << vault, others, request, walk, reply, stood, restored, raced >> /\ Unused
AllRead == Reading /\ scan.todo = << >> /\ scan.areas = << >>

Standing(files) ==
    {p \in Files : scan.seen[p] = IF Area[p] \in ToSet(Areas(request.r)) THEN files[p] ELSE Absent}

(* The jobs change outside the lock: their file is looked at twice.        *)
CountPipeline ==
    /\ AllRead /\ scan.at = "first" /\ request.r.kind # "context"
    /\ scan' = [scan EXCEPT !.at = "count", !.jobs = control \cap {"job"}]
    /\ stood' = {Standing(vault)}
    /\ UNCHANGED << vault, others, request, walk, reply, restored, raced >> /\ Unused
ObserveProgress ==
    /\ request # Absent /\ scan.at = "count"
    /\ scan' = [scan EXCEPT !.at = "second", !.areas = Areas(request.r),
          !.pipeline = IF scan.jobs # control \cap {"job"} THEN "unknown"
                       ELSE IF control # {} THEN "pending" ELSE "current"]
    /\ UNCHANGED << vault, others, request, walk, reply, stood, restored, raced >> /\ Unused

EnsureSameFiles == Found(scan.again) = Found(scan.seen)  \* mutant of EnsureCurrent
EnsureCurrent == scan.again = scan.seen
Checked == AllRead /\ scan.at = "second"
Changed ==
    /\ Checked /\ ~EnsureCurrent /\ Refuse("scan_changed")
    /\ UNCHANGED << vault, others, stood, restored, raced >> /\ Unused

----------------------------------------------------------------------------
(* Pages of a list.                                                        *)

DecodeCursor(print, length) ==
    IF ~request.follow THEN "ok"
    ELSE IF walk.request.kind # request.r.kind THEN "invalid_cursor"
    ELSE IF walk.print # print THEN "stale_cursor"
    ELSE IF walk.next >= length THEN "invalid_cursor" ELSE "ok"

Envelope(r, scope, issues) ==
    [request |-> r, pipeline |-> scan.pipeline, status |-> Status(scan.seen, issues, scope),
     claims |-> ClaimsComplete(scope)]

(* A page ends at its limit or where the answer would be too long.         *)
Page(r, list, print, envelope) ==
    LET start == IF request.follow THEN walk.next ELSE 0
        before == IF request.follow THEN walk.got ELSE << >> IN
    \E n \in {i \in 0..MaxItems : start + i <= Len(list) /\ (i = 0 => list = << >>)} :
      LET got == before \o SubSeq(Rows(scan.seen, r, list), start + 1, start + n)
          more == start + n < Len(list) IN
      /\ reply' = envelope @@ [outcome |-> "page", got |-> got, more |-> more]
      /\ walk' = IF more THEN [request |-> r, print |-> print, next |-> start + n, got |-> got] ELSE Absent

Answer(issues) ==
    LET r == request.r
        list == Listed(scan.seen, r)
        print == Fingerprint(scan.seen, r, list)
        cursor == DecodeCursor(print, Len(list)) IN
    /\ Checked /\ EnsureCurrent /\ request' = Absent
    /\ IF cursor = "ok"
       THEN Page(r, list, print, Envelope(r, r.scope, issues))
       ELSE reply' = [outcome |-> cursor] /\ walk' = Absent
    /\ UNCHANGED << vault, others, scan, stood, restored, raced >> /\ Unused

(* The catalog is made of all memories that were read, whoever asks.       *)
ScopeCatalog == request # Absent /\ request.r.kind = "catalog" /\ Answer(Found(scan.seen) \ Valid(scan.seen))
SearchCandidates == request # Absent /\ request.r.kind = "search" /\ Answer(Issues(scan.seen))
ListTodos == request # Absent /\ request.r.kind = "tasks" /\ Answer(Issues(scan.seen))

(* The directory for a prompt: the scope is the one given, or the project  *)
(* the query names, or that of the directory, or the one saved.  It is     *)
(* saved once, from the directory.  The files are read once only.          *)
EffectiveScope(r) ==
    CASE r.scope # All -> r.scope
      [] r.scope = All /\ r.named # Absent -> r.named
      [] r.scope = All /\ r.named = Absent /\ r.path # Absent -> r.path
      [] r.scope = All /\ r.named = Absent /\ r.path = Absent /\ session # Absent -> session
      [] OTHER -> {"g"}
Context ==
    /\ AllRead /\ scan.at = "first" /\ request.r.kind = "context"
    /\ LET r == [request.r EXCEPT !.scope = EffectiveScope(request.r), !.kind = "search"] IN
       reply' = [outcome |-> "directory", scope |-> r.scope,
                 got |-> Rows(scan.seen, r, Listed(scan.seen, r))]
    /\ session' = (IF session = Absent THEN request.r.path ELSE session)
    /\ request' = Absent
    /\ UNCHANGED << vault, blocked, linked, control, day, scan, walk, stood, restored, raced >> /\ Unused

----------------------------------------------------------------------------
(* Pages of one memory.  The caller passes the version of its first page.  *)

Matching(r) == {p \in Usable(scan.seen) : Note(scan.seen, p).id = r.id}
Identity(r) ==
    IF r.id \in Ambiguous(scan.seen) THEN "memory_id_conflict"
    ELSE IF \E p \in Issues(scan.seen) : Note(scan.seen, p).named /\ Note(scan.seen, p).id = r.id
    THEN "memory_unreadable"
    ELSE IF ~\E p \in Matching(r) : r.history \/ Note(scan.seen, p).validity = "valid"
    THEN "no_match" ELSE "found"
NoBody ==
    /\ Checked /\ EnsureCurrent /\ request.r.kind = "body" /\ Identity(request.r) # "found"
    /\ Refuse(Identity(request.r))
    /\ UNCHANGED << vault, others, stood, restored, raced >> /\ Unused

AnswerBody ==
    LET r == request.r
        p == CHOOSE q \in Matching(r) : TRUE
        version == scan.seen[p]
        offset == IF request.follow THEN walk.next ELSE 0
        more == offset + 1 < Notes[version].pages IN
    /\ Checked /\ EnsureCurrent /\ r.kind = "body" /\ Identity(r) = "found"
    /\ IF request.follow /\ (walk.request # r \/ walk.print # version)
       THEN Refuse("version_mismatch")
       ELSE /\ reply' = Envelope(r, Notes[version].scopes, Issues(scan.seen)) @@
              [outcome |-> "page", more |-> more,
               got |-> (IF request.follow THEN walk.got ELSE << >>) \o << << p, version, offset >> >>]
            /\ walk' = (IF more THEN [request |-> r, print |-> version, next |-> offset + 1, got |-> reply'.got]
                        ELSE Absent)
            /\ IF offset = 0 /\ Area[p] = "knowledge"
               THEN scan' = [scan EXCEPT !.at = "hit", !.doomed = {p}] /\ UNCHANGED request
               ELSE request' = Absent /\ UNCHANGED scan
    /\ UNCHANGED << vault, others, stood, restored, raced >> /\ Unused

(* The first page of a current memory is counted in its file, which is     *)
(* written as it was read.                                                 *)
CountHit ==
    /\ request # Absent /\ scan.at = "hit"
    /\ vault' = [p \in Files |-> IF p \in scan.doomed THEN scan.seen[p] ELSE vault[p]]
    /\ request' = Absent
    /\ UNCHANGED << others, scan, walk, reply, stood, restored, raced >> /\ Unused

----------------------------------------------------------------------------
(* Forget finds its target by title, then all copies of the target.        *)

GroupKey(s, p) ==
    IF Area[p] = "knowledge" THEN << "active", Note(s, p).id >>
    ELSE IF Note(s, p).link # Absent THEN << "active", Note(s, p).link >>
    ELSE << "memory", Note(s, p).id >>
Titled(s, set, title) == {p \in set : Note(s, p).title = title}
Unreadable(s) == Found(s) \ Sound(s)
Copies(s, id) ==
    LET direct == {p \in Sound(s) : Note(s, p).id = id} IN
    IF direct # {} /\ In(s, direct, "knowledge") = {} THEN direct
    ELSE direct \cup {p \in In(s, Sound(s), "history") : Note(s, p).link = id}

(* One group of memories carries the title, or nothing is deleted.         *)
ForgetAbout ==
    LET s == scan.seen
        keys == {GroupKey(s, p) : p \in Titled(s, Valid(s), request.r.title)} IN
    /\ Checked /\ EnsureCurrent /\ request.r.kind = "forget" /\ scan.round = 1
    /\ IF Unreadable(s) # {} THEN Refuse("memory_unreadable")
       ELSE IF Titled(s, Sound(s) \ Valid(s), request.r.title) # {} THEN Refuse("memory_id_conflict")
       ELSE IF Cardinality(keys) # 1 THEN Refuse(IF keys = {} THEN "not_found" ELSE "ambiguous")
       ELSE \E key \in keys :
              /\ IF key[1] = "memory"
                 THEN scan' = [scan EXCEPT !.at = "delete", !.doomed = Titled(s, Valid(s), request.r.title)]
                 ELSE scan' = Scan(2, Areas(request.r))
              /\ request' = [request EXCEPT !.r.id = key[2]]
              /\ UNCHANGED << walk, reply >>
    /\ raced' = (IF scan'.round = 2 THEN {} ELSE raced)
    /\ restored' = (IF scan'.round = 2 THEN {} ELSE restored)
    /\ UNCHANGED << vault, others, stood >> /\ Unused
FindCopies ==
    /\ Checked /\ EnsureCurrent /\ request.r.kind = "forget" /\ scan.round = 2
    /\ IF Unreadable(scan.seen) # {} THEN Refuse("memory_unreadable")
       ELSE /\ scan' = [scan EXCEPT !.at = "delete", !.doomed = Copies(scan.seen, request.r.id)]
            /\ UNCHANGED << request, walk, reply >>
    /\ UNCHANGED << vault, others, stood, restored, raced >> /\ Unused
Delete ==
    /\ request # Absent /\ scan.at = "delete"
    /\ vault' = [p \in Files |-> IF p \in scan.doomed THEN Absent ELSE vault[p]]
    /\ reply' = [outcome |-> "deleted", request |-> request.r, round |-> scan.round]
    /\ request' = Absent
    /\ UNCHANGED << others, scan, walk, stood, restored, raced >> /\ Unused

----------------------------------------------------------------------------
(* What others do.  A person edits at any time; a process that takes the   *)
(* lock of the Vault, only between two queries.                            *)

StillToRead(p) ==
    /\ request # Absent
    /\ \/ scan.at \in {"first", "count"}
       \/ scan.at = "second" /\ (p \in ToSet(scan.todo) \/ Area[p] \in ToSet(scan.areas))
(* The first scan has read it, or found that it is not there.              *)
ReadOnce(p) ==
    StillToRead(p) /\ ~(scan.at = "first" /\ (p \in ToSet(scan.todo) \/ Area[p] \in ToSet(scan.areas)))
Edit(p) ==
    \E content \in World.edits[p] :
      /\ Use("edits") /\ vault[p] # content
      /\ vault' = [vault EXCEPT ![p] = content]
      /\ stood' = (IF request # Absent /\ scan.at \in {"count", "second"}
                   THEN stood \cup {Standing(vault')} ELSE stood)
      /\ restored' = restored \cup (IF ReadOnce(p) /\ scan.seen[p] \in {content, Vanished} THEN {p} ELSE {})
      /\ raced' = (IF StillToRead(p) THEN raced ELSE raced \cup {p})
      /\ UNCHANGED << others, request, scan, walk, reply >>
BlockGroup ==
    \E id \in DOMAIN World.groups :
      /\ request = Absent /\ Use("blocks")
      /\ blocked' = (IF id \in blocked THEN blocked \ {id} ELSE blocked \cup {id})
      /\ UNCHANGED << vault, linked, control, session, day, request, scan, walk, reply, stood, restored, raced >>
LinkScope ==
    /\ request = Absent /\ Use("links") /\ linked' = ~linked
    /\ UNCHANGED << vault, blocked, control, session, day, request, scan, walk, reply, stood, restored, raced >>
JobChanges ==
    /\ Use("jobs")
    /\ control' = (IF "job" \in control THEN control \ {"job"} ELSE control \cup {"job"})
    /\ UNCHANGED << vault, blocked, linked, session, day, request, scan, walk, reply, stood, restored, raced >>

Midnight ==
    /\ Use("days") /\ day' = day + 1
    /\ UNCHANGED << vault, blocked, linked, control, session, request, scan, walk, reply, stood, restored, raced >>

Next ==
    \/ \E r \in World.requests, follow \in BOOLEAN : Ask(r, follow)
    \/ ListArea \/ ReadFile \/ CountPipeline \/ ObserveProgress \/ Changed
    \/ ScopeCatalog \/ SearchCandidates \/ ListTodos \/ Context \/ NoBody \/ AnswerBody \/ CountHit
    \/ ForgetAbout \/ FindCopies \/ Delete
    \/ \E p \in Files : Edit(p)
    \/ BlockGroup \/ LinkScope \/ JobChanges \/ Midnight

Spec == Init /\ [][Next]_vars

----------------------------------------------------------------------------
(* Properties of a step, and all of them together.                         *)

Answers == reply' # reply /\ reply'.outcome = "page"
OfList == Answers /\ request.r.kind # "body"

(* An answer, and a deletion, rest on files that once stood together: at   *)
(* some moment since the first scan ended all of them were as it read      *)
(* them.  The scans are no snapshot, they compare contents: a file that was*)
(* changed and changed back meanwhile may have stood with the others at no *)
(* moment.  Even then each of them stood as it was read.                   *)
OneMoment ==
    (Answers \/ (reply' # reply /\ reply'.outcome = "deleted")) =>
      /\ restored = {} => Files \in stood
      /\ \A p \in Files : scan.seen[p] # Vanished => p \in UNION stood

(* The pages of a walk that came to its end are the list of one state of   *)
(* the Vault, whole, in order and each memory once and in one version.     *)
ListIsWhole ==
    (OfList /\ ~reply'.more)
      => reply'.got = Rows(scan.seen, request.r, Listed(scan.seen, request.r))
BodyIsWhole ==
    (Answers /\ request.r.kind = "body")
      => \A i \in DOMAIN reply'.got : reply'.got[i][2] = reply'.got[1][2] /\ reply'.got[i][3] = i - 1

(* What a file really says decides whether a caller misses it.             *)
Wanted(p, r) ==
    LET note == Note(scan.seen, p) IN
    /\ r.kind # "catalog" /\ Readable(note) /\ (note.scoped => Rank(r.scope, note) > 0)
    /\ note.sound =>
         IF r.kind = "search"
         THEN /\ note.match /\ (note.task => note.status = "active")
              /\ (r.history \/ note.validity = "valid")
         ELSE /\ note.task /\ note.validity = "valid"
              /\ Due(note, r)
              /\ IF Area[p] = "history" THEN note.closed ELSE r.history \/ note.status = "active"
Instead(p, q, r) ==
    LET old == Note(scan.seen, p)
        new == Note(scan.seen, q) IN
    IF r.kind = "search"
    THEN old.sound /\ new.title = old.title /\ Rank(r.scope, new) > Rank(r.scope, old)
    ELSE Area[p] = "history" /\ Area[q] = "knowledge" /\ new.id = old.link

(* A list that is called complete misses no memory: not for a file that    *)
(* could not be read, two that claim one identity, or an unfinished group. *)
Honest ==
    (OfList /\ reply'.status = "complete" /\ reply'.claims) =>
      \A p \in Found(scan.seen) : Wanted(p, request.r) =>
        \/ p \in ToSet(Listed(scan.seen, request.r))
        \/ \E q \in Found(scan.seen) : Instead(p, q, request.r)

(* The directory of a prompt names no memory twice, and none of a group     *)
(* that is unfinished; a session keeps the scope it was given first.       *)
DirectoryIsClean ==
    (reply' # reply /\ reply'.outcome = "directory") =>
      /\ \A i, j \in DOMAIN reply'.got :
           LET one == Notes[reply'.got[i][2]] IN
           /\ i # j => one.id # Notes[reply'.got[j][2]].id
           /\ {one.id, one.link} \cap blocked = {}
      /\ session # Absent => session' = session

(* A task is listed once: never open and closed, and not while a group     *)
(* that writes it is unfinished.  (A reader confined to some scopes does   *)
(* not see that a task lives on in another.)                               *)
OneState ==
    (OfList /\ request.r.kind = "tasks" /\ World.reads = All) =>
      \A p, q \in ToSet(Listed(scan.seen, request.r)) :
        LET one == Note(scan.seen, p)
            two == Note(scan.seen, q) IN
        /\ p # q => one.id # two.id /\ one.link # two.id
        /\ {one.id, one.link} \cap blocked = {}

(* Counting a read changes no memory, save one a person edited just then.  *)
HitsAreHarmless == CountHit => (vault' = vault \/ scan.doomed \subseteq raced)

(* What Forget leaves of a memory, or takes of others, a person wrote      *)
(* after it had looked.                                                    *)
ForgetsOne ==
    (reply' # reply /\ reply'.outcome = "deleted") =>
      \A p \in Files \ raced :
        /\ vault'[p] # vault[p] => request.r.id \in {Notes[vault[p]].id, Notes[vault[p]].link}
        /\ (vault'[p] # Absent /\ scan.round = 2)
             => /\ Notes[vault[p]].sound /\ Notes[vault[p]].id # request.r.id
                /\ (\E q \in scan.doomed : Area[q] = "knowledge") => Notes[vault[p]].link # request.r.id

QueriesHold ==
    [][OneMoment /\ ListIsWhole /\ BodyIsWhole /\ Honest /\ OneState /\ DirectoryIsClean /\ HitsAreHarmless
       /\ ForgetsOne]_vars
=============================================================================
