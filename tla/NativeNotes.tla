----------------------------- MODULE NativeNotes -----------------------------
(***************************************************************************)
(* The notes an agent keeps in files of its own (native_index.py), which   *)
(* memleaf only reads: an index that is refreshed before every request,    *)
(* the requests that answer from it, and the comparison an incremental run *)
(* makes with the notes before it writes (incremental_native.py).  Nobody  *)
(* tells memleaf of a change: a person edits, locks, moves and shares the  *)
(* files between any two steps.  A note is a sequence of segments, and a   *)
(* segment is known by its source, its place and its text.                 *)
(***************************************************************************)
EXTENDS Naturals, Sequences, FiniteSets, FiniteSetsExt, Functions

CONSTANTS
    Sources,      \* ids under native_sources
    Agents,
    Files,        \* paths
    None,
    Loads         \* start of a behaviour, and what a person may do in it

VARIABLES
    config,       \* source -> [agent, path, share, enabled], or None
    file,         \* path -> [kind, text, stamp, quiet]; quiet (history): changed
                  \* since its time and size last did
    index,        \* native_sources.json: source -> entry, or None
    ask,          \* the request that holds the lock
    guard,        \* what a frozen run compared with
    shadowed,     \* segments hidden by a memory of an older version (history)
    load, used

vars == << config, file, index, ask, guard, shadowed, load, used >>

Use(what) == used[what] < load[what] /\ used' = [used EXCEPT ![what] = @ + 1] /\ UNCHANGED load
Unused == UNCHANGED << load, used >>

Put(f, k, v) == [x \in DOMAIN f \cup {k} |-> IF x = k THEN v ELSE f[x]]
Ids(s, text) == {[source |-> s, place |-> i, text |-> text[i]] : i \in DOMAIN text}

(***************************************************************************)
(* What the configuration and a file say now.                              *)
(***************************************************************************)

Known == {s \in Sources : config[s] # None}
Legal == /\ \A s, t \in Known : config[s].path = config[t].path => s = t
         /\ \A s \in Known : file[config[s].path].kind # "directory"

(* A link, a missing file and a directory have no size and no time.         *)
Stat(f) == [availability |-> IF f.kind \in {"missing", "unsafe", "directory", "large"} THEN f.kind ELSE "ready",
            stamp |-> IF f.kind \in {"missing", "unsafe", "directory"} THEN None ELSE f.stamp]

Entry(s, availability, text, shadows) ==
    [agent |-> config[s].agent, path |-> config[s].path, share |-> config[s].share,
     enabled |-> config[s].enabled, availability |-> availability,
     stamp |-> Stat(file[config[s].path]).stamp, text |-> text, shadows |-> shadows]

ReadSource(s, old) ==
    LET f == file[config[s].path]
        kept == IF old # None /\ old.path = config[s].path THEN old.shadows ELSE {} IN
    CASE ~config[s].enabled -> Entry(s, "disabled", << >>, {})
      [] Stat(f).availability # "ready" -> Entry(s, Stat(f).availability, << >>, {})
      [] f.kind \in {"unreadable", "binary"} -> Entry(s, f.kind, << >>, {})
      [] OTHER -> Entry(s, "available", f.text, kept \cap Ids(s, f.text))

(* Mutant: a change of the share flag alone does not renew an entry.        *)
ConfigKeptButShare(s, old) ==
    old.agent = config[s].agent /\ old.path = config[s].path /\ old.enabled = config[s].enabled
ConfigKept(s, old) ==
    /\ old.agent = config[s].agent /\ old.path = config[s].path
    /\ old.share = config[s].share /\ old.enabled = config[s].enabled

Indexed(s) == IF index # None /\ s \in DOMAIN index THEN index[s] ELSE None

(* The fast path trusts time and size, whatever the entry said of the file. *)
CanReuse(s, full) ==
    /\ ~full /\ Indexed(s) # None /\ ConfigKept(s, Indexed(s))
    /\ Indexed(s).stamp = Stat(file[config[s].path]).stamp

Refreshed(full) ==
    [s \in Known |-> IF CanReuse(s, full) THEN Indexed(s) ELSE ReadSource(s, Indexed(s))]

(* A segment is read again from its file before it is handed out.           *)
Current(ix, id) ==
    /\ id.source \in DOMAIN ix /\ id.source \in Known
    /\ LET e == ix[id.source]
           f == file[config[id.source].path] IN
       /\ e.availability = "available" /\ e.path = config[id.source].path
       /\ Stat(f).availability = "ready" /\ Stat(f).stamp = e.stamp
       /\ f.kind = "note" /\ f.text = e.text
       /\ id \in Ids(id.source, e.text)

(* "agent" None asks for what everybody may see; an agent is not told what  *)
(* it wrote itself.                                                         *)
SourceAllowed(e, agent) ==
    e.enabled /\ e.availability = "available" /\ e.share /\ e.agent # agent

(***************************************************************************)
(* Requests.                                                               *)
(***************************************************************************)

(* A term of the segment is a term of the query.                            *)
Matches(word, id) == id.text = word

Fair(cfg, agent) ==
    {s \in Sources : cfg[s] # None /\ cfg[s].enabled /\ cfg[s].share /\ cfg[s].agent # agent}

Candidates(ix, agent, word) ==
    {id \in UNION {Ids(s, ix[s].text) : s \in {t \in DOMAIN ix : SourceAllowed(ix[t], agent)}} :
        Matches(word, id) /\ id \notin ix[id.source].shadows}

Request(kind, agent, what, left) ==
    [kind |-> kind, agent |-> agent, what |-> what, left |-> left, got |-> {}, stage |-> "open",
     fair |-> Fair(config, agent), touched |-> {}, bodies |-> << >>]

Failed(kind) == [Request(kind, None, None, {}) EXCEPT !.stage = "failed"]

(* An illegal configuration, or an index that cannot be written, fails the  *)
(* request that found it and leaves the old index.                          *)
Refresh(kind, full, after) ==
    /\ UNCHANGED << config, file, guard, shadowed >>
    /\ \/ ~Legal /\ ask' = Failed(kind) /\ UNCHANGED index /\ Unused
       \/ Legal /\ index' = Refreshed(full) /\ ask' = after /\ Unused
       \/ /\ Legal /\ index # Refreshed(full) /\ Use("faults")
          /\ ask' = Failed(kind) /\ UNCHANGED index

Idle == ask = None

RefreshSources(full) ==
    Idle /\ Refresh("refresh", full, [Request("refresh", None, full, {}) EXCEPT !.stage = "done"])

Search(agent, word) ==
    Idle /\ Refresh("search", FALSE,
        Request("search", agent, word, Candidates(Refreshed(FALSE), agent, word)))

(* The index is refreshed again before every candidate.                     *)
ReadCandidate(id) ==
    /\ ~Idle /\ ask.kind = "search" /\ ask.stage = "open" /\ id \in ask.left
    /\ Refresh("search", FALSE,
         [ask EXCEPT !.left = @ \ {id}, !.got = IF Current(Refreshed(FALSE), id) THEN @ \cup {id} ELSE @])

SearchDone ==
    /\ ~Idle /\ ask.kind = "search" /\ ask.stage = "open" /\ ask.left = {}
    /\ ask' = [ask EXCEPT !.stage = "done"]
    /\ UNCHANGED << config, file, index, guard, shadowed >> /\ Unused

(* read_shared_segment_by_id_unlocked: the flags are those of the entry just*)
(* refreshed; the configuration is read once more with the file.            *)
ReadShared(id) ==
    LET ix == Refreshed(FALSE) IN
    Idle /\ Refresh("shared", FALSE,
        Request("shared", None, id,
            IF id.source \in DOMAIN ix /\ SourceAllowed(ix[id.source], None)
               /\ id \in Ids(id.source, ix[id.source].text) THEN {id} ELSE {}))

SharedRead ==
    /\ ~Idle /\ ask.kind = "shared" /\ ask.stage = "open"
    /\ ask' = IF ~Legal /\ ask.left # {} THEN Failed("shared")
              ELSE [ask EXCEPT !.stage = "done", !.left = {}, !.got = {id \in ask.left : Current(index, id)}]
    /\ UNCHANGED << config, file, index, guard, shadowed >> /\ Unused

(* read_segment serves the local API, which may see private notes.          *)
ReadSegment(id) ==
    Idle /\ Refresh("segment", FALSE,
        [Request("segment", None, id, {}) EXCEPT !.stage = "done",
            !.got = IF Current(Refreshed(FALSE), id) THEN {id} ELSE {}])

(***************************************************************************)
(* The comparison of an incremental run.                                   *)
(***************************************************************************)

(* One stable regular file, read whole; anything else blocks the planner.   *)
Readable(f) == f.kind = "note"

Eligible(agent) == {s \in Known : config[s].enabled /\ (config[s].agent = agent \/ config[s].share)}

Fingerprint(c) == [entry |-> c, file |-> file[c.path].text]

(* The configuration is read once, the files one after another.             *)
Compare(kind, agent) ==
    /\ Idle
    /\ ask' = IF Legal THEN [Request(kind, agent, << >>, Eligible(agent)) EXCEPT !.got = config] ELSE Failed(kind)
    /\ UNCHANGED << config, file, index, guard, shadowed >> /\ Unused

Freeze(agent) == guard = None /\ Compare("freeze", agent)
Recheck == guard # None /\ Compare("recheck", guard.agent)

CompareFile(s) ==
    /\ ~Idle /\ ask.kind \in {"freeze", "recheck"} /\ ask.stage = "open" /\ s \in ask.left
    /\ LET c == ask.got[s] IN
       ask' = IF ~Readable(file[c.path]) THEN Failed(ask.kind)
              ELSE [ask EXCEPT !.left = @ \ {s}, !.what = Put(@, s, Fingerprint(c)),
                               !.bodies = Put(@, s, file[c.path].text)]
    /\ UNCHANGED << config, file, index, guard, shadowed >> /\ Unused

Compared ==
    /\ ~Idle /\ ask.kind \in {"freeze", "recheck"} /\ ask.stage = "open" /\ ask.left = {}
    /\ IF ask.kind = "freeze"
       THEN guard' = [agent |-> ask.agent, sources |-> ask.what, bodies |-> ask.bodies] /\ ask' = None
       ELSE /\ ask' = [ask EXCEPT !.stage = IF ask.what = guard.sources THEN "done" ELSE "stale"]
            /\ UNCHANGED guard
    /\ UNCHANGED << config, file, index, shadowed >> /\ Unused

(* A request is over, or its process dies.                                  *)
Over == /\ ~Idle /\ ask.stage # "open" /\ ask' = None
        /\ UNCHANGED << config, file, index, guard, shadowed >> /\ Unused
Die == /\ ~Idle /\ ask.stage = "open" /\ ask' = None /\ Use("faults")
       /\ UNCHANGED << config, file, index, guard, shadowed >>

(***************************************************************************)
(* What a person, or the host that owns the notes, does meanwhile.         *)
(***************************************************************************)

Stays(s, cfg, fl) == /\ cfg[s] # None /\ cfg[s].path = config[s].path
                     /\ cfg[s].enabled /\ fl[cfg[s].path].kind = "note"

Meanwhile(cfg, fl) ==
    /\ config' = cfg /\ file' = fl /\ Use("edits")
    /\ shadowed' = {id \in shadowed : Stays(id.source, cfg, fl) /\ id \in Ids(id.source, fl[cfg[id.source].path].text)}
    /\ ask' = IF Idle THEN ask ELSE
          [ask EXCEPT !.fair = @ \cup Fair(cfg, ask.agent),
             !.touched = @ \cup {s \in Sources : cfg[s] # config[s] \/ (cfg[s] # None /\ fl[cfg[s].path] # file[cfg[s].path])}]
    /\ UNCHANGED << index, guard >>

Stamped(f) == [f EXCEPT !.stamp = @ + 1, !.quiet = FALSE]

EditNote(p, text) == /\ file[p].kind = "note" /\ file[p].text # text
                     /\ Meanwhile(config, [file EXCEPT ![p] = [Stamped(@) EXCEPT !.text = text]])
(* An edit of the same length within the tick of the clock, or a tool that  *)
(* puts the time back.                                                      *)
EditQuietly(p, text) == /\ file[p].kind = "note" /\ file[p].text # text
                        /\ Meanwhile(config, [file EXCEPT ![p].text = text, ![p].quiet = TRUE])
(* Permissions change neither the time nor the size.                        *)
Lock(p) == file[p].kind = "note" /\ Meanwhile(config, [file EXCEPT ![p].kind = "unreadable", ![p].quiet = TRUE])
Unlock(p) == file[p].kind = "unreadable" /\ Meanwhile(config, [file EXCEPT ![p].kind = "note", ![p].quiet = TRUE])
Replace(p, kind) == file[p].kind # kind /\ Meanwhile(config, [file EXCEPT ![p] = [Stamped(@) EXCEPT !.kind = kind]])

ToggleShare(s) == s \in Known /\ Meanwhile([config EXCEPT ![s].share = ~@], file)
ToggleEnabled(s) == s \in Known /\ Meanwhile([config EXCEPT ![s].enabled = ~@], file)
Move(s, p) == s \in Known /\ config[s].path # p /\ Meanwhile([config EXCEPT ![s].path = p], file)
Remove(s) == s \in Known /\ Meanwhile([config EXCEPT ![s] = None], file)

Init ==
    /\ load \in Loads
    /\ used = [what \in {"edits", "faults"} |-> 0]
    /\ config = load.sources /\ file = load.file /\ index = load.index
    /\ ask = None /\ guard = None
    /\ shadowed = IF load.index = None THEN {} ELSE UNION {load.index[s].shadows : s \in DOMAIN load.index}

Next ==
    \/ \E full \in BOOLEAN : RefreshSources(full)
    \/ \E a \in Agents, w \in load.words : Search(a, w)
    \/ ~Idle /\ \E id \in ask.left : ReadCandidate(id)
    \/ SearchDone \/ SharedRead
    \/ \E id \in load.ids : ReadShared(id) \/ ReadSegment(id)
    \/ \E a \in load.planners : Freeze(a)
    \/ Recheck \/ Compared \/ Over \/ Die
    \/ ~Idle /\ \E s \in ask.left : CompareFile(s)
    \/ \E p \in Files, text \in load.texts : EditNote(p, text)
    \/ \E p \in Files, text \in load.quiet : EditQuietly(p, text)
    \/ "lock" \in load.may /\ \E p \in Files : Lock(p) \/ Unlock(p)
    \/ \E p \in Files, kind \in load.kinds : Replace(p, kind)
    \/ "share" \in load.may /\ \E s \in Sources : ToggleShare(s)
    \/ "enable" \in load.may /\ \E s \in Sources : ToggleEnabled(s)
    \/ "move" \in load.may /\ \E s \in Sources, p \in Files : Move(s, p) \/ Remove(s)

(***************************************************************************)
(* Properties.                                                             *)
(***************************************************************************)

Served == ~Idle /\ ask.stage = "done" /\ ask.kind \in {"search", "shared", "segment"}
Says(s, id) == /\ s \in Known /\ config[s].enabled
               /\ file[config[s].path].kind = "note" /\ id \in Ids(s, file[config[s].path].text)

(* What a request answers under the id of a segment is what the file holds  *)
(* there, though the index may be older than the file (native_index.py:469).*)
NamedByContent == Served => \A id \in ask.got : id.source \in ask.touched \/ Says(id.source, id)

(* A note reaches another agent only if its source was shared at some moment*)
(* of the request, whatever an index of earlier requests says               *)
(* (native_index.py:299, 586).                                              *)
OnlyShared == Served /\ ask.kind \in {"search", "shared"} => {id.source : id \in ask.got} \subseteq ask.fair

(* A search nobody disturbed finds every note of every shared source, one   *)
(* broken source or not; only a file that changed while its time and size   *)
(* did not is missed (native_index.py:397).                                 *)
SearchIsWhole ==
    Served /\ ask.kind = "search" /\ ask.touched = {} =>
        \A s \in Fair(config, ask.agent) :
            \/ file[config[s].path].kind # "note" \/ file[config[s].path].quiet
            \/ \A id \in Ids(s, file[config[s].path].text) :
                   Matches(ask.what, id) /\ id \notin load.hidden => id \in ask.got

(* A segment that a memory of an older version stands for stays out of the  *)
(* answers while the note is there unchanged, through every refresh and     *)
(* every change beside it (native_index.py:349).                            *)
ShadowsStay == Served /\ ask.kind = "search" => ask.got \cap shadowed = {}

(* A run is told that its notes are current only if every note it may see is*)
(* what it compared with, and no other came into its sight                  *)
(* (incremental_native.py:159).                                             *)
CurrentIsUnchanged ==
    ~Idle /\ ask.kind = "recheck" /\ ask.stage = "done" =>
        \A s \in Sources \ ask.touched :
            /\ (s \in Eligible(guard.agent)) = (s \in DOMAIN guard.bodies)
            /\ s \in DOMAIN guard.bodies => file[config[s].path].text = guard.bodies[s]

NotesHold == [](NamedByContent /\ OnlyShared /\ SearchIsWhole /\ ShadowsStay /\ CurrentIsUnchanged)
=============================================================================
