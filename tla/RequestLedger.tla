---------------------------- MODULE RequestLedger ----------------------------
(***************************************************************************)
(* The ledger of model requests (extraction_work_state.py) and the sealing *)
(* of what is over (runtime_retention.py).  A work may ask a model only so *)
(* often, for good: neither a crash, nor an upgrade, nor a full ledger, nor*)
(* a ledger that was lost gives it its requests back.                      *)
(***************************************************************************)
EXTENDS Naturals, Sequences, FiniteSets, FiniteSetsExt, SequencesExt

CONSTANTS
    Works,        \* source works; each has one turn, named as the work is
    Jobs,         \* works of the older version, named after background jobs
    Limit,        \* MAX_INCREMENTAL_REQUESTS
    MaxWorks, MaxRetired,    \* _MAX_WORKS, _MAX_RETIRED_WORKS
    MaxFull, MaxCompact,     \* MAX_RUNS, MAX_COMPACT_RECEIPTS
    MaxRecords,   \* records sealed at a time
    Absent,
    Loads         \* ledger of the start, and bounds of a behaviour

VARIABLES
    ledger,       \* extraction_request_budget.json
    runs,         \* work -> its run in processed.json
    required,     \* layout.json says that the ledger must exist
    owner,        \* the live owner of the model
    asked,        \* the request handed out and not yet noted in the run
    sealing,      \* the second file of a sealing: works to retire
    preview,      \* what a dry run looked at
    given,        \* work -> requests handed out for it (history)
    extra,        \* work -> those for maintenance (history)
    load, used

vars == << ledger, runs, required, owner, asked, sealing, preview, given, extra, load, used >>

Terminal == {"completed", "failed", "blocked"}
NewTurn == [requests |-> 0, limit |-> Limit, done |-> FALSE, extra |-> FALSE]
Empty == [rows |-> << >>, order |-> << >>]

Ids == IF ledger = Absent THEN {} ELSE DOMAIN ledger.rows
Turn(w) == IF w \in Ids /\ w \in DOMAIN ledger.rows[w].turns THEN ledger.rows[w].turns[w] ELSE NewTurn
Drop(f, S) == [k \in DOMAIN f \ S |-> f[k]]
Put(f, k, v) == [x \in DOMAIN f \cup {k} |-> IF x = k THEN v ELSE f[x]]
Retired(l) == {k \in DOMAIN l.rows : l.rows[k].retired}
Active(l) == DOMAIN l.rows \ Retired(l)
AllDone(row) == row.turns # << >> /\ \A t \in DOMAIN row.turns : row.turns[t].done

Full == {w \in Works : runs[w] # Absent /\ ~runs[w].compact}
Compact == {w \in Works : runs[w] # Absent /\ runs[w].compact}

Use(what) == used[what] < load[what] /\ used' = [used EXCEPT ![what] = @ + 1] /\ UNCHANGED load
Unused == UNCHANGED << load, used >>

(* What an older version left: requests of the turns of its jobs. *)
Init ==
    /\ load \in Loads
    /\ used = [what \in {"crashes", "losses", "upkeeps", "previews"} |-> 0]
    /\ LET kept == {j \in Jobs : load.jobs[j] # << >>} IN
       /\ ledger = IF kept = {} THEN Absent
                   ELSE [rows |-> [j \in kept |-> [turns |-> load.jobs[j], retired |-> FALSE]],
                         order |-> SetToSeq(kept)]
       /\ given = [w \in Works |-> MapThenSumSet(LAMBDA j : load.jobs[j][w].requests,
                                                 {j \in kept : w \in DOMAIN load.jobs[j]})]
    /\ required = (ledger # Absent)
    /\ runs = [w \in Works |-> Absent]
    /\ owner = Absent /\ asked = 0 /\ sealing = Absent /\ preview = Absent
    /\ extra = [w \in Works |-> 0]

(***************************************************************************)
(* Reserving a request.                                                    *)
(***************************************************************************)

(* A missing file is a first use only if nothing says otherwise. *)
Readable == ledger # Absent \/ ~(required \/ \E w \in Works : runs[w] # Absent /\ runs[w].reserved > 0)
Read == IF ledger = Absent THEN Empty ELSE ledger

Oldest(l) == SelectInSeq(l.order, LAMBDA k : k \in Works /\ ~l.rows[k].retired /\ AllDone(l.rows[k]))

(* Mutant: a finished row is deleted to make room. *)
RoomByDropping(l) ==
    LET k == l.order[Oldest(l)] IN
    [rows |-> Drop(l.rows, {k}), order |-> SelectSeq(l.order, LAMBDA x : x # k)]

RoomByRetiring(l) == [l EXCEPT !.rows[l.order[Oldest(l)]].retired = TRUE]

CanTake(l, w) ==
    \/ w \in DOMAIN l.rows \/ Cardinality(Active(l)) < MaxWorks
    \/ Oldest(l) # 0 /\ Cardinality(Retired(l)) < MaxRetired

(* _work_unlocked *)
WithWork(l, w) ==
    IF w \in DOMAIN l.rows THEN l
    ELSE LET room == IF Cardinality(Active(l)) < MaxWorks THEN l ELSE RoomByRetiring(l) IN
         [rows |-> Put(room.rows, w, [turns |-> << >>, retired |-> FALSE]),
          order |-> Append(room.order, w)]

(* Jobs that hold requests of the same turn *)
Older(l, w) == {j \in Jobs \cap DOMAIN l.rows : w \in DOMAIN l.rows[j].turns}

WithoutOlder(l, w) ==
    LET left(j) == [l.rows[j] EXCEPT !.turns = Drop(@, {w})]
        gone == {j \in Older(l, w) : left(j).turns = << >>} IN
    [rows |-> [k \in DOMAIN l.rows \ gone |-> IF k \in Older(l, w) THEN left(k) ELSE l.rows[k]],
     order |-> SelectSeq(l.order, LAMBDA k : k \notin gone)]

Merged(l, w, rows) ==
    LET all == {l.rows[j].turns[w] : j \in Older(l, w)}
               \cup (IF w \in DOMAIN rows[w].turns THEN {rows[w].turns[w]} ELSE {})
        own == IF w \in DOMAIN rows[w].turns THEN rows[w].turns[w].requests ELSE 0 IN
    [requests |-> own + MapThenSumSet(LAMBDA j : l.rows[j].turns[w].requests, Older(l, w)),
     limit |-> Min({Limit} \cup {turn.limit : turn \in all}),
     done |-> \E turn \in all : turn.done, extra |-> FALSE]

(* A request that cannot be decided, for the run is blocked. *)
Undecidable(w) ==
    \/ ~Readable \/ (runs[w].reserved > Turn(w).requests)
    \/ LET l == Read IN
       \/ Older(l, w) # {} /\ ~load.unchanged
       \/ ~CanTake(WithoutOlder(l, w), w)
       \/ Older(l, w) # {} /\ w \in DOMAIN l.rows /\ l.rows[w].retired

(* reserve_model_request: the ledger after it, and the ordinal (0: none)   *)
Reserved(w) ==
    LET old == Read
        taken == WithWork(WithoutOlder(old, w), w)
        row == taken.rows[w]
        moved == IF Older(old, w) = {} THEN taken
                 ELSE [taken EXCEPT !.rows[w].turns = Put(row.turns, w, Merged(old, w, taken.rows))]
        turn == IF w \in DOMAIN moved.rows[w].turns THEN moved.rows[w].turns[w] ELSE NewTurn
        refused == row.retired \/ turn.done \/ turn.requests >= Min({turn.limit, Limit}) IN
    IF refused
    THEN [ordinal |-> 0, file |-> IF Older(old, w) # {} THEN moved ELSE ledger]
    ELSE [ordinal |-> turn.requests + 1,
          file |-> [moved EXCEPT !.rows[w].turns =
                        Put(@, w, [turn EXCEPT !.requests = @ + 1])]]

Idle == sealing = Absent
RunIs(w, status) == runs' = [runs EXCEPT ![w].status = status]

Start(w) ==
    /\ runs[w] = Absent /\ owner = Absent /\ Idle
    /\ Cardinality(Full) < MaxFull
    /\ runs' = [runs EXCEPT ![w] = [status |-> "ready", reserved |-> 0, final |-> FALSE, compact |-> FALSE]]
    /\ owner' = w
    /\ UNCHANGED << ledger, required, asked, sealing, preview, given, extra >> /\ Unused

(* resume_incremental_run of a run whose owner died *)
Resume(w) ==
    /\ runs[w] # Absent /\ runs[w].status = "ready" /\ owner = Absent /\ Idle
    /\ owner' = w /\ asked' = 0
    /\ UNCHANGED << ledger, runs, required, sealing, preview, given, extra >> /\ Unused

Reserve(w) ==
    /\ owner = w /\ runs[w].status = "ready" /\ asked = 0 /\ Idle
    /\ IF Undecidable(w)
       THEN RunIs(w, "blocked") /\ owner' = Absent /\ UNCHANGED << ledger, required, asked, given >>
       ELSE LET result == Reserved(w) IN
            /\ ledger' = result.file /\ required' = (required \/ result.file # ledger)
            /\ IF result.ordinal = 0
               THEN RunIs(w, "failed") /\ owner' = Absent /\ UNCHANGED << asked, given >>
               ELSE /\ asked' = result.ordinal /\ given' = [given EXCEPT ![w] = @ + 1]
                    /\ UNCHANGED << runs, owner >>
    /\ UNCHANGED << sealing, preview, extra >> /\ Unused

(* The run notes the count of the ledger; then the model answers. *)
Answer(w) ==
    /\ owner = w /\ asked > 0 /\ Idle
    /\ \E status \in {"ready", "completed", "failed"} :
         /\ runs' = [runs EXCEPT ![w].status = status, ![w].reserved = Turn(w).requests]
         /\ owner' = IF status = "ready" THEN owner ELSE Absent
    /\ asked' = 0
    /\ UNCHANGED << ledger, required, sealing, preview, given, extra >> /\ Unused

(* complete_turn_budget: the row, then the mark of the run *)
Finalize(w) ==
    /\ runs[w] # Absent /\ runs[w].status = "completed" /\ ~runs[w].final /\ Idle
    /\ w \in Ids /\ w \in DOMAIN ledger.rows[w].turns
    /\ IF Turn(w).done
       THEN runs' = [runs EXCEPT ![w].final = TRUE] /\ UNCHANGED << ledger, required >>
       ELSE /\ ledger' = [ledger EXCEPT !.rows[w].turns[w].done = TRUE] /\ required' = TRUE
            /\ UNCHANGED runs
    /\ UNCHANGED << owner, asked, sealing, preview, given, extra >> /\ Unused

(* _reserve_maintenance_unlocked *)
ReserveMaintenance(w) ==
    /\ runs[w] # Absent /\ runs[w].status = "completed" /\ runs[w].final /\ owner = Absent /\ Idle
    /\ w \in Ids /\ Turn(w).done /\ ~ledger.rows[w].retired /\ ~Turn(w).extra
    /\ runs[w].reserved <= Turn(w).requests /\ Turn(w).requests < Min({Turn(w).limit, Limit})
    /\ Use("upkeeps")
    /\ ledger' = [ledger EXCEPT !.rows[w].turns[w].requests = @ + 1, !.rows[w].turns[w].extra = TRUE]
    /\ given' = [given EXCEPT ![w] = @ + 1] /\ extra' = [extra EXCEPT ![w] = @ + 1]
    /\ UNCHANGED << runs, required, owner, asked, sealing, preview >>

(***************************************************************************)
(* compact_runtime_state.                                                  *)
(***************************************************************************)

Sealable ==
    {w \in Full : /\ runs[w].status = "completed" /\ runs[w].final
                  /\ Turn(w).done /\ Turn(w).requests >= runs[w].reserved}

Retirable(sealed) ==
    {w \in Works \cap Ids : /\ ~ledger.rows[w].retired /\ AllDone(ledger.rows[w])
                            /\ w \in Compact \cup sealed}

AtMost(n, S) == {T \in SUBSET S : Cardinality(T) = Min({n, Cardinality(S)})}

Room(bound, S) == Min({MaxRecords, bound - Cardinality(S)})

(* _prepare and the first replacement; the second is written after it *)
Seal ==
    \E sealed \in AtMost(Room(MaxCompact, Compact), Sealable) :
    \E retire \in AtMost(Room(MaxRetired, Retired(Read)), Retirable(sealed)) :
        /\ sealed \cup retire # {}
        /\ runs' = [w \in Works |-> IF w \in sealed THEN [runs[w] EXCEPT !.compact = TRUE] ELSE runs[w]]
        /\ sealing' = retire

(* One that has nothing to seal allows nothing later and is left out. *)
Preview ==
    /\ preview = Absent /\ owner = Absent /\ Idle /\ Sealable # {} /\ Use("previews")
    /\ preview' = << ledger, runs >>
    /\ UNCHANGED << ledger, runs, required, owner, asked, sealing, given, extra >>

Apply ==
    /\ preview # Absent /\ owner = Absent /\ Idle /\ preview' = Absent
    /\ IF preview = << ledger, runs >> THEN Seal ELSE UNCHANGED << runs, sealing >>
    /\ UNCHANGED << ledger, required, owner, asked, given, extra >> /\ Unused

(* maintain_runtime_unlocked, before a new run is reserved *)
Crowded == \/ Cardinality(Full) * 4 >= MaxFull * 3 \/ Cardinality(Active(Read)) * 4 >= MaxWorks * 3

Maintain ==
    /\ owner = Absent /\ Idle /\ Crowded /\ (\E w \in Works : runs[w] = Absent)
    /\ Seal
    /\ UNCHANGED << ledger, required, owner, asked, preview, given, extra >> /\ Unused

SealBudget ==
    /\ sealing # Absent
    /\ ledger' = IF sealing = {} THEN ledger
                 ELSE [ledger EXCEPT !.rows = [k \in DOMAIN @ |->
                           IF k \in sealing THEN [@[k] EXCEPT !.retired = TRUE] ELSE @[k]]]
    /\ sealing' = Absent
    /\ UNCHANGED << runs, required, owner, asked, preview, given, extra >> /\ Unused

(***************************************************************************)
(* What goes wrong.                                                        *)
(***************************************************************************)

Crash ==
    /\ (owner # Absent \/ sealing # Absent) /\ Use("crashes")
    /\ owner' = Absent /\ asked' = 0 /\ sealing' = Absent
    /\ UNCHANGED << ledger, runs, required, preview, given, extra >>

Lose ==
    /\ ledger # Absent /\ Idle /\ Use("losses")
    /\ ledger' = Absent
    /\ UNCHANGED << runs, required, owner, asked, sealing, preview, given, extra >>

Next ==
    \/ \E w \in Works : \/ Start(w) \/ Resume(w) \/ Reserve(w) \/ Answer(w)
                        \/ Finalize(w) \/ ReserveMaintenance(w)
    \/ Preview \/ Apply \/ Maintain \/ SealBudget \/ Crash \/ Lose

(***************************************************************************)
(* Properties.                                                             *)
(***************************************************************************)

Counted(w) == Turn(w).requests + MapThenSumSet(LAMBDA j : Read.rows[j].turns[w].requests, Older(Read, w))

(* "Reservations precede actual dispatch": every request that was handed   *)
(* out is on file as long as the ledger is, and there are no more of them  *)
(* than the work may have.                                                 *)
SpentIsSpent ==
    \A w \in Works : /\ given[w] <= Limit /\ extra[w] <= 1
                     /\ load.unchanged /\ ledger # Absent => given[w] = Counted(w)

(* A lost ledger hands out nothing. *)
LostStaysLost == required /\ ledger = Absent => given' = given /\ ledger' = Absent

(* "A terminal label alone is insufficient": what was sealed is over.      *)
SealedIsOver ==
    /\ \A w \in Compact : runs[w].status = "completed" /\ runs[w].final
    /\ ledger # Absent =>
         /\ \A w \in Compact : w \in Ids /\ Turn(w).done /\ Turn(w).requests >= runs[w].reserved
         /\ \A k \in Retired(ledger) : AllDone(ledger.rows[k])
         /\ Cardinality(Retired(ledger)) <= MaxRetired /\ Cardinality(Active(ledger)) <= MaxWorks
    /\ Cardinality(Full) <= MaxFull /\ Cardinality(Compact) <= MaxCompact

(* Sealed stays sealed: no later step asks for it or opens it again. *)
SealedStays ==
    /\ \A w \in Compact : runs'[w] = runs[w] /\ given'[w] - given[w] = extra'[w] - extra[w]
    /\ ledger # Absent /\ ledger' # Absent =>
         \A k \in Retired(ledger) : k \in DOMAIN ledger'.rows /\ ledger'.rows[k] = ledger.rows[k]

(* The ledger of requests, in every step. *)
LedgerHolds == [][(SpentIsSpent /\ SealedIsOver)' /\ LostStaysLost /\ SealedStays]_vars

Spec == Init /\ [][Next]_vars
=============================================================================
