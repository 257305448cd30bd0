-------------------------- MODULE VaultStateSafety --------------------------
(* The inductive invariant of VaultState, and the theorem that its          *)
(* properties hold in every step: for any number of files, of parts of a    *)
(* staging directory and of processes that open the Vault, and any bounds   *)
(* on deaths, writes and losses.                                            *)
EXTENDS VaultState, TLAPS

-----------------------------------------------------------------------------

Migrating == {"copy", "stage", "fill", "mark"}
Settling == {"check", "cleanup", "bind", "files", "require", "config"}
Inside == Migrating \cup Settling
Copying == {"copy", "publish", "verify"}

IsOpen(o) == o = [at |-> o.at, fresh |-> o.fresh, left |-> o.left, moved |-> o.moved]

IsMarker(k) ==
    k = [complete |-> k.complete, moved |-> k.moved, required |-> k.required, owner |-> k.owner]

IsBackup(b) ==
    b = [at |-> b.at, wanted |-> b.wanted, taken |-> b.taken, files |-> b.files,
         manifest |-> b.manifest]

IsState(f) == DOMAIN f = Files /\ \A k \in Files : f[k] \in Nat \cup {Absent}

Typed ==
    /\ DOMAIN open = Openers /\ \A p \in Openers : IsOpen(open[p]) /\ open[p].left \subseteq Files
    /\ IsMarker(marker) /\ marker.complete \in BOOLEAN /\ IsBackup(backup)
    /\ IsState(legacy) /\ IsState(state) /\ IsState(last)
    /\ oldStage \in {Absent, Parts} /\ newStage \in {Absent} \cup SUBSET Parts /\ load.old \in BOOLEAN

\* The lock is held by who is inside.
Locked ==
    /\ \A p \in Openers : open[p].at \in Inside => lock = p
    /\ backup.at \in Copying => lock = "backup"

Copied(f) == legacy[f] \in {Absent, state[f]}

\* What is known where an opening is.
PlacedAt(p) ==
    LET o == open[p] IN
    /\ o.at \in Migrating =>
        /\ ~marker.complete
        /\ \A f \in o.moved \cap Files : state[f] # Absent
        /\ "staging" \in o.moved => newStage = Parts
    /\ o.at \in Settling \cup {"ready"} => marker.complete
    /\ o.at \in {"mkdir", "lock"} => o.moved = {}
    /\ o.at = "copy" => \A f \in Files \ o.left : Copied(f)
    /\ o.at \in {"stage", "fill", "mark"} => \A f \in Files : Copied(f)
    /\ o.at = "fill" => oldStage = Parts /\ newStage # Absent
    /\ load.old => ~o.fresh

Placed == \A p \in Openers : PlacedAt(p)

\* A staging directory that is not whole is being filled, or was cut off.
Filling == newStage \in {Absent, Parts} \/ torn \/ \E p \in Openers : open[p].at = "fill"

\* A copy is not newer than what it was copied from.
Behind ==
    ~marker.complete =>
        /\ lost = {} /\ gone = {} /\ marker.moved = {}
        /\ \A f \in Files : legacy[f] # Absent /\ state[f] # Absent => state[f] <= legacy[f]

\* What was moved and is not there any more went in use, or was lost.
Accounted ==
    /\ marker.complete =>
        \A f \in marker.moved \cap Files : state[f] = Absent => f \in gone \cup lost
    /\ \A f \in lost : f \in Durable /\ state[f] = Absent /\ Required(f)
    /\ load.old => made /\ marker.owner = Absent

\* A copy that differs keeps the migration from its end, and so stays.
Differs ==
    ~marker.complete /\ \E f \in Files : legacy[f] # Absent /\ state[f] \notin {Absent, legacy[f]}

Cause == torn \/ gone \cap marker.moved # {} \/ lost \cap marker.moved # {} \/ Differs

Caused == (\E p \in Openers : open[p].at = "refused") => Cause

Backups ==
    LET b == backup IN
    /\ b.at \in {"none", "asked"} => b.files = [f \in {} |-> Absent]
    /\ b.at \in {"none", "asked", "copy", "publish"} => b.manifest = Absent
    /\ b.at \in Copying =>
        /\ b.taken = b.wanted /\ b.taken = [f \in DOMAIN b.taken |-> b.taken[f]]
        /\ DOMAIN b.files \subseteq DOMAIN b.taken
        /\ b.files = [f \in DOMAIN b.files |-> b.taken[f]]
    /\ b.at \in {"publish", "verify"} => b.files = b.taken
    /\ b.at = "verify" => b.manifest = b.taken
    /\ BackupWhole

Inv ==
    /\ Typed /\ Locked /\ Placed /\ Filling /\ Behind /\ Accounted /\ Caused /\ Backups
    /\ StateKept

-----------------------------------------------------------------------------

LEMMA InitInv == Named /\ Init => Inv
<1> SUFFICES ASSUME Named, Init PROVE Inv
  OBVIOUS
<1>1. Typed
  <2>1. load.old \in BOOLEAN
    BY DEF Init, Named
  <2>2. /\ DOMAIN open = Openers
        /\ \A p \in Openers : IsOpen(open[p]) /\ open[p].left \subseteq Files
    BY DEF Init, IsOpen, Nobody
  <2>3. IsMarker(marker) /\ marker.complete \in BOOLEAN /\ IsBackup(backup)
    BY DEF Init, NoMarker, NoBackup, IsMarker, IsBackup
  <2>4. IsState(legacy) /\ IsState(state) /\ IsState(last)
    BY <2>1 DEF Init, IsState
  <2>5. QED
    BY <2>1, <2>2, <2>3, <2>4 DEF Init, Typed
<1>2. \A p \in Openers : open[p].at = "away" /\ ~open[p].fresh
  BY DEF Init, Nobody
<1>3. Locked /\ Placed /\ Caused
  BY <1>2 DEF Init, Locked, Placed, PlacedAt, Caused, NoBackup, Inside, Migrating, Settling, Copying
<1>4. Filling /\ Behind /\ Accounted
  BY DEF Init, Filling, Behind, Accounted, NoMarker
<1>5. Backups
  BY DEF Init, Backups, BackupWhole, NoBackup, Copying
<1>6. StateKept
  BY DEF Init, StateKept, NoMarker
<1>7. QED
  BY <1>1, <1>3, <1>4, <1>5, <1>6 DEF Inv

-----------------------------------------------------------------------------
(* What a step leaves as it is. *)

Moves(p, at, left, moved) ==
    /\ DOMAIN open' = Openers /\ \A q \in Openers : q # p => open'[q] = open[q]
    /\ IsOpen(open'[p]) /\ open'[p].at = at /\ (load.old => ~open'[p].fresh)
    /\ open'[p].left = left /\ open'[p].moved = moved /\ left \subseteq Files

\* The step of an opening that changes nothing but where it is.
LEMMA GoMoves ==
    ASSUME Inv, NEW p \in Openers, NEW place, Go(p, place)
    PROVE  Moves(p, place, open[p].left, open[p].moved)
<1>1. IsOpen(open[p]) /\ open[p].left \subseteq Files /\ (load.old => ~open[p].fresh)
  BY DEF Inv, Typed, Placed, PlacedAt
<1>2. open' = [open EXCEPT ![p].at = place] /\ DOMAIN open = Openers
  BY DEF Go, Inv, Typed
<1>3. DOMAIN open' = Openers /\ \A q \in Openers : q # p => open'[q] = open[q]
  BY <1>2
<1>4. ASSUME NEW o, NEW n, IsOpen(o), n = [o EXCEPT !.at = place]
      PROVE  IsOpen(n) /\ n.at = place /\ n.fresh = o.fresh /\ n.left = o.left /\ n.moved = o.moved
  BY <1>4 DEF IsOpen
<1>5. PICK n : n = [open[p] EXCEPT !.at = place]
  OBVIOUS
<1>6. open'[p] = n
  BY <1>2, <1>5
<1>7. IsOpen(n) /\ n.at = place /\ n.fresh = open[p].fresh /\ n.left = open[p].left /\ n.moved = open[p].moved
  BY <1>1, <1>4, <1>5
<1>8. QED
  BY <1>1, <1>3, <1>6, <1>7 DEF Moves

LEMMA BackupsSame == ASSUME Backups, UNCHANGED backup PROVE Backups'
BY DEF Backups, BackupWhole

\* A step of one who holds the lock, or of one who is outside.
LEMMA OpenerStep ==
    ASSUME Named, Inv, NEW p \in Openers, NEW at, NEW left, NEW moved, Moves(p, at, left, moved),
           UNCHANGED << backup, load >>, marker.complete => marker'.complete,
           \/ lock = p /\ lock' \in {p, Absent} /\ (at \in Inside => lock' = p)
           \/ UNCHANGED << lock, marker, state, newStage, legacy, oldStage >> /\ at \notin Inside,
           PlacedAt(p)'
    PROVE  Locked' /\ Placed' /\ Backups'
<1>1. Backups'
  BY BackupsSame DEF Inv
<1>2. Locked'
  BY DEF Named, Inv, Locked, Moves
<1>3. ASSUME NEW q \in Openers, q # p
      PROVE  PlacedAt(q)'
  <2>1. open'[q] = open[q]
    BY <1>3 DEF Moves
  <2>2. CASE lock = p
    <3>1. open[q].at \notin Inside
      BY <1>3, <2>2 DEF Inv, Locked
    <3>2. QED
      BY <2>1, <3>1 DEF Inv, Placed, PlacedAt, Inside, Migrating, Settling
  <2>3. CASE UNCHANGED << lock, marker, state, newStage, legacy, oldStage >>
    BY <2>1, <2>3 DEF Inv, Placed, PlacedAt, Copied
  <2>4. QED
    BY <2>2, <2>3
<1>4. QED
  BY <1>1, <1>2, <1>3 DEF Placed

\* A step while nobody is inside.
LEMMA OutsideStep ==
    ASSUME Named, Inv, lock \notin Openers, UNCHANGED << open, load >>,
           marker.complete => marker'.complete
    PROVE  Placed' /\ \A p \in Openers : open'[p].at \notin Inside
<1>1. \A p \in Openers : open[p].at \notin Inside
  BY DEF Inv, Locked
<1>2. QED
  BY <1>1 DEF Inv, Placed, PlacedAt, Inside, Migrating, Settling

\* A step that changes no file.
LEMMA FilesSame ==
    ASSUME Inv, UNCHANGED << layout, history, load >>, config => config', made => made'
    PROVE  /\ Behind' /\ Accounted' /\ StateKept' /\ (Cause <=> Cause')
           /\ IsState(legacy)' /\ IsState(state)' /\ IsState(last)'
           /\ IsMarker(marker)' /\ marker'.complete \in BOOLEAN /\ oldStage' \in {Absent, Parts}
           /\ newStage' \in {Absent} \cup SUBSET Parts /\ load'.old \in BOOLEAN
<1>1. UNCHANGED << legacy, state, oldStage, newStage, marker, last, lost, gone, torn, load >>
  BY DEF layout, history
<1>2. Behind' /\ Accounted' /\ StateKept'
  BY <1>1 DEF Inv, Behind, Accounted, Required, StateKept
<1>3. Cause <=> Cause'
  BY <1>1 DEF Cause, Differs
<1>4. QED
  BY <1>1, <1>2, <1>3 DEF Inv, Typed, IsState, IsMarker

\* An opening goes on, and no file changes.
LEMMA OpenerFiles ==
    ASSUME Named, Inv, NEW p \in Openers, NEW at, NEW left, NEW moved, Moves(p, at, left, moved),
           UNCHANGED << layout, history, load, backup >>, config => config', made => made',
           \/ lock = p /\ lock' \in {p, Absent} /\ (at \in Inside => lock' = p)
           \/ UNCHANGED lock /\ at \notin Inside,
           PlacedAt(p)', open[p].at # "fill" \/ at = "fill", at = "refused" => Cause
    PROVE  Inv'
<1>1. /\ Behind' /\ Accounted' /\ StateKept' /\ (Cause <=> Cause')
      /\ IsState(legacy)' /\ IsState(state)' /\ IsState(last)'
      /\ IsMarker(marker)' /\ marker'.complete \in BOOLEAN /\ oldStage' \in {Absent, Parts}
      /\ newStage' \in {Absent} \cup SUBSET Parts /\ load'.old \in BOOLEAN
  BY FilesSame
<1>2. UNCHANGED << marker, state, newStage, legacy, oldStage, torn >>
  BY DEF layout, history
<1>3. Locked' /\ Placed' /\ Backups'
  BY <1>2, OpenerStep
<1>4. Typed'
  BY <1>1 DEF Inv, Typed, Moves, IsBackup
<1>5. Filling'
  BY <1>2 DEF Inv, Filling, Moves
<1>6. Caused'
  BY <1>1 DEF Inv, Caused, Moves
<1>7. QED
  BY <1>1, <1>3, <1>4, <1>5, <1>6 DEF Inv

-----------------------------------------------------------------------------
(* The steps of an opening that change no file. *)

LEMMA AnewMoves ==
    ASSUME Inv, NEW p \in Openers, NEW at, NEW fresh, load.old => ~fresh,
           open' = [open EXCEPT ![p] = [Nobody EXCEPT !.at = at, !.fresh = fresh]]
    PROVE  Moves(p, at, {}, {})
<1>1. PICK n : n = [Nobody EXCEPT !.at = at, !.fresh = fresh]
  OBVIOUS
<1>2. IsOpen(n) /\ n.at = at /\ n.fresh = fresh /\ n.left = {} /\ n.moved = {}
  BY <1>1 DEF IsOpen, Nobody
<1>3. DOMAIN open' = Openers /\ open'[p] = n /\ \A q \in Openers : q # p => open'[q] = open[q]
  BY <1>1 DEF Inv, Typed
<1>4. QED
  BY <1>2, <1>3 DEF Moves

LEMMA NobodyMoves ==
    ASSUME Inv, NEW p \in Openers, open' = [open EXCEPT ![p] = Nobody]
    PROVE  Moves(p, "away", {}, {})
<1>1. DOMAIN open' = Openers /\ open'[p] = Nobody /\ \A q \in Openers : q # p => open'[q] = open[q]
  BY DEF Inv, Typed
<1>2. QED
  BY <1>1 DEF Moves, Nobody, IsOpen

LEMMA LookAroundInv == ASSUME Named, Inv, NEW p \in Openers, LookAround(p) PROVE Inv'
<1>1. UNCHANGED << layout, history, load, backup, config, made, lock >> /\ open[p].at = "away"
  BY DEF LookAround, At, Unused
<1>2. Moves(p, "mkdir", {}, {})
  BY AnewMoves DEF LookAround, Inv, Accounted
<1>3. PlacedAt(p)'
  BY <1>1, <1>2 DEF Moves, PlacedAt, Migrating, Settling
<1>4. "mkdir" \notin Inside
  BY DEF Inside, Migrating, Settling
<1>5. QED
  BY <1>1, <1>2, <1>3, <1>4, OpenerFiles

LEMMA EnsureDirectoriesInv ==
    ASSUME Named, Inv, NEW p \in Openers, EnsureDirectories(p)
    PROVE  Inv'
<1>1. UNCHANGED << layout, history, load, backup, config, lock >> /\ made' /\ open[p].at = "mkdir"
  BY DEF EnsureDirectories, At, Unused
<1>2. Moves(p, "lock", open[p].left, open[p].moved)
  BY GoMoves DEF EnsureDirectories
<1>3. PlacedAt(p)'
  BY <1>1, <1>2 DEF Moves, Inv, Placed, PlacedAt, Migrating, Settling
<1>4. "lock" \notin Inside
  BY DEF Inside, Migrating, Settling
<1>5. QED
  BY <1>1, <1>2, <1>3, <1>4, OpenerFiles

Entered(o, at, left) == [o EXCEPT !.at = at, !.left = left]

LEMMA EnteredFields ==
    ASSUME NEW o, IsOpen(o), NEW at, NEW left
    PROVE  LET n == Entered(o, at, left) IN
           IsOpen(n) /\ n.fresh = o.fresh /\ n.at = at /\ n.left = left /\ n.moved = o.moved
<1>1. ASSUME NEW n, n = Entered(o, at, left)
      PROVE  IsOpen(n) /\ n.fresh = o.fresh /\ n.at = at /\ n.left = left /\ n.moved = o.moved
  BY <1>1 DEF IsOpen, Entered
<1>2. QED
  BY <1>1

Seen(o, left) == [o EXCEPT !.left = left]

LEMMA SeenFields ==
    ASSUME NEW o, IsOpen(o), NEW left
    PROVE  LET n == Seen(o, left) IN
           IsOpen(n) /\ n.fresh = o.fresh /\ n.at = o.at /\ n.left = left /\ n.moved = o.moved
<1>1. ASSUME NEW n, n = Seen(o, left)
      PROVE  IsOpen(n) /\ n.fresh = o.fresh /\ n.at = o.at /\ n.left = left /\ n.moved = o.moved
  BY <1>1 DEF IsOpen, Seen
<1>2. QED
  BY <1>1

Taken(o, left, moved) == [o EXCEPT !.left = left, !.moved = moved]

LEMMA TakenFields ==
    ASSUME NEW o, IsOpen(o), NEW left, NEW moved
    PROVE  LET n == Taken(o, left, moved) IN
           IsOpen(n) /\ n.fresh = o.fresh /\ n.at = o.at /\ n.left = left /\ n.moved = moved
<1>1. ASSUME NEW n, n = Taken(o, left, moved)
      PROVE  IsOpen(n) /\ n.fresh = o.fresh /\ n.at = o.at /\ n.left = left /\ n.moved = moved
  BY <1>1 DEF IsOpen, Taken
<1>2. QED
  BY <1>1

Staged(o, at, moved) == [o EXCEPT !.at = at, !.moved = moved]

LEMMA StagedFields ==
    ASSUME NEW o, IsOpen(o), NEW at, NEW moved
    PROVE  LET n == Staged(o, at, moved) IN
           IsOpen(n) /\ n.fresh = o.fresh /\ n.at = at /\ n.left = o.left /\ n.moved = moved
<1>1. ASSUME NEW n, n = Staged(o, at, moved)
      PROVE  IsOpen(n) /\ n.fresh = o.fresh /\ n.at = at /\ n.left = o.left /\ n.moved = moved
  BY <1>1 DEF IsOpen, Staged
<1>2. QED
  BY <1>1

LEMMA EnterInv == ASSUME Named, Inv, NEW p \in Openers, Enter(p) PROVE Inv'
<1> DEFINE at == IF marker.complete THEN "check" ELSE "copy"
<1>1. /\ UNCHANGED << layout, history, load, backup, config, made >>
      /\ lock = Absent /\ lock' = p /\ open[p].at = "lock"
  BY DEF Enter, At, Unused
<1>2. Moves(p, at, Files, open[p].moved)
  <2>1. DOMAIN open' = Openers /\ open'[p] = Entered(open[p], at, Files)
        /\ \A q \in Openers : q # p => open'[q] = open[q]
    BY DEF Enter, Inv, Typed, Entered
  <2>2. IsOpen(open[p]) /\ (load.old => ~open[p].fresh)
    BY DEF Inv, Typed, Placed, PlacedAt
  <2> HIDE DEF at
  <2>3. QED
    BY <2>1, <2>2, EnteredFields DEF Moves
<1>3. open[p].moved = {} /\ marker.complete \in BOOLEAN
  BY <1>1 DEF Inv, Typed, Placed, PlacedAt
<1>4. UNCHANGED << marker, newStage, state, legacy >>
  BY <1>1 DEF layout
<1>5. PlacedAt(p)'
  BY <1>1, <1>2, <1>3, <1>4 DEF Moves, PlacedAt, Migrating, Settling
<1>6. \A q \in Openers : open[q].at \notin Inside
  BY <1>1 DEF Named, Inv, Locked
<1>7. at # "refused" /\ at # "fill"
  OBVIOUS
<1> HIDE DEF at
<1>8. UNCHANGED << marker, state, newStage, legacy, oldStage, last, lost, gone, torn >>
  BY <1>1 DEF layout, history
<1>9. Locked'
  BY <1>1, <1>2, <1>6 DEF Inv, Locked, Moves, Copying, Named
<1>10. Placed'
  <2>1. ASSUME NEW q \in Openers, q # p PROVE PlacedAt(q)'
    BY <1>1, <1>2, <1>8, <2>1 DEF Moves, Inv, Placed, PlacedAt, Copied
  <2>2. QED
    BY <1>5, <2>1 DEF Placed
<1>11. /\ Behind' /\ Accounted' /\ StateKept' /\ (Cause <=> Cause')
       /\ IsState(legacy)' /\ IsState(state)' /\ IsState(last)'
       /\ IsMarker(marker)' /\ marker'.complete \in BOOLEAN /\ oldStage' \in {Absent, Parts}
       /\ newStage' \in {Absent} \cup SUBSET Parts /\ load'.old \in BOOLEAN
  BY <1>1, FilesSame
<1>12. Typed' /\ Caused' /\ Filling'
  BY <1>1, <1>2, <1>7, <1>8, <1>11 DEF Inv, Typed, Moves, IsBackup, Caused, Filling
<1>13. Backups'
  BY <1>1, BackupsSame DEF Inv
<1>14. QED
  BY <1>9, <1>10, <1>11, <1>12, <1>13 DEF Inv

LEMMA CheckLayoutInv == ASSUME Named, Inv, NEW p \in Openers, CheckLayout(p) PROVE Inv'
<1>1. /\ UNCHANGED << layout, history, load, backup, config, made >>
      /\ open[p].at = "check" /\ lock = p /\ marker.complete
  BY DEF CheckLayout, At, Unused, Inv, Locked, Placed, PlacedAt, Inside, Settling
<1>2. UNCHANGED << marker, newStage, state, legacy >>
  BY <1>1 DEF layout
<1> DEFINE bad == \/ \E f \in marker.moved \cap Files : state[f] = Absent
                  \/ "staging" \in marker.moved /\ newStage = Absent
<1>3. CASE bad /\ Refuse(p)
  <2>1. Moves(p, "refused", open[p].left, open[p].moved)
    BY <1>3, GoMoves DEF Refuse
  <2>2. PlacedAt(p)'
    BY <1>1, <2>1 DEF Moves, PlacedAt, Migrating, Settling
  <2>3. Cause
    <3>1. "staging" \in marker.moved => newStage # Absent
      BY DEF Inv, StateKept, Named
    <3>2. PICK f \in marker.moved \cap Files : state[f] = Absent
      BY <1>3, <3>1
    <3>3. QED
      BY <1>1, <3>2 DEF Inv, Accounted, Cause
  <2>4. lock' = Absent /\ "refused" \notin Inside
    BY <1>3 DEF Refuse, Inside, Migrating, Settling
  <2>5. QED
    BY <1>1, <2>1, <2>2, <2>3, <2>4, OpenerFiles
<1>4. CASE Go(p, "cleanup") /\ Hold
  <2>1. Moves(p, "cleanup", open[p].left, open[p].moved)
    BY <1>4, GoMoves
  <2>2. PlacedAt(p)'
    BY <1>1, <1>2, <2>1 DEF Moves, PlacedAt, Migrating, Settling
  <2>3. QED
    BY <1>1, <1>4, <2>1, <2>2, OpenerFiles DEF Hold
<1>5. QED
  BY <1>3, <1>4 DEF CheckLayout

LEMMA SaveConfigInv == ASSUME Named, Inv, NEW p \in Openers, SaveConfig(p) PROVE Inv'
<1>1. /\ UNCHANGED << layout, history, load, backup, made >> /\ config' /\ lock' = Absent
      /\ open[p].at = "config" /\ lock = p /\ marker.complete
  BY DEF SaveConfig, At, Unused, Inv, Locked, Placed, PlacedAt, Inside, Settling
<1>2. Moves(p, "ready", open[p].left, open[p].moved)
  BY GoMoves DEF SaveConfig
<1>3. UNCHANGED << marker, newStage, state, legacy >>
  BY <1>1 DEF layout
<1>4. PlacedAt(p)' /\ "ready" \notin Inside
  BY <1>1, <1>2, <1>3 DEF Moves, PlacedAt, Migrating, Settling, Inside
<1>5. QED
  BY <1>1, <1>2, <1>4, OpenerFiles

LEMMA AgainInv == ASSUME Named, Inv, NEW p \in Openers, Again(p) PROVE Inv'
<1>1. /\ UNCHANGED << layout, history, load, backup, made, config, lock >>
      /\ open[p].at \in {"ready", "refused"}
  BY DEF Again, Use
<1>2. Moves(p, "away", {}, {})
  BY NobodyMoves DEF Again
<1>3. PlacedAt(p)' /\ "away" \notin Inside
  BY <1>1, <1>2 DEF Moves, PlacedAt, Migrating, Settling, Inside
<1>4. QED
  BY <1>1, <1>2, <1>3, OpenerFiles

-----------------------------------------------------------------------------
(* The migration. *)

\* Whoever is inside goes on, with what its step left of the other parts.
LEMMA InsideStep ==
    ASSUME Named, Inv, NEW p \in Openers, NEW at, NEW left, NEW moved, Moves(p, at, left, moved),
           lock = p, lock' \in {p, Absent}, at \in Inside => lock' = p,
           UNCHANGED << backup, load >>, marker.complete => marker'.complete, PlacedAt(p)',
           IsState(legacy)', IsState(state)', IsState(last)',
           IsMarker(marker)', marker'.complete \in BOOLEAN, oldStage' \in {Absent, Parts},
           newStage' \in {Absent} \cup SUBSET Parts, Filling', Behind', Accounted', StateKept', Cause => Cause', at = "refused" => Cause'
    PROVE  Inv'
<1>1. Locked' /\ Placed' /\ Backups'
  BY OpenerStep
<1>2. Typed'
  BY DEF Inv, Typed, Moves, IsBackup
<1>3. Caused'
  BY DEF Inv, Caused, Moves
<1>4. QED
  BY <1>1, <1>2, <1>3 DEF Inv

LEMMA CopyJsonInv == ASSUME Named, Inv, NEW p \in Openers, CopyJson(p) PROVE Inv'
<1>1. /\ UNCHANGED << legacy, oldStage, newStage, marker, config, backup, made, history, load >>
      /\ open[p].at = "copy" /\ lock = p /\ ~marker.complete
  BY DEF CopyJson, At, Unused, Inv, Locked, Placed, PlacedAt, Inside, Migrating
<1>2. /\ \A f \in open[p].moved \cap Files : state[f] # Absent
      /\ "staging" \in open[p].moved => newStage = Parts
      /\ \A f \in Files \ open[p].left : Copied(f)
      /\ IsOpen(open[p]) /\ open[p].left \subseteq Files /\ (load.old => ~open[p].fresh)
  BY <1>1 DEF Inv, Placed, PlacedAt, Migrating, Typed
<1>3. "copy" \in Inside /\ "stage" \in Inside /\ "refused" \notin Inside
  BY DEF Inside, Migrating, Settling
<1>4. CASE open[p].left = {} /\ Go(p, "stage") /\ Hold /\ UNCHANGED state
  <2>1. Moves(p, "stage", open[p].left, open[p].moved)
    BY <1>4, GoMoves
  <2>2. PlacedAt(p)'
    BY <1>1, <1>2, <1>4, <2>1 DEF Moves, PlacedAt, Migrating, Settling, Copied
  <2>3. UNCHANGED layout
    BY <1>1, <1>4 DEF layout
  <2>4. QED
    BY <1>1, <1>3, <1>4, <2>1, <2>2, <2>3, OpenerFiles DEF Hold
<1>5. ASSUME NEW f \in Files, legacy[f] = Absent, UNCHANGED state, Hold,
             open' = [open EXCEPT ![p].left = @ \ {f}]
      PROVE  Inv'
  <2>1. /\ DOMAIN open' = Openers /\ open'[p] = Seen(open[p], open[p].left \ {f})
        /\ \A q \in Openers : q # p => open'[q] = open[q]
    BY <1>5 DEF Inv, Typed, Seen
  <2>2. Moves(p, "copy", open[p].left \ {f}, open[p].moved)
    BY <1>1, <1>2, <2>1, SeenFields DEF Moves
  <2>3. PlacedAt(p)'
    BY <1>1, <1>2, <1>5, <2>2 DEF Moves, PlacedAt, Migrating, Settling, Copied
  <2>4. UNCHANGED layout
    BY <1>1, <1>5 DEF layout
  <2>5. QED
    BY <1>1, <1>3, <1>5, <2>2, <2>3, <2>4, OpenerFiles DEF Hold
<1>6. ASSUME NEW f \in Files, legacy[f] # Absent, Agrees(f), Hold,
             state' = [state EXCEPT ![f] = IF @ = Absent THEN legacy[f] ELSE @],
             open' = [open EXCEPT ![p].left = @ \ {f}, ![p].moved = @ \cup {f}]
      PROVE  Inv'
  <2>1. /\ DOMAIN open' = Openers /\ open'[p] = Taken(open[p], open[p].left \ {f}, open[p].moved \cup {f})
        /\ \A q \in Openers : q # p => open'[q] = open[q]
    BY <1>6 DEF Inv, Typed, Taken
  <2>2. Moves(p, "copy", open[p].left \ {f}, open[p].moved \cup {f})
    BY <1>1, <1>2, <2>1, TakenFields DEF Moves
  <2>3. /\ DOMAIN state' = Files /\ state'[f] = legacy[f]
        /\ \A g \in Files : g # f => state'[g] = state[g]
    BY <1>6 DEF Inv, Typed, IsState, Agrees
  <2>4. PlacedAt(p)'
    BY <1>1, <1>2, <1>6, <2>2, <2>3 DEF Moves, PlacedAt, Migrating, Settling, Copied, Named
  <2>5. IsState(legacy)' /\ IsState(state)' /\ IsState(last)'
    BY <1>1, <2>3 DEF Inv, Typed, IsState, history
  <2>6. Behind'
    BY <1>1, <2>3, <1>6 DEF Inv, Behind, Typed, IsState, history
  <2>7. Accounted'
    BY <1>1 DEF Inv, Behind, Accounted, history
  <2>8. StateKept'
    BY <1>1, <1>6, <2>3 DEF Inv, StateKept, history
  <2>9. Cause => Cause'
    BY <1>1, <2>3, <1>6 DEF Cause, Differs, history, Agrees
  <2>10. Filling'
    BY <1>1, <2>2 DEF Inv, Filling, Moves, history
  <2>11. IsMarker(marker)' /\ marker'.complete \in BOOLEAN /\ oldStage' \in {Absent, Parts}
        /\ newStage' \in {Absent} \cup SUBSET Parts
    BY <1>1 DEF Inv, Typed, IsMarker
  <2>12. QED
    BY <1>1, <1>3, <1>6, <2>2, <2>4, <2>5, <2>6, <2>7, <2>8, <2>9, <2>10, <2>11, InsideStep DEF Hold
<1>7. ASSUME NEW f \in Files, legacy[f] # Absent, ~Agrees(f), Refuse(p), UNCHANGED state
      PROVE  Inv'
  <2>1. Moves(p, "refused", open[p].left, open[p].moved)
    BY <1>7, GoMoves DEF Refuse
  <2>2. PlacedAt(p)'
    BY <1>1, <2>1 DEF Moves, PlacedAt, Migrating, Settling
  <2>3. Cause /\ UNCHANGED layout
    BY <1>1, <1>7 DEF Cause, Differs, Agrees, layout
  <2>4. QED
    BY <1>1, <1>3, <1>7, <2>1, <2>2, <2>3, OpenerFiles DEF Refuse
<1>8. CASE open[p].left # {}
  <2>1. PICK f \in open[p].left :
            IF legacy[f] = Absent
            THEN open' = [open EXCEPT ![p].left = @ \ {f}] /\ Hold /\ UNCHANGED state
            ELSE IF Agrees(f)
            THEN /\ state' = [state EXCEPT ![f] = IF @ = Absent THEN legacy[f] ELSE @]
                 /\ open' = [open EXCEPT ![p].left = @ \ {f}, ![p].moved = @ \cup {f}]
                 /\ Hold
            ELSE Refuse(p) /\ UNCHANGED state
    BY <1>8 DEF CopyJson
  <2>2. f \in Files
    BY DEF Inv, Typed
  <2>3. QED
    BY <1>5, <1>6, <1>7, <2>1, <2>2
<1>9. QED
  BY <1>4, <1>8 DEF CopyJson

LEMMA CopyStagingInv == ASSUME Named, Inv, NEW p \in Openers, CopyStaging(p) PROVE Inv'
<1>1. /\ UNCHANGED << legacy, state, oldStage, marker, config, backup, made, history, load >>
      /\ open[p].at \in {"stage", "fill"} /\ lock = p /\ ~marker.complete
  BY DEF CopyStaging, At, Unused, Inv, Locked, Placed, PlacedAt, Inside, Migrating
<1>2. /\ \A f \in open[p].moved \cap Files : state[f] # Absent
      /\ \A f \in Files : Copied(f)
      /\ "staging" \in open[p].moved => newStage = Parts
      /\ IsOpen(open[p]) /\ open[p].left \subseteq Files /\ (load.old => ~open[p].fresh)
      /\ open[p].at = "fill" => oldStage = Parts /\ newStage # Absent
  BY <1>1 DEF Inv, Placed, PlacedAt, Migrating, Typed
<1>3. {"fill", "mark"} \subseteq Inside /\ "refused" \notin Inside
  BY DEF Inside, Migrating, Settling
<1>4. Parts # Absent /\ {} # Absent
  BY DEF Named
<1>5. CASE open[p].at = "stage" /\ oldStage = Absent /\ Go(p, "mark") /\ Hold /\ UNCHANGED newStage
  <2>1. Moves(p, "mark", open[p].left, open[p].moved)
    BY <1>5, GoMoves
  <2>2. PlacedAt(p)'
    BY <1>1, <1>2, <1>5, <2>1 DEF Moves, PlacedAt, Migrating, Settling, Copied
  <2>3. UNCHANGED layout
    BY <1>1, <1>5 DEF layout
  <2>4. QED
    BY <1>1, <1>3, <1>5, <2>1, <2>2, <2>3, OpenerFiles DEF Hold
<1>6. CASE open[p].at = "stage" /\ oldStage # Absent /\ Refuse(p) /\ UNCHANGED newStage
           /\ newStage \notin {Absent, oldStage}
  <2>1. Moves(p, "refused", open[p].left, open[p].moved)
    BY <1>6, GoMoves DEF Refuse
  <2>2. PlacedAt(p)'
    BY <1>1, <2>1 DEF Moves, PlacedAt, Migrating, Settling
  <2>3. \A q \in Openers : open[q].at # "fill"
    BY <1>1, <1>6 DEF Inv, Locked, Inside, Migrating
  <2>4. Cause /\ UNCHANGED layout
    BY <1>1, <1>6, <2>3 DEF Cause, layout, Inv, Typed, Filling
  <2>5. QED
    BY <1>1, <1>3, <1>6, <2>1, <2>2, <2>4, OpenerFiles DEF Refuse
<1>7. ASSUME NEW at \in {"fill", "mark"}, NEW moved, Moves(p, at, open[p].left, moved), Hold,
             newStage' \in SUBSET Parts, at = "fill" => oldStage = Parts,
             moved \subseteq open[p].moved \cup {"staging"}, "staging" \in moved => newStage' = Parts,
             at = "mark" => newStage' = Parts
      PROVE  Inv'
  <2>1. PlacedAt(p)'
    BY <1>1, <1>2, <1>7 DEF Moves, PlacedAt, Migrating, Settling, Copied, Named
  <2>2. UNCHANGED << last, lost, gone, torn >>
    BY <1>1 DEF history
  <2>3. Behind' /\ Accounted' /\ StateKept' /\ (Cause => Cause')
    BY <1>1, <2>2 DEF Inv, Behind, Accounted, Required, StateKept, Cause, Differs
  <2>4. /\ IsState(legacy)' /\ IsState(state)' /\ IsState(last)'
        /\ IsMarker(marker)' /\ marker'.complete \in BOOLEAN /\ oldStage' \in {Absent, Parts}
    BY <1>1, <2>2 DEF Inv, Typed, IsState, IsMarker
  <2>5. Filling'
    BY <1>7 DEF Filling, Moves
  <2>6. newStage' \in {Absent} \cup SUBSET Parts /\ at \in Inside /\ at # "refused"
    BY <1>3, <1>7
  <2>7. QED
    BY <1>1, <1>7, <2>1, <2>3, <2>4, <2>5, <2>6, InsideStep DEF Hold
<1>8. CASE open[p].at = "stage" /\ oldStage # Absent /\ newStage = Absent /\ newStage' = {} /\ Go(p, "fill")
           /\ Hold
  <2>1. Moves(p, "fill", open[p].left, open[p].moved)
    BY <1>8, GoMoves
  <2>2. oldStage = Parts /\ "staging" \notin open[p].moved
    BY <1>2, <1>4, <1>8 DEF Inv, Typed
  <2>3. QED
    BY <1>7, <1>8, <2>1, <2>2
<1>9. CASE /\ newStage = oldStage /\ oldStage # Absent /\ UNCHANGED newStage /\ Hold
           /\ open' = [open EXCEPT ![p].at = "mark", ![p].moved = @ \cup {"staging"}]
  <2>1. /\ DOMAIN open' = Openers /\ open'[p] = Staged(open[p], "mark", open[p].moved \cup {"staging"})
        /\ \A q \in Openers : q # p => open'[q] = open[q]
    BY <1>9 DEF Inv, Typed, Staged
  <2>2. Moves(p, "mark", open[p].left, open[p].moved \cup {"staging"})
    BY <1>1, <1>2, <2>1, StagedFields DEF Moves
  <2>3. newStage' = Parts
    BY <1>9 DEF Inv, Typed
  <2>4. QED
    BY <1>7, <1>9, <2>2, <2>3
<1>10. CASE /\ open[p].at = "fill" /\ newStage # oldStage /\ UNCHANGED open /\ Hold
            /\ \E part \in oldStage \ newStage : newStage' = newStage \cup {part}
  <2>1. Moves(p, "fill", open[p].left, open[p].moved)
    BY <1>2, <1>10 DEF Moves, Inv, Typed
  <2>2. newStage' \in SUBSET Parts /\ oldStage = Parts /\ "staging" \notin open[p].moved
    BY <1>2, <1>10 DEF Inv, Typed
  <2>3. QED
    BY <1>7, <1>10, <2>1, <2>2
<1>11. QED
  BY <1>2, <1>4, <1>5, <1>6, <1>8, <1>9, <1>10 DEF CopyStaging, At

LEMMA MarkCompleteInv == ASSUME Named, Inv, NEW p \in Openers, MarkComplete(p) PROVE Inv'
<1>1. /\ UNCHANGED << legacy, state, oldStage, newStage, config, lock, backup, made, last, lost, gone, torn, load >>
      /\ open[p].at = "mark" /\ lock = p /\ ~marker.complete
  BY DEF MarkComplete, At, Unused, Inv, Locked, Placed, PlacedAt, Inside, Migrating, history
<1>2. /\ \A f \in open[p].moved \cap Files : state[f] # Absent
      /\ "staging" \in open[p].moved => newStage = Parts
      /\ \A f \in Files : Copied(f)
  BY <1>1 DEF Inv, Placed, PlacedAt, Migrating
<1>3. Moves(p, "cleanup", open[p].left, open[p].moved)
  BY GoMoves DEF MarkComplete
<1>4. /\ IsMarker(marker') /\ marker'.complete /\ marker'.moved = open[p].moved
      /\ marker'.required = marker.required /\ marker'.owner = marker.owner /\ marker'.complete \in BOOLEAN
  BY DEF MarkComplete, Inv, Typed, IsMarker
<1>5. PlacedAt(p)'
  BY <1>1, <1>3, <1>4 DEF Moves, PlacedAt, Migrating, Settling
<1>6. Behind' /\ Accounted'
  BY <1>1, <1>2, <1>4 DEF Inv, Behind, Accounted
<1>7. StateKept'
  BY <1>1, <1>2, <1>4 DEF Inv, StateKept, Copied
<1>8. Cause => Cause'
  BY <1>1, <1>2 DEF Inv, Behind, Cause, Differs, Copied
<1>9. /\ IsState(legacy)' /\ IsState(state)' /\ IsState(last)' /\ IsMarker(marker)'
      /\ oldStage' \in {Absent, Parts} /\ newStage' \in {Absent} \cup SUBSET Parts
  BY <1>1, <1>4 DEF Inv, Typed, IsState
<1>10. Filling'
  BY <1>1, <1>3 DEF Inv, Filling, Moves
<1>11. QED
  BY <1>1, <1>3, <1>4, <1>5, <1>6, <1>7, <1>8, <1>9, <1>10, InsideStep

\* An opening that is not refused, of a layout that is complete.
LEMMA SettlingStep ==
    ASSUME Named, Inv, NEW p \in Openers, NEW at, NEW left, NEW moved, Moves(p, at, left, moved),
           open[p].at \in Settling, at \in Settling, UNCHANGED << backup, load, lock >>,
           UNCHANGED << newStage, lost, gone, torn >>, config => config', made => made',
           IsMarker(marker'), marker'.complete, marker'.moved = marker.moved,
           marker.required \subseteq marker'.required, load.old => marker'.owner = marker.owner,
           IsState(legacy'), IsState(state'), IsState(last'), oldStage' \in {Absent, Parts},
           \A f \in Files : state'[f] # state[f] => state[f] = Absent /\ ~Required(f),
           \A f \in Files : state'[f] = state[f] => last'[f] = last[f],
           \A f \in Files : state'[f] # state[f] => last'[f] = state'[f]
    PROVE  Inv'
<1>1. marker.complete /\ lock = p /\ lock' = p /\ at # "refused" /\ at \in Inside
  BY DEF Inv, Locked, Placed, PlacedAt, Inside, Settling
<1>2. PlacedAt(p)'
  BY DEF Moves, PlacedAt, Migrating, Settling
<1>3. Behind'
  BY DEF Behind
<1>4. \A f \in lost : state'[f] = state[f]
  <2>1. Durable \subseteq Files
    BY DEF Named
  <2>2. QED
    BY <2>1 DEF Inv, Accounted
<1>5. Accounted'
  BY <1>1, <1>4 DEF Inv, Accounted, Required, Typed
<1>6. StateKept'
  BY <1>1 DEF Inv, StateKept, Typed
<1>7. Cause => Cause'
  BY <1>1 DEF Cause, Differs
<1>8. Filling'
  BY <1>1 DEF Inv, Filling, Moves, Settling
<1>9. /\ IsState(legacy)' /\ IsState(state)' /\ IsState(last)' /\ IsMarker(marker)'
      /\ marker'.complete \in BOOLEAN /\ newStage' \in {Absent} \cup SUBSET Parts
  <2>1. IsMarker(marker)'
    BY DEF IsMarker
  <2>2. IsState(legacy)' /\ IsState(state)' /\ IsState(last)'
    BY DEF IsState
  <2>3. marker'.complete \in BOOLEAN
    OBVIOUS
  <2>4. QED
    BY <2>1, <2>2, <2>3 DEF Inv, Typed
<1>10. QED
  BY <1>1, <1>2, <1>3, <1>5, <1>6, <1>7, <1>8, <1>9, InsideStep

LEMMA CleanupLegacyInv == ASSUME Named, Inv, NEW p \in Openers, CleanupLegacy(p) PROVE Inv'
<1>1. /\ UNCHANGED << state, newStage, marker, config, lock, backup, made, last, lost, gone, torn, load >>
      /\ open[p].at = "cleanup" /\ marker.complete /\ "cleanup" \in Settling /\ "bind" \in Settling
  BY DEF CleanupLegacy, At, Unused, Inv, Placed, PlacedAt, Settling, history
<1>2. /\ IsState(state') /\ IsState(last') /\ IsState(legacy) /\ IsMarker(marker')
      /\ oldStage \in {Absent, Parts}
  BY <1>1 DEF Inv, Typed
<1>3. CASE /\ \E f \in Files : legacy[f] # Absent /\ legacy' = [legacy EXCEPT ![f] = Absent]
           /\ UNCHANGED << oldStage, open >>
  <2>1. IsState(legacy')
    BY <1>2, <1>3 DEF IsState
  <2>2. Moves(p, "cleanup", open[p].left, open[p].moved)
    BY <1>1, <1>3 DEF Moves, Inv, Typed, Placed, PlacedAt
  <2>3. QED
    BY <1>1, <1>2, <1>3, <2>1, <2>2, SettlingStep
<1>4. CASE oldStage' = Absent /\ Go(p, "bind") /\ UNCHANGED legacy
  <2>1. Moves(p, "bind", open[p].left, open[p].moved)
    BY <1>4, GoMoves
  <2>2. IsState(legacy')
    BY <1>2, <1>4
  <2>3. QED
    BY <1>1, <1>2, <1>4, <2>1, <2>2, SettlingStep
<1>5. QED
  BY <1>3, <1>4 DEF CleanupLegacy

LEMMA BindInv == ASSUME Named, Inv, NEW p \in Openers, Bind(p) PROVE Inv'
<1>1. /\ UNCHANGED << legacy, state, oldStage, newStage, config, lock, backup, made, last, lost, gone, torn, load >>
      /\ open[p].at = "bind" /\ marker.complete /\ (load.old => ~open[p].fresh)
      /\ "bind" \in Settling /\ "files" \in Settling
  BY DEF Bind, At, Unused, Inv, Placed, PlacedAt, Settling, history
<1>2. /\ IsState(state') /\ IsState(last') /\ IsState(legacy') /\ oldStage' \in {Absent, Parts}
      /\ IsMarker(marker)
  BY <1>1 DEF Inv, Typed
<1>3. Moves(p, "files", open[p].left, open[p].moved)
  BY GoMoves DEF Bind
<1>4. /\ IsMarker(marker') /\ marker'.complete /\ marker'.moved = marker.moved
      /\ marker'.required = marker.required /\ (load.old => marker'.owner = marker.owner)
  BY <1>1, <1>2 DEF Bind, IsMarker
<1>5. QED
  BY <1>1, <1>2, <1>3, <1>4, SettlingStep

LEMMA EnsureFilesInv == ASSUME Named, Inv, NEW p \in Openers, EnsureFiles(p) PROVE Inv'
<1>1. /\ UNCHANGED << legacy, oldStage, newStage, marker, config, lock, backup, made, lost, gone, torn, load >>
      /\ open[p].at = "files" /\ marker.complete /\ "files" \in Settling /\ "require" \in Settling
  BY DEF EnsureFiles, At, Unused, Inv, Placed, PlacedAt, Settling
<1>2. Moves(p, "require", open[p].left, open[p].moved)
  BY GoMoves DEF EnsureFiles
<1>3. /\ DOMAIN state' = Files /\ DOMAIN last' = Files
      /\ \A f \in Files : \/ state'[f] = state[f] /\ last'[f] = last[f]
                          \/ state[f] = Absent /\ ~Required(f) /\ state'[f] = 0 /\ last'[f] = 0
  BY DEF EnsureFiles, Named
<1>4. /\ IsState(state') /\ IsState(last') /\ IsState(legacy') /\ oldStage' \in {Absent, Parts}
      /\ IsMarker(marker') /\ marker'.complete
  BY <1>1, <1>3 DEF Inv, Typed, IsState
<1>5. \A f \in Files : state'[f] = state[f] => last'[f] = last[f]
  BY <1>3 DEF Named
<1>6. \A f \in Files : state'[f] # state[f] => state[f] = Absent /\ ~Required(f) /\ last'[f] = state'[f]
  BY <1>3
<1>7. QED
  BY <1>1, <1>2, <1>4, <1>5, <1>6, SettlingStep

LEMMA RequireControlInv == ASSUME Named, Inv, NEW p \in Openers, RequireControl(p) PROVE Inv'
<1>1. /\ UNCHANGED << legacy, state, oldStage, newStage, config, lock, backup, made, last, lost, gone, torn, load >>
      /\ open[p].at = "require" /\ marker.complete /\ "require" \in Settling /\ "config" \in Settling
  BY DEF RequireControl, At, Unused, Inv, Placed, PlacedAt, Settling, history
<1>2. /\ IsState(state') /\ IsState(last') /\ IsState(legacy') /\ oldStage' \in {Absent, Parts}
      /\ IsMarker(marker)
  BY <1>1 DEF Inv, Typed
<1>3. Moves(p, "config", open[p].left, open[p].moved)
  BY GoMoves DEF RequireControl
<1>4. /\ IsMarker(marker') /\ marker'.complete /\ marker'.moved = marker.moved
      /\ marker.required \subseteq marker'.required /\ marker'.owner = marker.owner
  BY <1>1, <1>2 DEF RequireControl, IsMarker
<1>5. QED
  BY <1>1, <1>2, <1>3, <1>4, SettlingStep

LEMMA CrashInv == ASSUME Named, Inv, NEW p \in Openers, Crash(p) PROVE Inv'
<1>1. /\ UNCHANGED << layout, load, backup, config, made, last, lost, gone >>
      /\ lock' = (IF lock = p THEN Absent ELSE lock) /\ torn' = (torn \/ open[p].at = "fill")
  BY DEF Crash, Use, At
<1>2. Moves(p, "away", {}, {})
  BY NobodyMoves DEF Crash
<1>3. UNCHANGED << legacy, state, oldStage, newStage, marker >>
  BY <1>1 DEF layout
<1>4. PlacedAt(p)' /\ "away" \notin Inside
  BY <1>1, <1>2 DEF Moves, PlacedAt, Migrating, Settling, Inside
<1>5. Locked' /\ Placed' /\ Backups'
  BY <1>1, <1>2, <1>3, <1>4, OpenerStep
<1>6. Behind' /\ Accounted' /\ StateKept' /\ (Cause => Cause')
  BY <1>1, <1>3 DEF Inv, Behind, Accounted, Required, StateKept, Cause, Differs
<1>7. Filling'
  BY <1>1, <1>2, <1>3 DEF Inv, Filling, Moves
<1>8. Typed'
  BY <1>1, <1>2, <1>3 DEF Inv, Typed, IsState, IsMarker, IsBackup, Moves
<1>9. Caused'
  BY <1>2, <1>6 DEF Inv, Caused, Moves
<1>10. QED
  BY <1>5, <1>6, <1>7, <1>8, <1>9 DEF Inv

-----------------------------------------------------------------------------
(* Writers. *)

LEMMA WriteStep ==
    ASSUME Named, Inv, NEW f \in Files, NEW v \in Nat \cup {Absent}, lock \notin Openers,
           UNCHANGED << made, legacy, oldStage, newStage, marker, config, lock, open, backup, torn, load >>,
           marker.complete, state' = [state EXCEPT ![f] = v],
           last' = last \/ last' = [last EXCEPT ![f] = v], last' = last => f \in lost' \/ last[f] = v,
           lost \subseteq lost', lost' \subseteq lost \cup {f}, gone \subseteq gone',
           v = Absent => f \in gone' \cup lost',
           f \in lost' => v = Absent /\ f \in Durable /\ Required(f)
    PROVE  Inv'
<1>1. /\ DOMAIN state' = Files /\ state'[f] = v /\ \A g \in Files : g # f => state'[g] = state[g]
      /\ DOMAIN last' = Files /\ (f \in lost' \/ last'[f] = v)
      /\ \A g \in Files : g # f => last'[g] = last[g]
  BY DEF Inv, Typed, IsState
<1>2. Placed' /\ Locked' /\ Caused'
  <2>1. Placed' /\ \A p \in Openers : open'[p].at \notin Inside
    BY OutsideStep
  <2>2. Cause => Cause'
    BY DEF Cause, Differs
  <2>3. QED
    BY <2>1, <2>2 DEF Inv, Locked, Caused
<1>3. Filling' /\ Behind' /\ Backups'
  BY BackupsSame DEF Inv, Filling, Behind
<1>4. Accounted'
  <2>1. \A g \in Files : g \in lost' => g \in Durable /\ state'[g] = Absent /\ Required(g)'
    BY <1>1 DEF Inv, Accounted, Required
  <2>2. Durable \subseteq Files
    BY DEF Named
  <2>3. \A g \in lost' : g \in Files
    BY <2>2 DEF Inv, Accounted
  <2>4. \A g \in marker.moved \cap Files : state'[g] = Absent => g \in gone' \cup lost'
    BY <1>1 DEF Inv, Accounted
  <2>5. load.old => made /\ marker.owner = Absent
    BY DEF Inv, Accounted
  <2>6. QED
    BY <2>1, <2>3, <2>4, <2>5 DEF Accounted
<1>5. StateKept'
  BY <1>1 DEF Inv, StateKept
<1>6. Typed'
  BY <1>1 DEF Inv, Typed, IsState, IsMarker, IsBackup
<1>7. QED
  BY <1>2, <1>3, <1>4, <1>5, <1>6 DEF Inv

LEMMA Next1Type == ASSUME Named, Inv, NEW f \in Files PROVE Next1(f) \in Nat
BY DEF Inv, Typed, IsState, Next1

LEMMA WriteInv == ASSUME Named, Inv, NEW p \in Openers, NEW f \in Files, Write(p, f) PROVE Inv'
<1>1. /\ UNCHANGED << made, legacy, oldStage, newStage, marker, config, lock, open, backup, torn, load, lost, gone >>
      /\ lock \notin Openers /\ marker.complete /\ state' = [state EXCEPT ![f] = Next1(f)]
      /\ last' = [last EXCEPT ![f] = Next1(f)]
  BY DEF Write, At, Use, Inv, Placed, PlacedAt, Named
<1>2. f \notin lost
  BY DEF Write, Inv, Accounted
<1>3. Next1(f) \in Nat /\ Next1(f) # Absent
  BY Next1Type DEF Named
<1>4. last' = last => last[f] = Next1(f)
  BY <1>1 DEF Inv, Typed, IsState
<1> HIDE DEF Next1
<1>5. QED
  BY <1>1, <1>2, <1>3, <1>4, WriteStep

LEMMA FinishInv == ASSUME Named, Inv, NEW p \in Openers, NEW f \in Files, Finish(p, f) PROVE Inv'
<1>1. /\ UNCHANGED << made, legacy, oldStage, newStage, marker, config, lock, open, backup, torn, load, lost >>
      /\ lock \notin Openers /\ marker.complete /\ state' = [state EXCEPT ![f] = Absent]
      /\ last' = [last EXCEPT ![f] = Absent] /\ gone' = gone \cup {f}
  BY DEF Finish, At, Unused, Inv, Placed, PlacedAt, Named
<1>2. f \notin lost
  BY DEF Finish, Inv, Accounted, Named
<1>3. last' = last => last[f] = Absent
  BY <1>1 DEF Inv, Typed, IsState
<1>4. QED
  BY <1>1, <1>2, <1>3, WriteStep

LEMMA LoseInv == ASSUME Named, Inv, NEW f \in Files, Lose(f) PROVE Inv'
<1>1. /\ UNCHANGED << made, legacy, oldStage, newStage, marker, config, lock, open, backup, torn, load, last, gone >>
      /\ lock \notin Openers /\ marker.complete /\ state' = [state EXCEPT ![f] = Absent]
      /\ lost' = lost \cup {f} /\ f \in Durable /\ Required(f)
  BY DEF Lose, Use, Named
<1>2. QED
  BY <1>1, WriteStep

LEMMA EditInv == ASSUME Named, Inv, NEW f \in Files, Edit(f) PROVE Inv'
<1>1. /\ UNCHANGED << made, legacy, oldStage, newStage, marker, config, lock, open, backup, torn, load, lost, gone >>
      /\ lock \notin Openers /\ marker.complete /\ state' = [state EXCEPT ![f] = Next1(f)]
      /\ last' = [last EXCEPT ![f] = Next1(f)] /\ state[f] # Absent
  BY DEF Edit, Use, Named
<1>2. f \notin lost
  BY <1>1 DEF Inv, Accounted
<1>3. Next1(f) \in Nat /\ Next1(f) # Absent
  BY Next1Type DEF Named
<1>4. last' = last => last[f] = Next1(f)
  BY <1>1 DEF Inv, Typed, IsState
<1> HIDE DEF Next1
<1>5. QED
  BY <1>1, <1>2, <1>3, <1>4, WriteStep

\* A worker of the older version makes the copy older.
LEMMA OldWriteInv == ASSUME Named, Inv, NEW f \in Files, OldWrite(f) PROVE Inv'
<1>1. /\ UNCHANGED << made, state, oldStage, newStage, marker, config, lock, open, backup, lost, gone, torn, load >>
      /\ lock = Absent /\ ~marker.complete /\ legacy[f] # Absent
  BY DEF OldWrite, Use
<1>2. last[f] = legacy[f] /\ last[f] \in Nat /\ Next1(f) = legacy[f] + 1 /\ legacy[f] \in Nat
  BY <1>1 DEF Inv, Behind, StateKept, Typed, IsState, Next1
<1>3. /\ DOMAIN legacy' = Files /\ legacy'[f] = legacy[f] + 1
      /\ \A g \in Files : g # f => legacy'[g] = legacy[g]
      /\ DOMAIN last' = Files /\ last'[f] = legacy[f] + 1
      /\ \A g \in Files : g # f => last'[g] = last[g]
  BY <1>2 DEF OldWrite, Inv, Typed, IsState
<1>4. Placed' /\ Locked'
  <2>1. Placed' /\ \A p \in Openers : open'[p].at \notin Inside
    BY <1>1, OutsideStep DEF Named
  <2>2. QED
    BY <1>1, <2>1 DEF Inv, Locked
<1>5. Filling' /\ Accounted' /\ Backups'
  BY <1>1, BackupsSame DEF Inv, Filling, Accounted, Required
<1>6. Behind'
  BY <1>1, <1>2, <1>3 DEF Inv, Behind, Typed, IsState
<1>7. Cause => Cause'
  <2>1. ASSUME NEW g \in Files, legacy[g] # Absent, state[g] \notin {Absent, legacy[g]}
        PROVE  legacy'[g] # Absent /\ state'[g] \notin {Absent, legacy'[g]}
    BY <1>1, <1>2, <1>3, <2>1 DEF Inv, Behind, Typed, IsState, Named
  <2>2. QED
    BY <1>1, <2>1 DEF Cause, Differs
<1>8. Caused'
  BY <1>1, <1>7 DEF Inv, Caused
<1>9. StateKept'
  BY <1>1, <1>2, <1>3 DEF Inv, StateKept, Named
<1>10. Typed'
  BY <1>1, <1>2, <1>3 DEF Inv, Typed, IsState, IsMarker, IsBackup
<1>11. QED
  BY <1>4, <1>5, <1>6, <1>8, <1>9, <1>10 DEF Inv

-----------------------------------------------------------------------------
(* The backup. *)

LEMMA BackupStep ==
    ASSUME Named, Inv, UNCHANGED << made, layout, config, open, history, load >>,
           IsBackup(backup'), Backups',
           \/ lock \in {Absent, "backup"} /\ (backup'.at \in Copying => lock' = "backup")
           \/ UNCHANGED lock /\ backup'.at \notin Copying
    PROVE  Inv'
<1>1. /\ Behind' /\ Accounted' /\ StateKept' /\ (Cause <=> Cause')
      /\ IsState(legacy)' /\ IsState(state)' /\ IsState(last)'
      /\ IsMarker(marker)' /\ marker'.complete \in BOOLEAN /\ oldStage' \in {Absent, Parts}
      /\ newStage' \in {Absent} \cup SUBSET Parts /\ load'.old \in BOOLEAN
  BY FilesSame
<1>2. UNCHANGED << marker, state, newStage, legacy, oldStage, torn >>
  BY DEF layout, history
<1>3. Placed' /\ Filling' /\ Caused'
  BY <1>1, <1>2 DEF Inv, Placed, PlacedAt, Copied, Filling, Caused
<1>4. Locked'
  BY DEF Inv, Locked, Named
<1>5. Typed'
  BY <1>1 DEF Inv, Typed, IsBackup
<1>6. QED
  BY <1>1, <1>3, <1>4, <1>5 DEF Inv

Shown(b, w) == [b EXCEPT !.at = "asked", !.wanted = w]
Begun(b, t) == [b EXCEPT !.at = "copy", !.taken = t]
Filled(b, c) == [b EXCEPT !.files = c]
Published(b) == [b EXCEPT !.at = "verify", !.manifest = b.taken]
Placing(b, at) == [b EXCEPT !.at = at]

\* The fields of the backup after each kind of step.
LEMMA BackupFields ==
    ASSUME NEW b, IsBackup(b), NEW x
    PROVE  /\ LET n == Shown(b, x) IN /\ IsBackup(n) /\ n.at = "asked" /\ n.wanted = x /\ n.taken = b.taken
                                      /\ n.files = b.files /\ n.manifest = b.manifest
           /\ LET n == Begun(b, x) IN /\ IsBackup(n) /\ n.at = "copy" /\ n.wanted = b.wanted /\ n.taken = x
                                      /\ n.files = b.files /\ n.manifest = b.manifest
           /\ LET n == Filled(b, x) IN /\ IsBackup(n) /\ n.at = b.at /\ n.wanted = b.wanted /\ n.taken = b.taken
                                       /\ n.files = x /\ n.manifest = b.manifest
           /\ LET n == Published(b) IN /\ IsBackup(n) /\ n.at = "verify" /\ n.wanted = b.wanted
                                       /\ n.taken = b.taken /\ n.files = b.files /\ n.manifest = b.taken
           /\ LET n == Placing(b, x) IN /\ IsBackup(n) /\ n.at = x /\ n.wanted = b.wanted /\ n.taken = b.taken
                                        /\ n.files = b.files /\ n.manifest = b.manifest
<1>1. ASSUME NEW n, n = Shown(b, x)
      PROVE  /\ IsBackup(n) /\ n.at = "asked" /\ n.wanted = x /\ n.taken = b.taken
             /\ n.files = b.files /\ n.manifest = b.manifest
  BY <1>1 DEF IsBackup, Shown
<1>2. ASSUME NEW n, n = Begun(b, x)
      PROVE  /\ IsBackup(n) /\ n.at = "copy" /\ n.wanted = b.wanted /\ n.taken = x
             /\ n.files = b.files /\ n.manifest = b.manifest
  BY <1>2 DEF IsBackup, Begun
<1>3. ASSUME NEW n, n = Filled(b, x)
      PROVE  /\ IsBackup(n) /\ n.at = b.at /\ n.wanted = b.wanted /\ n.taken = b.taken
             /\ n.files = x /\ n.manifest = b.manifest
  BY <1>3 DEF IsBackup, Filled
<1>4. ASSUME NEW n, n = Published(b)
      PROVE  /\ IsBackup(n) /\ n.at = "verify" /\ n.wanted = b.wanted
             /\ n.taken = b.taken /\ n.files = b.files /\ n.manifest = b.taken
  BY <1>4 DEF IsBackup, Published
<1>5. ASSUME NEW n, n = Placing(b, x)
      PROVE  /\ IsBackup(n) /\ n.at = x /\ n.wanted = b.wanted /\ n.taken = b.taken
             /\ n.files = b.files /\ n.manifest = b.manifest
  BY <1>5 DEF IsBackup, Placing
<1>6. QED
  BY <1>1, <1>2, <1>3, <1>4, <1>5

LEMMA BackupKnown == ASSUME Inv PROVE Backups /\ IsBackup(backup) /\ (backup.at \in Copying => lock = "backup")
BY DEF Inv, Typed, Locked

LEMMA PreflightInv == ASSUME Named, Inv, Preflight PROVE Inv'
<1>1. /\ UNCHANGED << made, layout, config, open, history, load, lock >>
      /\ backup.at = "none" /\ backup' = Shown(backup, Snapshot)
  BY DEF Preflight, BackupOnly, Unused, Shown
<1> HIDE DEF Snapshot
<1>2. /\ IsBackup(backup') /\ backup'.at = "asked" /\ backup'.files = backup.files
      /\ backup'.manifest = backup.manifest
  BY <1>1, BackupKnown, BackupFields
<1>3. Backups'
  BY <1>1, <1>2, BackupKnown DEF Backups, BackupWhole, Copying
<1>4. QED
  BY <1>1, <1>2, <1>3, BackupStep DEF Copying

LEMMA BeginBackupInv == ASSUME Named, Inv, BeginBackup PROVE Inv'
<1>1. UNCHANGED << made, layout, config, open, history, load >> /\ backup.at = "asked" /\ lock = Absent
  BY DEF BeginBackup, BackupOnly, Unused
<1>2. CASE backup.wanted = Snapshot /\ lock' = "backup" /\ backup' = Begun(backup, Snapshot)
  <2>1. Snapshot = [f \in DOMAIN Snapshot |-> Snapshot[f]]
    BY DEF Snapshot
  <2> HIDE DEF Snapshot
  <2>2. /\ IsBackup(backup') /\ backup'.at = "copy" /\ backup'.wanted = Snapshot /\ backup'.taken = Snapshot
        /\ backup'.files = backup.files /\ backup'.manifest = backup.manifest
    BY <1>2, BackupKnown, BackupFields
  <2>3. backup.files = [f \in {} |-> Absent] /\ backup.manifest = Absent
    BY <1>1, BackupKnown DEF Backups
  <2>4. DOMAIN backup.files = {} /\ backup.files = [f \in DOMAIN backup.files |-> Snapshot[f]]
    BY <2>3
  <2>5. Backups'
    BY <2>1, <2>2, <2>3, <2>4 DEF Backups, BackupWhole, Copying
  <2>6. QED
    BY <1>1, <1>2, <2>2, <2>5, BackupStep
<1>3. CASE backup' = NoBackup /\ UNCHANGED lock
  <2>1. IsBackup(backup') /\ backup'.at = "none" /\ Backups'
    BY <1>3 DEF NoBackup, IsBackup, Backups, BackupWhole, Copying
  <2>2. QED
    BY <1>1, <1>3, <2>1, BackupStep DEF Copying
<1>4. QED
  BY <1>2, <1>3 DEF BeginBackup, Begun

LEMMA CopyOutInv == ASSUME Named, Inv, CopyOut PROVE Inv'
<1> DEFINE b == backup
<1>1. UNCHANGED << made, layout, config, open, history, load, lock >> /\ b.at = "copy" /\ lock = "backup"
  BY BackupKnown DEF CopyOut, BackupOnly, Unused, Copying
<1>2. /\ b.taken = b.wanted /\ b.taken = [f \in DOMAIN b.taken |-> b.taken[f]]
      /\ DOMAIN b.files \subseteq DOMAIN b.taken /\ b.files = [f \in DOMAIN b.files |-> b.taken[f]]
      /\ b.manifest = Absent
  BY <1>1, BackupKnown DEF Backups, Copying
<1>3. CASE DOMAIN b.taken \ DOMAIN b.files = {} /\ backup' = Placing(b, "publish")
  <2>1. /\ IsBackup(backup') /\ backup'.at = "publish" /\ backup'.wanted = b.wanted /\ backup'.taken = b.taken
        /\ backup'.files = b.files /\ backup'.manifest = b.manifest
    BY <1>3, BackupKnown, BackupFields
  <2>2. DOMAIN b.files = DOMAIN b.taken
    BY <1>2, <1>3
  <2>3. b.files = b.taken
    BY <1>2, <2>2
  <2>4. Backups'
    BY <1>2, <2>1, <2>3 DEF Backups, BackupWhole, Copying
  <2>5. QED
    BY <1>1, <2>1, <2>4, BackupStep
<1>4. ASSUME NEW f \in DOMAIN b.taken,
             backup' = Filled(b, [k \in DOMAIN b.files \cup {f} |-> b.taken[k]])
      PROVE  Inv'
  <2>1. PICK c : c = [k \in DOMAIN b.files \cup {f} |-> b.taken[k]]
    OBVIOUS
  <2>2. /\ IsBackup(backup') /\ backup'.at = b.at /\ backup'.wanted = b.wanted /\ backup'.taken = b.taken
        /\ backup'.files = c /\ backup'.manifest = b.manifest
    BY <1>4, <2>1, BackupKnown, BackupFields
  <2>3. DOMAIN c \subseteq DOMAIN b.taken /\ c = [k \in DOMAIN c |-> b.taken[k]]
    BY <1>2, <2>1
  <2>4. Backups'
    BY <1>1, <1>2, <2>2, <2>3 DEF Backups, BackupWhole, Copying
  <2>5. QED
    BY <1>1, <2>2, <2>4, BackupStep
<1>5. QED
  BY <1>3, <1>4 DEF CopyOut, Stage, Placing, Filled

LEMMA PublishInv == ASSUME Named, Inv, Publish PROVE Inv'
<1>1. UNCHANGED << made, layout, config, open, history, load >> /\ backup.at = "publish" /\ lock = "backup"
  BY BackupKnown DEF Publish, BackupOnly, Unused, Copying
<1>2. /\ backup.taken = backup.wanted /\ backup.taken = [f \in DOMAIN backup.taken |-> backup.taken[f]]
      /\ backup.files = backup.taken /\ backup.manifest = Absent
  BY <1>1, BackupKnown DEF Backups, Copying
<1>3. CASE backup' = Published(backup) /\ UNCHANGED lock
  <2>1. /\ IsBackup(backup') /\ backup'.at = "verify" /\ backup'.wanted = backup.wanted
        /\ backup'.taken = backup.taken /\ backup'.files = backup.files /\ backup'.manifest = backup.taken
    BY <1>3, BackupKnown, BackupFields
  <2>2. backup.files = [f \in DOMAIN backup.files |-> backup.taken[f]]
    BY <1>2
  <2>3. Backups'
    BY <1>2, <2>1, <2>2 DEF Backups, BackupWhole, Copying
  <2>4. QED
    BY <1>1, <1>3, <2>1, <2>3, BackupStep
<1>4. CASE backup' = Placing(backup, "failed") /\ lock' = Absent
  <2>1. /\ IsBackup(backup') /\ backup'.at = "failed" /\ backup'.wanted = backup.wanted
        /\ backup'.files = backup.files /\ backup'.manifest = backup.manifest
    BY <1>4, BackupKnown, BackupFields
  <2>2. Backups'
    BY <1>2, <2>1 DEF Backups, BackupWhole, Copying
  <2>3. QED
    BY <1>1, <1>4, <2>1, <2>2, BackupStep DEF Copying
<1>5. QED
  BY <1>3, <1>4 DEF Publish, Stage, Placing, Published

LEMMA VerifyInv == ASSUME Named, Inv, Verify PROVE Inv'
<1>1. /\ UNCHANGED << made, layout, config, open, history, load >> /\ backup.at = "verify"
      /\ lock = "backup" /\ lock' = Absent
  BY BackupKnown DEF Verify, BackupOnly, Unused, Copying
<1>2. backup.taken = backup.wanted /\ backup.files = backup.taken /\ backup.manifest = backup.taken
  BY <1>1, BackupKnown DEF Backups, Copying
<1>3. PICK at \in {"verified", "failed"} : backup' = Placing(backup, at)
  BY DEF Verify, Stage, Placing
<1>4. /\ IsBackup(backup') /\ backup'.at = at /\ backup'.wanted = backup.wanted
      /\ backup'.files = backup.files /\ backup'.manifest = backup.manifest
  BY <1>3, BackupKnown, BackupFields
<1>5. Backups'
  BY <1>2, <1>4 DEF Backups, BackupWhole, Copying
<1>6. QED
  BY <1>1, <1>4, <1>5, BackupStep DEF Copying

LEMMA CrashBackupInv == ASSUME Named, Inv, CrashBackup PROVE Inv'
<1>1. /\ UNCHANGED << made, layout, config, open, history, load >> /\ backup.at \in Copying
      /\ lock = "backup" /\ lock' = Absent /\ backup' = Placing(backup, "failed")
  BY BackupKnown DEF CrashBackup, Use, Copying, Stage, Placing
<1>2. /\ IsBackup(backup') /\ backup'.at = "failed" /\ backup'.wanted = backup.wanted
      /\ backup'.files = backup.files /\ backup'.manifest = backup.manifest
  BY <1>1, BackupKnown, BackupFields
<1>3. Backups'
  BY <1>1, <1>2, BackupKnown DEF Backups, BackupWhole, Copying
<1>4. QED
  BY <1>1, <1>2, <1>3, BackupStep DEF Copying

-----------------------------------------------------------------------------
(* Every step. *)

LEMMA StutterInv == ASSUME Named, Inv, UNCHANGED vars PROVE Inv'
<1>1. UNCHANGED << made, layout, config, open, history, load, lock, backup >>
  BY DEF vars, layout, history
<1>2. Backups' /\ IsBackup(backup')
  BY <1>1, BackupsSame DEF Inv, Typed
<1>3. \/ lock \in {Absent, "backup"} /\ (backup'.at \in Copying => lock' = "backup")
      \/ UNCHANGED lock /\ backup'.at \notin Copying
  BY <1>1, BackupKnown
<1>4. QED
  BY <1>1, <1>2, <1>3, BackupStep

LEMMA NextInv == ASSUME Named, Inv, [Next]_vars PROVE Inv'
<1>1. ASSUME NEW p \in Openers,
             \/ LookAround(p) \/ EnsureDirectories(p) \/ Enter(p) \/ CheckLayout(p) \/ CopyJson(p)
             \/ CopyStaging(p) \/ MarkComplete(p) \/ CleanupLegacy(p) \/ Bind(p) \/ EnsureFiles(p)
             \/ RequireControl(p) \/ SaveConfig(p) \/ Again(p) \/ Crash(p)
      PROVE  Inv'
  BY <1>1, LookAroundInv, EnsureDirectoriesInv, EnterInv, CheckLayoutInv, CopyJsonInv,
     CopyStagingInv, MarkCompleteInv, CleanupLegacyInv, BindInv, EnsureFilesInv,
     RequireControlInv, SaveConfigInv, AgainInv, CrashInv
<1>2. ASSUME NEW p \in Openers, NEW f \in Files, Write(p, f) \/ Finish(p, f)
      PROVE  Inv'
  BY <1>2, WriteInv, FinishInv
<1>3. ASSUME NEW f \in Files, OldWrite(f) \/ Lose(f) \/ Edit(f)
      PROVE  Inv'
  BY <1>3, OldWriteInv, LoseInv, EditInv
<1>4. CASE Preflight \/ BeginBackup \/ CopyOut \/ Publish \/ Verify \/ CrashBackup
  BY <1>4, PreflightInv, BeginBackupInv, CopyOutInv, PublishInv, VerifyInv, CrashBackupInv
<1>5. QED
  BY <1>1, <1>2, <1>3, <1>4, StutterInv DEF Next

\* An owner is given once, and never to the Vault of an older layout.
LEMMA NextOwner == ASSUME Named, Inv, [Next]_vars PROVE OwnerStands
<1>1. load.old => marker.owner = Absent
  BY DEF Inv, Accounted
<1>2. ASSUME NEW p \in Openers, MarkComplete(p) \/ RequireControl(p) \/ Bind(p), marker.owner # Absent
      PROVE  marker'.owner = marker.owner
  <2>1. IsMarker(marker)
    BY DEF Inv, Typed
  <2>2. CASE MarkComplete(p)
    BY <2>1, <2>2 DEF MarkComplete, IsMarker
  <2>3. CASE RequireControl(p)
    BY <2>1, <2>3 DEF RequireControl, IsMarker
  <2>4. CASE Bind(p)
    BY <1>2, <2>4 DEF Bind
  <2>5. QED
    BY <1>2, <2>2, <2>3, <2>4
<1>3. ASSUME NEW p \in Openers,
             \/ LookAround(p) \/ EnsureDirectories(p) \/ Enter(p) \/ CheckLayout(p) \/ CopyJson(p)
             \/ CopyStaging(p) \/ CleanupLegacy(p) \/ EnsureFiles(p)
             \/ SaveConfig(p) \/ Again(p) \/ Crash(p)
      PROVE  UNCHANGED marker
  BY <1>3 DEF LookAround, EnsureDirectories, Enter, CheckLayout, CopyJson, CopyStaging, CleanupLegacy,
              EnsureFiles, SaveConfig, Again, Crash, layout
<1>4. ASSUME NEW p \in Openers, NEW f \in Files, Write(p, f) \/ Finish(p, f)
      PROVE  UNCHANGED marker
  BY <1>4 DEF Write, Finish
<1>5. ASSUME NEW f \in Files, OldWrite(f) \/ Lose(f) \/ Edit(f)
      PROVE  UNCHANGED marker
  BY <1>5 DEF OldWrite, Lose, Edit
<1>6. ASSUME Preflight \/ BeginBackup \/ CopyOut \/ Publish \/ Verify \/ CrashBackup
      PROVE  UNCHANGED marker
  BY <1>6 DEF Preflight, BeginBackup, CopyOut, Publish, Verify, CrashBackup, BackupOnly, layout
<1>7. CASE UNCHANGED vars
  BY <1>1, <1>7 DEF vars, OwnerStands
<1>8. QED
  BY <1>1, <1>2, <1>3, <1>4, <1>5, <1>6, <1>7 DEF Next, OwnerStands

\* What the invariant says of a state.
LEMMA InvRight == ASSUME Inv PROVE StateKept /\ NotMadeAnew /\ RefusedForCause /\ BackupWhole
<1>1. StateKept /\ BackupWhole
  BY DEF Inv, Backups
<1>2. NotMadeAnew
  BY DEF Inv, Accounted, NotMadeAnew
<1>3. RefusedForCause
  BY DEF Inv, Caused, Cause, Differs, RefusedForCause, At, Agrees
<1>4. QED
  BY <1>1, <1>2, <1>3

-----------------------------------------------------------------------------
(* The newest value that any writer gave a file stays readable through a   *)
(* migration that dies at any step, a control that was lost is never made  *)
(* anew, an owner is given once and never guessed, an opening is refused   *)
(* only for a cause, and a backup with a manifest holds what was asked     *)
(* for (state_layout.py, vault.py, migration.py).                          *)
THEOREM StateRight == ASSUME Named PROVE Spec => StateHolds
<1> DEFINE Right == StateKept /\ NotMadeAnew /\ RefusedForCause /\ BackupWhole
<1>1. Init => Inv
  BY InitInv
<1>2. Inv /\ [Next]_vars => Inv'
  BY NextInv
<1>3. Inv => Right
  BY InvRight
<1>4. Inv /\ [Next]_vars => OwnerStands
  BY NextOwner
<1>5. Right' /\ OwnerStands => StepsRight
  BY DEF StepsRight
<1> HIDE DEF Right
<1>6. QED
  BY <1>1, <1>2, <1>3, <1>4, <1>5, PTL DEF Spec, StateHolds
=============================================================================
