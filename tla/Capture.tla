------------------------------ MODULE Capture ------------------------------
(***************************************************************************)
(* The inbox of one session: capture.py, recording_policy.py, inbox.py,    *)
(* the clean-up of process_journal.py, and the selection and settlement of *)
(* turns by the incremental engine.  A delivered message is appended to    *)
(* the inbox file and then given a receipt in the ledger; the process may  *)
(* die between the two, and between the removal of the blocks of a settled *)
(* turn and its mark.  Hosts repeat, reorder and revise messages.  What a  *)
(* work writes, and how, is the subject of ModelRuns and IncrementalCommit.*)
(***************************************************************************)
EXTENDS Naturals, FiniteSets, FiniteSetsExt, SequencesExt

CONSTANTS
    Talks,        \* sets of messages [turn, role, after, says, last]: the role that a
                  \* message answers, the recording control it carries, its last revision
    Absent,
    MaxCrashes

VARIABLES
    inbox,        \* the blocks of the session file, in file order
    ledger,       \* receipts, turn indices, recording policy, settled turns, works
    talk,         \* what the host has to deliver in this behaviour
    memory,       \* the events that the memory of a turn was last derived from
    crashes

vars == << talk, inbox, ledger, memory, crashes >>

Turns == {m.turn : m \in UNION Talks}
EventOf(b) == [msg |-> b.msg, rev |-> b.rev]
Keys(box) == {EventOf(b) : b \in ToSet(box)}

NoEntry == [keys |-> {}, cleanup |-> {}, due |-> "none"]

Init ==
    /\ talk \in Talks
    /\ inbox = << >>
    /\ ledger = [receipts |-> {}, index |-> [t \in Turns |-> 0], next |-> 1,
                 revised |-> {}, enabled |-> TRUE, private |-> {}, applied |-> {},
                 entry |-> [t \in Turns |-> NoEntry], works |-> << >>]
    /\ memory = [t \in Turns |-> << >>]
    /\ crashes = 0

(***************************************************************************)
(* Reading the inbox.                                                      *)
(***************************************************************************)

Places(box, m) == {i \in DOMAIN box : box[i].msg = m}

(* The latest arrival of a message stands for it.  A reply goes when what  *)
(* it answers was there before it and is revised after it.                 *)
Current(box, i) ==
    LET asked == IF box[i].msg.after = Absent THEN {}
                 ELSE {j \in DOMAIN box : box[j].msg.turn = box[i].msg.turn
                                            /\ box[j].msg.role = box[i].msg.after}
    IN /\ \A j \in Places(box, box[i].msg) : j <= i
       /\ (\E j \in asked : j < i) => \A j \in asked : j < i

Parsed(box, t) ==
    LET seen == {i \in DOMAIN box : Current(box, i) /\ box[i].msg.turn = t}
    IN [k \in 1 .. Cardinality(seen) |->
          EventOf(box[CHOOSE i \in seen : Cardinality({j \in seen : j < i}) = k - 1])]

(* One final reply, after everything else. *)
Complete(events) ==
    /\ Len(events) >= 2
    /\ \A k \in DOMAIN events : (events[k].msg.role = "assistant") <=> (k = Len(events))

Seen(box) == {t \in Turns : Parsed(box, t) # << >>}

IndexIn(box, t) == (CHOOSE b \in ToSet(box) : b.msg.turn = t).at

Later(box, t) == {u \in Seen(box) : IndexIn(box, u) > IndexIn(box, t)}

(* The turn and all that follow it are the fence of a work. *)
Window(box, t) == [u \in Later(box, t) \cup {t} |-> Parsed(box, u)]

(***************************************************************************)
(* Receipts.                                                               *)
(***************************************************************************)

(* _invalidate_revised_message_unlocked: the turns whose known messages the *)
(* lost blocks revise.                                                      *)
Revised(lost, known) ==
    {b.msg.turn : b \in {c \in lost : \E e \in known : e.msg = c.msg /\ e.rev # c.rev}}

(* recover_capture_receipts_unlocked: every block gets its receipt. *)
Recovered(led, box) ==
    LET lost == {b \in ToSet(box) : EventOf(b) \notin led.receipts}
        known == led.receipts \cup Keys(box)
    IN [led EXCEPT
          !.receipts = known,
          !.revised = @ \cup Revised(lost, known),
          !.index = [t \in Turns |-> IF \E b \in lost : b.msg.turn = t
                                     THEN (CHOOSE b \in lost : b.msg.turn = t).at ELSE @[t]],
          !.next = Max({@} \cup {b.at + 1 : b \in lost})]

Latest(led, m) == Max({0} \cup {e.rev : e \in {f \in led.receipts : f.msg = m}})

(* apply_control: a control counts once, when its event is first delivered. *)
Policy(led, e) ==
    LET m == e.msg
        new == m.role = "user" /\ m.says \in {"on", "off", "private"} /\ e \notin led.applied
        on == IF new /\ m.says # "private" THEN m.says = "on" ELSE led.enabled
        hidden == \/ m.says = "unrecorded"
                  \/ new /\ m.says # "on"
                  \/ ~on /\ m.role = "user"
    IN [led EXCEPT !.applied = @ \cup (IF new THEN {e} ELSE {}),
                   !.enabled = on,
                   !.private = @ \cup (IF hidden THEN {m.turn} ELSE {})]

TurnIndex(led, t) == IF led.index[t] # 0 THEN led.index[t] ELSE led.next

Block(e, at) == [msg |-> e.msg, rev |-> e.rev, at |-> at]

Allowed(led, t) == led.enabled /\ t \notin led.private

Crash == crashes < MaxCrashes /\ crashes' = crashes + 1

(* A message is delivered, for the first time or again.  A revision is     *)
(* refused unless it follows the head.                                     *)
Capture(m, r) ==
    LET e == [msg |-> m, rev |-> r]
        ruled == Policy(ledger, e)
        led == Recovered(ruled, inbox)
        box == Append(inbox, Block(e, TurnIndex(led, m.turn)))
    IN /\ UNCHANGED memory
       /\ \/ /\ ~Allowed(ruled, m.turn)
             /\ ledger' = ruled /\ UNCHANGED << inbox, crashes >>
          \/ /\ Allowed(ruled, m.turn)
             /\ e \in led.receipts \/ r # Latest(led, m) + 1
             /\ ledger' = led /\ UNCHANGED << inbox, crashes >>
          \/ /\ Allowed(ruled, m.turn)
             /\ e \notin led.receipts /\ r = Latest(led, m) + 1
             /\ \/ inbox' = box /\ ledger' = Recovered(led, box) /\ UNCHANGED crashes
                \/ inbox' = box /\ ledger' = led /\ Crash
                \/ inbox' = inbox /\ ledger' = led /\ Crash

(***************************************************************************)
(* Works of the automatic route: one at a time.                            *)
(***************************************************************************)

Idle == \A k \in DOMAIN ledger.works : ledger.works[k].st # "ready"

(* _snapshot: an incomplete turn holds back those after it, and revisions  *)
(* that had a work do not get another.                                     *)
Eligible(led, t) ==
    /\ \A u \in Seen(inbox) \ Later(inbox, t) : Complete(Parsed(inbox, u))
    /\ Allowed(led, t)
    /\ \A w \in ToSet(led.works) : w.turn = t => w.keys # Parsed(inbox, t)

(* What comes after the turn is whole, and none of it has been cleaned up. *)
ContextWhole(led, t) ==
    /\ \A u \in Later(inbox, t) : Complete(Parsed(inbox, u))
    /\ \A u \in Turns : led.entry[u].due # "none" /\ led.index[u] > led.index[t] => u \in Seen(inbox)

(* process_inbox: receipts first, then a selected turn. *)
Start(t) ==
    LET led == Recovered(ledger, inbox) IN
    /\ Idle /\ t \in Seen(inbox)
    /\ Eligible(led, t) /\ ContextWhole(led, t)
    /\ ledger' = [led EXCEPT !.works = Append(@,
                     [turn |-> t, keys |-> Parsed(inbox, t), window |-> Window(inbox, t),
                      st |-> "ready"])]
    /\ UNCHANGED << inbox, memory, crashes >>

SourceValid(w) ==
    /\ Allowed(ledger, w.turn)
    /\ w.turn \in Seen(inbox) /\ Complete(Parsed(inbox, w.turn))
    /\ Window(inbox, w.turn) = w.window

(* The commit and _settle_source; whole says that the answer left nothing open. *)
Settle(k, whole) ==
    LET w == ledger.works[k]
        valid == SourceValid(w)
        done == valid /\ whole
        old == ledger.entry[w.turn]
    IN /\ w.st = "ready"
       /\ ledger' = [ledger EXCEPT
            !.works[k].st = IF done THEN "completed" ELSE "unresolved",
            !.revised = IF done THEN @ \ {w.turn} ELSE @,
            !.entry[w.turn] =
               [keys |-> IF valid THEN ToSet(w.keys) ELSE old.keys,
                cleanup |-> IF valid THEN old.cleanup \cup old.keys \cup ToSet(w.keys) ELSE old.cleanup,
                due |-> IF done THEN "due" ELSE "held"]]
       /\ memory' = IF done THEN [memory EXCEPT ![w.turn] = w.keys] ELSE memory
       /\ UNCHANGED << inbox, crashes >>

(***************************************************************************)
(* The clean-up of settled turns whose time has come.                      *)
(***************************************************************************)

Protected(led) ==
    UNION {DOMAIN w.window : w \in {v \in ToSet(led.works) : v.st # "completed"}}

Due(led) ==
    {t \in Turns : led.entry[t].due = "due" /\ t \notin Protected(led) \cup led.revised}

(* Mutant: every block of the turn goes. *)
WithoutTurn(box, led, set) == SelectSeq(box, LAMBDA b : b.msg.turn \notin set)

Without(box, led, set) ==
    SelectSeq(box, LAMBDA b : \A t \in set :
                     EventOf(b) \notin led.entry[t].keys \cup led.entry[t].cleanup)

(* _cleanup_due_unlocked; a failure of the index puts the marks back, as a *)
(* crash leaves them.                                                      *)
Cleanup(set) ==
    LET led == Recovered(ledger, inbox) IN
    /\ Idle /\ set # {} /\ set \subseteq Due(led)
    /\ inbox' = Without(inbox, led, set)
    /\ \/ /\ ledger' = [led EXCEPT !.entry = [t \in Turns |->
                           IF t \in set THEN [@[t] EXCEPT !.due = "done"] ELSE @[t]]]
          /\ UNCHANGED crashes
       \/ ledger' = led /\ Crash
    /\ UNCHANGED memory

Next ==
    /\ UNCHANGED talk
    /\ \/ \E m \in talk : \E r \in 1 .. m.last : Capture(m, r)
       \/ \E t \in Turns : Start(t)
       \/ \E k \in DOMAIN ledger.works, whole \in BOOLEAN : Settle(k, whole)
       \/ \E set \in SUBSET Turns : Cleanup(set)

Spec == Init /\ [][Next]_vars

(***************************************************************************)
(* What must hold.                                                         *)
(***************************************************************************)

Newest(m) == Max({0} \cup {e.rev : e \in {f \in ledger.receipts \cup Keys(inbox) : f.msg = m}})

Covered(e) == \E w \in ToSet(ledger.works) : w.st = "completed" /\ e \in ToSet(w.keys)

(* A message that was acknowledged is in the inbox until a completed work  *)
(* has used exactly that revision of it.                                   *)
NothingLost == \A e \in ledger.receipts : e \in Keys(inbox) \/ Covered(e)

(* Two turns never share a place in the order of the session, and a turn   *)
(* never has two, whatever was lost between the block and its receipt.     *)
OneIndexPerTurn ==
    /\ \A b, c \in ToSet(inbox) : b.at = c.at <=> b.msg.turn = c.msg.turn
    /\ \A t, u \in Turns : ledger.index[t] = ledger.index[u] => t = u \/ ledger.index[t] = 0

Unresolved(t) == t \in ledger.revised \/ \E b \in ToSet(inbox) : EventOf(b) \notin ledger.receipts

(* A superseded block outlived the clean-up of its successor and was used. *)
Revived(t) ==
    \E k, l \in DOMAIN ledger.works : k < l /\ ledger.works[l].turn = t
        /\ \E e \in ToSet(ledger.works[k].keys), f \in ToSet(ledger.works[l].keys) :
              e.msg = f.msg /\ e.rev > f.rev

(* source-work-contract.md: a memory that was derived from a revision that *)
(* has been superseded is scheduled to be looked at again.                 *)
StaleIsScheduled ==
    \A t \in Turns : \A e \in ToSet(memory[t]) : e.rev = Newest(e.msg) \/ Unresolved(t)

(* A control that is delivered again does not switch recording back.       *)
ControlsCountOnce == ledger'.enabled # ledger.enabled => ledger'.applied # ledger.applied

(* The inbox keeps its word: nothing acknowledged is lost, turns keep      *)
(* their places, no memory of a revised turn passes for settled (apart     *)
(* from revived blocks, see StaleIsScheduled), and a repeated control does *)
(* not count again.                                                        *)
CaptureHolds ==
    [][/\ NothingLost' /\ OneIndexPerTurn' /\ ControlsCountOnce
       /\ \A t \in Turns : Revived(t)' \/ Unresolved(t)'
             \/ \A e \in ToSet(memory'[t]) : e.rev = Newest(e.msg)']_vars
=============================================================================
