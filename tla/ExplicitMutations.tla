------------------------- MODULE ExplicitMutations -------------------------
(***************************************************************************)
(* memory_update.py and memory_retraction.py: a client that has read a     *)
(* revision asks for its update or its retraction.  The frozen change is   *)
(* journalled per memory before it is written and unlinked after; a call   *)
(* that stopped in between is repeated by its client.                      *)
(***************************************************************************)
EXTENDS VaultFiles

CONSTANTS
    Updates,       \* update requests; the revision each writes
    Retractions,   \* retraction requests; the revision each writes
    Wants,         \* request -> memory
    Reasonless     \* retraction requests that give no reason

ASSUME RequestsAssumption ==
    /\ Updates \cap Retractions = {} /\ Absent \notin Updates \cup Retractions
    /\ \A q \in Updates \cup Retractions : Wants[q] \in Mems

VARIABLES
    upd,           \* Mems -> update journal
    ret,           \* Mems -> retraction journal
    asked          \* request -> the revision its client has read, or Absent

explicit == << upd, ret, asked >>

NoPlan == [req |-> Absent, base |-> Absent]

At(op, q, at) == Holding(op, at) /\ hold.on = q

(* A journal whose memory is neither as read nor as planned is void. *)
Usable(plan, m) == plan # NoPlan /\ head[m] \in {plan.base, plan.req}

(* memory_revision: a client reads the revision it will ask to change. *)
Ask(q) ==
    /\ hold = Free
    /\ asked[q] = Absent
    /\ head[Wants[q]] # Absent
    /\ asked' = [asked EXCEPT ![q] = head[Wants[q]]]
    /\ UNCHANGED << files, upd, ret >>

(***************************************************************************)
(* update_unlocked                                                         *)
(***************************************************************************)

(* The request owns the pending plan, or there is none and its revision    *)
(* is current.                                                             *)
MayUpdate(q, m) ==
    IF Usable(upd[m], m) THEN upd[m] = [req |-> q, base |-> asked[q]]
    ELSE head[m] = asked[q]

Replayed(q, m) == ~ Usable(upd[m], m) /\ head[m] = q

RefuseUpdate(q) ==
    LET m == Wants[q] IN
    /\ At("update", q, "begin")
    /\ \/ head[m] = Absent
       \/ upd[m] # NoPlan /\ ~ Usable(upd[m], m) /\ head[m] # asked[q]
       \/ ~ MayUpdate(q, m) /\ ~ Replayed(q, m)
    /\ Release
    /\ UNCHANGED << head, archive, trace, stale, written, explicit >>

(* A receipt in the head: only the index is made again. *)
ReplayUpdate(q) ==
    LET m == Wants[q] IN
    /\ At("update", q, "begin")
    /\ upd[m] = NoPlan /\ Replayed(q, m)
    /\ Release
    /\ UNCHANGED << head, archive, trace, stale, written, explicit >>

PlanUpdate(q) ==
    LET m == Wants[q] IN
    /\ At("update", q, "begin")
    /\ head[m] # Absent /\ MayUpdate(q, m)
    /\ upd' = [upd EXCEPT ![m] = [req |-> q, base |-> asked[q]]]
    /\ GoTo("archive")
    /\ UNCHANGED << head, archive, trace, stale, written, ret, asked >>

(* write_frozen_unlocked: it scans again, and again before the head. *)
ArchiveForUpdate(q) ==
    LET m == Wants[q] IN
    /\ At("update", q, "archive")
    /\ IF head[m] = q
       THEN GoTo("settle") /\ UNCHANGED archive
       ELSE IF head[m] = upd[m].base
       THEN GoTo("write") /\ archive' = Archived(m, upd[m].base)
       ELSE Release /\ UNCHANGED archive
    /\ Scan
    /\ UNCHANGED << head, trace, written, explicit >>

WriteUpdate(q) ==
    /\ At("update", q, "write")
    /\ IF stale THEN Release /\ UNCHANGED << head, written >>
       ELSE GoTo("settle") /\ Replace(Wants[q], q)
    /\ UNCHANGED << archive, trace, stale, explicit >>

(* _settled_head: only a head that is still the update's ends the journal. *)
SettleUpdate(q) ==
    LET m == Wants[q] IN
    /\ At("update", q, "settle")
    /\ upd' = IF head[m] = q THEN [upd EXCEPT ![m] = NoPlan] ELSE upd
    /\ Release
    /\ UNCHANGED << head, archive, trace, stale, written, ret, asked >>

(***************************************************************************)
(* retract_unlocked                                                        *)
(***************************************************************************)

(* A memory that is gone, or was edited since, voids the journal. *)
VoidRetraction(q) ==
    LET m == Wants[q] IN
    /\ At("retract", q, "begin")
    /\ ret[m] # NoPlan /\ ~ Usable(ret[m], m)
    /\ ret' = [ret EXCEPT ![m] = NoPlan]
    /\ UNCHANGED << head, archive, hold, trace, stale, written, upd, asked >>

MayFinish(q, m) ==
    /\ asked[q] \in {ret[m].base} \cup ({head[m]} \cap {ret[m].req})
    /\ q \in Reasonless \/ ret[m].req = q

EndRetraction(q) ==
    LET m == Wants[q] IN
    /\ At("retract", q, "begin")
    /\ IF ret[m] = NoPlan
       THEN \/ head[m] \notin {asked[q], q}   \* absent, or a revision mismatch
            \/ head[m] \in Retired            \* done already
       ELSE Usable(ret[m], m) /\ ~ MayFinish(q, m)
    /\ Release
    /\ UNCHANGED << head, archive, trace, stale, written, explicit >>

Current(q, m) == head[m] = asked[q]

Retractable(q, m) == head[m] = asked[q] /\ head[m] \notin Retired

PlanRetraction(q) ==
    LET m == Wants[q] IN
    /\ At("retract", q, "begin")
    /\ IF ret[m] = NoPlan
       THEN /\ Retractable(q, m)
            /\ ret' = [ret EXCEPT ![m] = [req |-> q, base |-> asked[q]]]
       ELSE Usable(ret[m], m) /\ MayFinish(q, m) /\ UNCHANGED ret
    /\ GoTo("archive")
    /\ UNCHANGED << head, archive, trace, stale, written, upd, asked >>

(* One scan at the beginning holds for the archive and the head. *)
ArchiveForRetraction(q) ==
    LET m == Wants[q] IN
    /\ At("retract", q, "archive")
    /\ IF stale THEN Release /\ UNCHANGED archive
       ELSE GoTo("write") /\ archive' = Archived(m, ret[m].base)
    /\ UNCHANGED << head, trace, stale, written, explicit >>

WriteRetraction(q) ==
    LET m == Wants[q] IN
    /\ At("retract", q, "write")
    /\ IF stale THEN Release /\ UNCHANGED << head, written >>
       ELSE /\ GoTo("settle")
            /\ IF head[m] = ret[m].base THEN Replace(m, ret[m].req)
               ELSE UNCHANGED << head, written >>
    /\ UNCHANGED << archive, trace, stale, explicit >>

SettleRetraction(q) ==
    /\ At("retract", q, "settle")
    /\ ret' = [ret EXCEPT ![Wants[q]] = NoPlan]
    /\ Release
    /\ UNCHANGED << head, archive, trace, stale, written, upd, asked >>

Mutating ==
    \/ \E q \in Updates :
        \/ RefuseUpdate(q) \/ ReplayUpdate(q) \/ PlanUpdate(q)
        \/ ArchiveForUpdate(q) \/ WriteUpdate(q) \/ SettleUpdate(q)
    \/ \E q \in Retractions :
        \/ VoidRetraction(q) \/ EndRetraction(q) \/ PlanRetraction(q)
        \/ ArchiveForRetraction(q) \/ WriteRetraction(q) \/ SettleRetraction(q)

(* RetractionManager.cancel_unlocked, ExplicitUpdateManager.cancel_unlocked *)
CancelRetraction(m) ==
    /\ At("forget", m, "retraction")
    /\ ret' = [ret EXCEPT ![m] = NoPlan]
    /\ GoTo("update")
    /\ UNCHANGED << head, archive, trace, stale, written, upd, asked >>

UpdateLeft(m) ==
    /\ At("forget", m, "update")
    /\ GoTo("history")
    /\ UNCHANGED << head, archive, trace, stale, written, explicit >>

CancelUpdate(m) ==
    /\ At("forget", m, "update")
    /\ upd' = [upd EXCEPT ![m] = NoPlan]
    /\ GoTo("history")
    /\ UNCHANGED << head, archive, trace, stale, written, ret, asked >>

(* ExplicitUpdateManager._load, RetractionManager._load *)
UpdateJournalType(m) ==
    upd[m] = NoPlan \/ (upd[m].req \in Updates /\ upd[m].base # Absent /\ Wants[upd[m].req] = m)

RetractionJournalType(m) ==
    ret[m] = NoPlan \/ (ret[m].req \in Retractions /\ ret[m].base \notin {Absent} \cup Retired)

InitExplicit ==
    /\ upd = [m \in Mems |-> NoPlan]
    /\ ret = [m \in Mems |-> NoPlan]
    /\ asked = [q \in Updates \cup Retractions |-> Absent]
=============================================================================
