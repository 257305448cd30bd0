---------------------------- MODULE MCComponents ----------------------------
(* The components that share no variable, one in each behaviour: "part"   *)
(* says which, the others keep the first of their initial states.          *)
EXTENDS VaultMutations, MCDrafts, TLC

CONSTANT Parts

VARIABLES part

----------------------------------------------------------------------------
(* Mutations of the Vault: a turn whose commit merges two memories, and a  *)
(* completion of it that creates a third under a new scope, beside an      *)
(* update, a retraction and a compaction of the same memories.             *)

CONSTANTS m1, m2, m3, w1, w2, a1, a2, b1, c3, q1, x1, s1, e1, e2

OrderOf == w1 :> << a1, a2, b1 >> @@ w2 :> << c3 >>

PlanOf ==
    LET Step(act, mem, into, scope, from) ==
          [act |-> act, mem |-> mem, into |-> into, scope |-> scope, from |-> from] IN
    a1 :> Step("UPDATE", m1, Absent, Absent, {e1})
    @@ a2 :> Step("UPDATE", m2, a1, Absent, {e1})
    @@ b1 :> Step("NO_MEMORY", Absent, Absent, Absent, {e2})
    @@ c3 :> Step("CREATE", m3, Absent, s1, {e2})

MixesOf ==
    {{"commit", "forget"}, {"commit", "update", "retract"},
     {"commit", "snapshot", "compact"}, {"update", "retract", "forget"},
     {"update", "retract", "snapshot", "compact"},
     {"snapshot", "compact", "forget"}}
    \cup {{"commit", "forget", "host"}, {"commit", "editor"}, {"forget", "editor"},
          {"update", "retract", "editor"}, {"snapshot", "compact", "editor"}}

ParentOf == w1 :> Absent @@ w2 :> w1
WantsOf == q1 :> m1 @@ x1 :> m2

VaultInit ==
    /\ Init
    /\ part # "vault" => actors = CHOOSE mix \in MixesOf : TRUE

----------------------------------------------------------------------------
(* Authority of hosts: two grants, two approvals of the kinds named.       *)

CONSTANTS g1, g2, r1, o1, o2

VARIABLES grant, approval, hostWorks, deletion, hostHead, saving, hostEdits,
          changes, mix

HostMixes ==
    LET Mix(kinds, approvals, alter, edit, first) ==
          [kinds |-> kinds, approvals |-> approvals, changes |-> alter,
           edits |-> edit, head |-> first]
        ToResume == "resume_after_revocation"  ToDelete == "permanent_delete" IN
    {Mix({ToResume}, 2, 2, 0, "base"), Mix({ToResume, ToDelete}, 2, 1, 0, "base"),
     Mix({ToResume}, 1, 1, 1, Absent), Mix({ToResume}, 1, 1, 1, "base"),
     Mix({"source_confirmation"}, 1, 1, 0, Absent), Mix({ToDelete}, 1, 0, 1, "base"),
     Mix({"new_processing_budget"}, 1, 1, 0, "base")}

Authority == INSTANCE HostAuthority WITH
    Grants <- {g1, g2}, Roots <- {r1}, Approvals <- {o1, o2}, Limit <- 1,
    Mixes <- HostMixes, works <- hostWorks, head <- hostHead, edits <- hostEdits

AuthorityInit ==
    /\ Authority!Init
    /\ part # "authority" => mix = CHOOSE any \in HostMixes : TRUE

\* What the theorem about HostAuthority asks of the names of things.
ASSUME AuthorityNamed == Authority!Named

AuthorityHolds == Authority!AuthorityHolds

----------------------------------------------------------------------------
(* Capture: two turns of which one is revised; the same with an answer     *)
(* revised as well; recording switched off and on.                         *)

VARIABLES inbox, ledger, talk, memory, crashes

Talks ==
    LET Msg(turn, role, says, times) ==
          [turn |-> turn, role |-> role, says |-> says, last |-> times,
           after |-> IF role = "assistant" THEN "user" ELSE Absent] IN
    {{Msg(1, "user", "plain", 2), Msg(1, "assistant", "plain", 1),
      Msg(2, "user", "plain", 1), Msg(2, "assistant", "plain", 1)},
     {Msg(1, "user", "plain", 2), Msg(1, "assistant", "plain", 2),
      Msg(2, "user", "plain", 1)},
     {Msg(1, "user", "plain", 1), Msg(1, "assistant", "plain", 1),
      Msg(2, "user", "off", 1), Msg(3, "user", "on", 1),
      Msg(3, "assistant", "unrecorded", 1)}}

Inbox == INSTANCE Capture WITH MaxCrashes <- 1

CaptureInit ==
    /\ Inbox!Init
    /\ part # "capture" => talk = CHOOSE any \in Talks : TRUE

CaptureHolds == Inbox!CaptureHolds

----------------------------------------------------------------------------

hostVars == << grant, approval, hostWorks, deletion, hostHead, saving, hostEdits,
    changes, mix >>
inboxVars == << inbox, ledger, talk, memory, crashes >>

allVars == << part, vars, hostVars, inboxVars, draftVars >>

AllInit ==
    /\ part \in Parts
    /\ VaultInit /\ AuthorityInit /\ CaptureInit
    /\ DraftInit(part = "draft")

(* Every part that takes no part in a behaviour stays as it is. *)
Others(name) ==
    /\ part = name /\ UNCHANGED part
    /\ name # "vault" => UNCHANGED vars
    /\ name # "authority" => UNCHANGED hostVars
    /\ name # "capture" => UNCHANGED inboxVars
    /\ name # "draft" => UNCHANGED draftVars

AllNext ==
    \/ Others("vault") /\ Next
    \/ Others("authority") /\ Authority!Next
    \/ Others("capture") /\ Inbox!Next
    \/ Others("draft") /\ Draft!Next

AllSpec == AllInit /\ [][AllNext]_allVars

Symmetric == Permutations({g1, g2}) \cup Permutations({o1, o2})
=============================================================================
