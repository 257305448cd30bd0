------------------------------ MODULE MCStorage ------------------------------
(* Files of a Vault apart from its memories: its runtime state, and the     *)
(* ledger of model requests.  An instance that takes no part ("on" is      *)
(* FALSE) keeps the first of its initial states.                            *)
EXTENDS Integers, Sequences, FiniteSets

CONSTANTS Missing, k1, k2

----------------------------------------------------------------------------
(* Two processes open a Vault, an old one or an empty directory; one       *)
(* durable control and one journal that goes in ordinary use.              *)

VARIABLES made, legacy, state, oldStage, newStage, marker, config, oldLock,
          lock, open, backup, last, lost, gone, torn, stateLoad, used

stateVars == << made, legacy, state, oldStage, newStage, marker, config,
    oldLock, lock, open, backup, last, lost, gone, torn, stateLoad, used >>

StateLoads ==
    LET Load(old, copied, deaths, saves, losses) ==
          [old |-> old, backup |-> copied, crashes |-> deaths, writes |-> saves,
           losses |-> losses] IN
    {Load(TRUE, FALSE, 1, 1, 0), Load(TRUE, FALSE, 2, 0, 0),
     Load(TRUE, FALSE, 1, 0, 1), Load(FALSE, FALSE, 1, 0, 1),
     Load(FALSE, TRUE, 1, 1, 0)}

State == INSTANCE VaultState WITH
    Absent <- Missing, Files <- {"processed", "compaction"},
    Durable <- {"processed"}, Passing <- {"compaction"}, Parts <- 1..2,
    Openers <- {k1, k2}, Loads <- StateLoads, load <- stateLoad

\* What the theorem about VaultState asks of the names of things.
ASSUME StateNamed == State!Named

StateInit(on) == State!Init /\ (~on => stateLoad = CHOOSE any \in StateLoads : TRUE)
StateHolds == State!StateHolds

----------------------------------------------------------------------------
(* Three works and room for two; a job of the older version with requests  *)
(* of one turn or two.                                                     *)

VARIABLES allowance, runs, required, owner, reserved, sealing, preview, grants,
          extra, budgetLoad, budgetUsed

budgetVars == << allowance, runs, required, owner, reserved, sealing, preview,
                 grants, extra, budgetLoad, budgetUsed >>

BudgetLoads ==
    LET Row(many, done) == [requests |-> many, limit |-> 2, done |-> done, extra |-> FALSE]
        None == << >>
        One == [w \in {"w1"} |-> Row(1, FALSE)]
        Two == [w \in {"w1", "w2"} |-> IF w = "w1" THEN Row(2, FALSE) ELSE Row(1, TRUE)]
        Load(rows, same, deaths, losses, upkeeps, previews) ==
          [jobs |-> [j \in {"job"} |-> rows], unchanged |-> same, crashes |-> deaths,
           losses |-> losses, upkeeps |-> upkeeps, previews |-> previews] IN
    {Load(None, TRUE, 1, 0, 0, 0), Load(None, TRUE, 0, 0, 2, 0),
     Load(None, TRUE, 0, 1, 0, 0), Load(One, TRUE, 1, 0, 0, 0),
     Load(Two, FALSE, 0, 0, 0, 0), Load(Two, TRUE, 0, 0, 0, 1)}

Ledger == INSTANCE RequestLedger WITH
    Absent <- Missing, Works <- {"w1", "w2", "w3"}, Jobs <- {"job"}, Limit <- 2,
    MaxWorks <- 2, MaxRetired <- 1, MaxFull <- 2, MaxCompact <- 2,
    MaxRecords <- 1, Loads <- BudgetLoads, ledger <- allowance, asked <- reserved,
    given <- grants, load <- budgetLoad, used <- budgetUsed

LedgerInit(on) == Ledger!Init /\ (~on => budgetLoad = CHOOSE any \in BudgetLoads : TRUE)
LedgerHolds == Ledger!LedgerHolds
=============================================================================
