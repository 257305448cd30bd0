----------------------------- MODULE MCServices -----------------------------
(* Further components that share no variable, one in each behaviour, as in *)
(* MCComponents: "part" says which.                                        *)
EXTENDS MCHosts, MCStorage, MCQueries, MCInstalls, MCProposals, MCRoutes

CONSTANT Parts

VARIABLE part

vars == << part, gateVars, providerVars, stateVars, budgetVars, queryVars, installVars, proposalVars, noteVars, readingVars, setupVars, keepVars, routeVars, callVars >>

Init ==
    /\ part \in Parts
    /\ GateInit(part = "gate") /\ ProviderInit(part = "provider")
    /\ StateInit(part = "state") /\ LedgerInit(part = "ledger")
    /\ QueryInit(part = "query")
    /\ InstallInit(part = "install")
    /\ ProposalInit(part = "proposal")
    /\ NotesInit(part = "notes")
    /\ ReadingInit(part = "reading")
    /\ SetupInit(part = "setup")
    /\ KeepInit(part = "keep")
    /\ RouteInit(part = "route")
    /\ CallInit(part = "calling")

(* Every part that takes no part in a behaviour stays as it is. *)
Others(name) ==
    /\ part = name /\ UNCHANGED part
    /\ name # "gate" => UNCHANGED gateVars
    /\ name # "provider" => UNCHANGED providerVars
    /\ name # "state" => UNCHANGED stateVars
    /\ name # "ledger" => UNCHANGED budgetVars
    /\ name # "query" => UNCHANGED queryVars
    /\ name # "install" => UNCHANGED installVars
    /\ name # "proposal" => UNCHANGED proposalVars
    /\ name # "notes" => UNCHANGED noteVars
    /\ name # "reading" => UNCHANGED readingVars
    /\ name # "setup" => UNCHANGED setupVars
    /\ name # "keep" => UNCHANGED keepVars
    /\ name # "route" => UNCHANGED routeVars
    /\ name # "calling" => UNCHANGED callVars

Next ==
    \/ Others("gate") /\ Gate!Next
    \/ Others("provider") /\ Provider!Next
    \/ Others("state") /\ State!Next
    \/ Others("ledger") /\ Ledger!Next
    \/ Others("query") /\ Query!Next
    \/ Others("install") /\ Install!Next
    \/ Others("proposal") /\ Proposal!Next
    \/ Others("notes") /\ Notes!Next
    \/ Others("reading") /\ Reading!Next
    \/ Others("setup") /\ Setups!Next
    \/ Others("keep") /\ Keeper!Next
    \/ Others("route") /\ Routes!Next
    \/ Others("calling") /\ Calls!Next

Spec == Init /\ [][Next]_vars

(* Nothing a host said is lost or processed twice on its way from a prompt  *)
(* to the Inbox: the retrieval gate (retrieval_gate.py, host_runtime.py)    *)
(* and the Hermes provider (hermes_provider/_provider.py).                  *)
SessionsHold == GateHolds /\ ProviderHolds /\ RetentionHolds

(* Bookkeeping outlives crashes: the move of a Vault to the private layout  *)
(* and its backups (state_layout.py, migration.py), and the ledger of       *)
(* extraction requests and its budgets (extraction_work_state.py).          *)
StorageHolds == StateHolds /\ LedgerHolds

(* An answer is one the files justify: the queries (query_scan.py,          *)
(* service.py), the notes of other agents (native_index.py), and what a     *)
(* model is given to read in a turn (mcp_server.py, retrieval_gate.py).     *)
AnswersHold == QueriesHold /\ NotesHold /\ ReadingHolds

(* The hosts keep what is theirs, and an install is whole or it says so:   *)
(* Hermes (installer.py, adapters/hermes.py) and Codex (adapters/codex.py).*)
InstallHolds == HermesHolds /\ CodexHolds

(* Memories are extracted by the route the files declare: discovery, the   *)
(* installers, the registry and the router (model_discovery.py, cli.py,    *)
(* llm/router.py); and a call is reported as what it was (llm/base.py).   *)
RoutesHold == RouteHolds /\ CallsHold
=============================================================================
