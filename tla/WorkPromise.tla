---------------------------- MODULE WorkPromise ----------------------------
(***************************************************************************)
(* What the host ledger promises an agent about its works, in terms of     *)
(* outcomes only: an accepted submission costs one unit of a budget fixed  *)
(* in advance; it decides items that are still open, once; a decision that *)
(* froze a group stands until the group is saved or given up, and no       *)
(* further submission is accepted meanwhile; outcomes are final.           *)
(***************************************************************************)
EXTENDS Naturals, FiniteSets

CONSTANTS Works, Items, Limit

VARIABLES
    used,       \* accepted submissions of each work
    attempt,    \* the submission that decided each item last (0: none)
    outcome     \* "open", "frozen", "saved", "unchanged" or "cancelled"

promise == << used, attempt, outcome >>

Final == {"saved", "unchanged", "cancelled"}
AllOutcomes == Final \cup {"open", "frozen"}

PromiseInit ==
    /\ used = [w \in Works |-> 0]
    /\ attempt = [w \in Works |-> [i \in Items |-> 0]]
    /\ outcome = [w \in Works |-> [i \in Items |-> "open"]]

Charge(w) ==
    /\ used[w] < Limit
    /\ \A i \in Items : outcome[w][i] # "frozen"
    /\ used' = [used EXCEPT ![w] = @ + 1]
    /\ UNCHANGED << attempt, outcome >>

\* The latest accepted submission decides some of the open items; it does so
\* once, so no item may bear its number yet.
Decide(w) ==
    /\ used[w] > 0
    /\ \A i \in Items : attempt[w][i] < used[w] /\ outcome[w][i] # "frozen"
    /\ \E ids \in (SUBSET {i \in Items : outcome[w][i] = "open"}) \ {{}} :
       \E what \in [ids -> {"open", "frozen", "unchanged"}] :
          /\ attempt' = [attempt EXCEPT ![w] =
                [i \in Items |-> IF i \in ids THEN used[w] ELSE @[i]]]
          /\ outcome' = [outcome EXCEPT ![w] =
                [i \in Items |-> IF i \in ids THEN what[i] ELSE @[i]]]
    /\ UNCHANGED used

Settles(w, i) ==
    /\ outcome[w][i] = "frozen"
    /\ outcome' = [outcome EXCEPT ![w][i] = "saved"]
    /\ UNCHANGED << used, attempt >>

\* Closing a work gives up open items and such frozen groups as left no trace.
Close(w) ==
    /\ \E ids \in SUBSET {i \in Items : outcome[w][i] \in {"open", "frozen"}} :
          outcome' = [outcome EXCEPT ![w] =
                        [i \in Items |-> IF i \in ids THEN "cancelled" ELSE @[i]]]
    /\ UNCHANGED << used, attempt >>

PromiseNext ==
    \E w \in Works :
        Charge(w) \/ Decide(w) \/ Close(w) \/ \E i \in Items : Settles(w, i)

PromiseSpec == PromiseInit /\ [][PromiseNext]_promise
=============================================================================
