----------------------------- MODULE MCModelRuns -----------------------------
(* Instances of ModelRuns for TLC.                                         *)
EXTENDS ModelRuns, TLC

CONSTANTS d1, d2, d3, p1, p2, t1, t2

\* d1 and d2 are threads of one process, d3 runs in another.
Hosts == [d \in Callers |-> IF d = d3 THEN p2 ELSE p1]

\* The two threads may be exchanged; safety runs only.
Threads == Permutations({d1, d2})
=============================================================================
