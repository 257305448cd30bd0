------------------------------- MODULE MCJobs -------------------------------
(* The process jobs under two kinds of failure, one kind per behaviour:    *)
(* workers that die and launches that fail, under dispatchers that do not; *)
(* and dispatchers that die or fail to write, but not between a launch and *)
(* its record, with requests that differ.  The queue has room for one.    *)
EXTENDS ProcessJobs

CONSTANTS s1, s2, x, y

MCSessions == {s1, s2}
MCArgs == {x, y}
MCFrailties == {{}, {"choose", "dispatch", "launch", "finish"}}

(* Sessions and arguments are alike: the first request is of s1 with x.    *)
Canonical == asks = 0 /\ asks' = 1 => op'.session = s1 /\ op'.args = x

(* Where no holder fails, all requests are alike.                         *)
Alike == asks' > asks /\ HoldersSteady => op'.args = x

MCSpec == Init /\ [][Next /\ Canonical /\ Alike]_vars /\ Fairness
=============================================================================
