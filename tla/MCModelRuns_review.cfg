\* A draft that is committed without its review.
CONSTANTS
    d1 = d1  d2 = d2  d3 = d3  p1 = p1  p2 = p2  t1 = t1  t2 = t2
    Nobody = Nobody
    Runs = {t1}
    Callers = {d1}
    Procs = {p1}
    HostOf <- Hosts
    Limit = 5
    MaxFaults = 0
    MaxKills = 0
    MaxLapses = 0
SPECIFICATION FairSpec
INVARIANTS ReviewedBeforeCommit
CHECK_DEADLOCK FALSE
