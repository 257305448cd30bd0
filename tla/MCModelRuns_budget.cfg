\* One invocation at a time, a failure, a kill, and a budget file that is restored.
CONSTANTS
    d1 = d1  d2 = d2  d3 = d3  p1 = p1  p2 = p2  t1 = t1  t2 = t2
    Nobody = Nobody
    Runs = {t1}
    Callers = {d1}
    Procs = {p1}
    HostOf <- Hosts
    Limit = 2
    MaxFaults = 1
    MaxKills = 1
    MaxLapses = 1
SPECIFICATION FairSpec
INVARIANTS CallsWithinBudget
PROPERTIES InvocationsReturn
CHECK_DEADLOCK FALSE
