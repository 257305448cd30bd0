\* Three invocations in two processes, of one run.
CONSTANTS
    d1 = d1  d2 = d2  d3 = d3  p1 = p1  p2 = p2  t1 = t1  t2 = t2
    Nobody = Nobody
    Runs = {t1}
    Callers = {d1, d2, d3}
    Procs = {p1, p2}
    HostOf <- Hosts
    Limit = 2
    MaxFaults = 1
    MaxKills = 1
    MaxLapses = 0
SPECIFICATION Spec
SYMMETRY Threads
INVARIANTS TypeOK OneCallAtATime NoAnswerThrownAway CompletedIsCommitted
PROPERTIES ForgottenStaysCancelled OutcomesStand
CHECK_DEADLOCK FALSE
