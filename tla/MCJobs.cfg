SPECIFICATION MCSpec
CONSTANTS
    s1 = s1  s2 = s2  x = x  y = y
    Sessions <- MCSessions
    Args <- MCArgs
    Frailties <- MCFrailties
    QueueMax = 1
    MaxJobs = 3
    MaxPids = 4
    Retained = 2
    MaxAsks = 4
    MaxMishaps = 3
INVARIANTS TypeOK OneAtATime NoStall SessionAlone NothingForgotten
PROPERTIES QueueDrains
CHECK_DEADLOCK FALSE
