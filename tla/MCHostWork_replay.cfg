\* A submission that dies after its charge, and a resume that completes the work.
CONSTANTS
    w1 = w1  w2 = w2  i1 = i1  i2 = i2  m1 = m1  m2 = m2  m3 = m3
    r1 = r1  r2 = r2  r3 = r3  r4 = r4  r5 = r5  e0 = e0  e1 = e1
    Absent = Absent
    Works = {w1}
    Items = {i1}
    Mems = {m1, m2}
    Seeded = {m1, m2}
    ExtRevs = {e0}
    Requests = {r1, r2, r3}
    Groups <- OneGroup
    Limit = 2
    MaxFaults = 1
    MaxEdits = 0
SPECIFICATION Spec
SYMMETRY Symmetric
INVARIANTS CompletedReplays
CHECK_DEADLOCK FALSE
