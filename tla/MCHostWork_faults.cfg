\* A MERGE of two memories, two failures at any step, one edit by a person.
CONSTANTS
    w1 = w1  w2 = w2  i1 = i1  i2 = i2  m1 = m1  m2 = m2  m3 = m3
    r1 = r1  r2 = r2  r3 = r3  r4 = r4  r5 = r5  e0 = e0  e1 = e1
    Absent = Absent
    Works = {w1}
    Items = {i1}
    Mems = {m1, m2}
    Seeded = {m1, m2}
    ExtRevs = {e0, e1}
    Requests = {r1, r2, r3, r4}
    Groups <- JustPair
    Limit = 2
    MaxFaults = 2
    MaxEdits = 1
SPECIFICATION Spec
SYMMETRY Symmetric
INVARIANTS TypeOK WrittenFromLedger WrittenInOrder SavedIsWhole
PROPERTIES NothingLost
CHECK_DEADLOCK FALSE
