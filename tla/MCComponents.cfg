SPECIFICATION AllSpec
CONSTANTS
    Parts = {"vault", "authority", "capture", "draft"}
    Absent = Absent
    Mems = {m1, m2, m3}
    Seeded = {m1, m2}
    Person = {p1}
    Retired = {a2, x1}
    MaxFaults = 1
    MaxEdits = 1
    MaxMoves = 1
    Works = {w1, w2}
    Order <- OrderOf
    Plan <- PlanOf
    Parent <- ParentOf
    Updates = {q1}
    Retractions = {x1}
    Wants <- WantsOf
    Reasonless = {}
    Mixes <- MixesOf
    m1 = m1
    m2 = m2
    m3 = m3
    w1 = w1
    w2 = w2
    a1 = a1
    a2 = a2
    b1 = b1
    c3 = c3
    q1 = q1
    x1 = x1
    s1 = s1
    e1 = e1
    e2 = e2
    g1 = g1
    g2 = g2
    r1 = r1
    o1 = o1
    o2 = o2
    NoDraft = NoDraft
    d1 = d1
    d2 = d2
    d3 = d3
SYMMETRY Symmetric
INVARIANTS
    TypeOK
    ReceiptsAreTrue
    SurvivorFirst
    ForgottenStaysForgotten
    OriginalKept
    ParentAgrees
PROPERTIES
    WholeOrUndone
    AuthorityHolds
    CaptureHolds
    DraftHolds
CHECK_DEADLOCK FALSE
