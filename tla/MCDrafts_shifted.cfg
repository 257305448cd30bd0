\* A merge, then two new facts whose fields are not read at once.
CONSTANTS
    NoDraft = NoDraft
    d1 = d1
    d2 = d2
    d3 = d3
SPECIFICATION DraftSpec
INVARIANT NothingSilent
CHECK_DEADLOCK FALSE
