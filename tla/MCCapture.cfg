\* A turn that is revised, settled, cleaned up, and comes back.
CONSTANTS
    Absent = "none"
    Talks <- Revising
    MaxCrashes = 0
SPECIFICATION Spec
INVARIANT StaleIsScheduled
CHECK_DEADLOCK FALSE
