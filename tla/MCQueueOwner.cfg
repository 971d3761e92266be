CONSTANTS
    t1 = t1
    t2 = t2
    Tags = {t1, t2}
    CqTurn = 2
    MaxRequests = 2
    MaxFaults = 1
    Faults <- AllFaults
SPECIFICATION LiveSpec
CHECK_DEADLOCK FALSE
INVARIANTS
    BufferLoans
    RepliesAreOwed
    RetirementIsReal
    NoLostEvent
PROPERTIES
    ReleaseEnds
