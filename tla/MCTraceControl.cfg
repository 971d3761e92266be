SPECIFICATION Spec
CONSTANTS
    MaxRecs = 2
    MaxCmds = 3
    MaxReads = 2
    MaxPending = 1
    Sizes = {2, 3}
    Faults = 1
INVARIANTS RecordsAreKept QuietAfterFinish TrailerMatchesHeader
PROPERTIES ServingEnds
CHECK_DEADLOCK FALSE
