SPECIFICATION Spec
CONSTANTS
    Sectors <- TwoSectors
    MaxLength = 2
    Sizes = {1, 2}
    LiveLimit = 2
    CompactFloor = 2
    CompactSlack = 0
    Ranges <- SomeRanges
    MaxOps = 2
    MaxFaults = 1
    MaxExits = 1
    MaxLosses = 1
INVARIANT
    ExitKeepsWrites
    FlushSurvives
    PairReopens
CHECK_DEADLOCK FALSE
