CONSTANTS
    Sectors <- FourSectors
    MaxLength = 3
    Sizes = {3, 4}
    LiveLimit = 2
    CompactFloor = 2
    CompactRatio = 1
    MaxOps = 2
    MaxFaults = 1
    MaxExits = 1
    Ranges <- SomeRanges
    Readers = {r1}
SPECIFICATION Spec
INVARIANTS SurvivesExit Reopens ReadsAreCurrent
CHECK_DEADLOCK FALSE
