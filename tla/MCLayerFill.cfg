CONSTANTS
    ExtentCount = 2
    RunCap = 2
    QueueMax = 1
    TryCount = 2
    r1 = r1
    Readers = {r1}
    MaxTrouble = 1
SPECIFICATION LiveSpec
CHECK_DEADLOCK FALSE
INVARIANTS
    NoLostSignal
PROPERTIES
    FillEnds
