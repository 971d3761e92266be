SPECIFICATION Spec
CONSTANTS
    Queues = {q1, q2}
    Clients = {1, 2}
    Parent = 0
    MaxSeq = 2
    Faults = 1
INVARIANTS NoFetchAfterStop OldDeviceIsKept ReleasedIsTrue
PROPERTIES ReleasesSettle
CHECK_DEADLOCK FALSE
