CONSTANTS
    MaxClient = 2
    MaxEntries = 2
    MaxProcs = 2
    MaxRecoveries = 1
    MaxEvents = 3
SPECIFICATION Spec
CHECK_DEADLOCK FALSE
INVARIANTS
    UpperHasOneOwner
    NoStrayDevice
    RepliesAreOwn
PROPERTIES
    ShutdownEnds
