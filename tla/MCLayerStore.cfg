CONSTANTS
    e1 = e1
    r1 = r1
    w1 = w1
    n1 = n1
    n2 = n2
    NoPair = NoPair
    Extents <- OneExtent
    Readers <- OneReader
    Warmers <- OneWarmer
    Pairs <- TwoPairs
    QueueMax = 1
    TryCount = 2
    HasDigest = TRUE
    WriteErrors <- AllErrors
    MaxBad = 1
    MaxRot = 1
    MaxCrash = 1
SPECIFICATION Spec
SYMMETRY Symmetry
INVARIANTS
    ReadsAreRemoteBytes
    NoStaleGeneration
    CommitIsVerified
    CacheIsCurrent
