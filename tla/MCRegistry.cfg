CONSTANTS
    Readers = {r1, r2}
    Urls = {u1}
    Serving <- AnyServing
    Reads <- AnyRead
    None = None
    Attempts = 2
    UrlLife = 2
    Lifetimes = {1}
    MaxTime = 2
    MaxRevoked = 2
    MaxFaults = 1
    MaxReads = 2
SPECIFICATION LiveSpec
INVARIANTS NoRefusedTokenAgain
PROPERTIES ReadsReturn
CHECK_DEADLOCK FALSE
