SPECIFICATION Spec
CONSTANTS
    Blocks = 3
    PerBlock = 2
    LowerSize = 4
    Sizes <- MCSizes
    Ranges <- MCRanges
    MaxOps = 3
    MaxFaults = 2
INVARIANT ExtentsAreEnough
INVARIANT ViewIsRecoverable
INVARIANT ExportIsExact
