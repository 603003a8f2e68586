SPECIFICATION FairSpec
CONSTANTS
    a = a
    b = b
    Junk = Junk
    Url = {a, b}
    BatchSize = 1
    FlushEvery = 2
    MaxUpdates = 1
    MaxCrashes = 1
    MaxLosses = 0
PROPERTIES
    EveryUpdateIsApplied
CHECK_DEADLOCK FALSE
