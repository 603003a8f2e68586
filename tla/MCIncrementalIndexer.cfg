SPECIFICATION FairSpec
CONSTANTS
    a = a
    b = b
    Junk = Junk
    Url = {a, b}
    BatchSize = 1
    FlushEvery = 2
    MaxUpdates = 3
    MaxCrashes = 2
    MaxLosses = 1
INVARIANTS
    TypeOK
    PublishedIsComplete
    VersionIsContent
    PublishedHasText
    AckedIsPublishedByKept
PROPERTIES
    EveryUpdateIsAppliedOrHeld
CHECK_DEADLOCK FALSE
