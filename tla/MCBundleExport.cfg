SPECIFICATION FairBundleSpec
CONSTANTS
    a = a
    b = b
    Junk = Junk
    Url = {a, b}
    BatchSize = 1
    FlushEvery = 1
    MaxUpdates = 3
    MaxCrashes = 0
    MaxLosses = 0
    KeepBundles = 2
    MaxDeaths = 1
INVARIANTS
    GraceHolds
    BundleIsSnapshot
    OpenedIsKept
    TextsAreNotOlder
PROPERTIES
    BundleCatchesUp
CHECK_DEADLOCK FALSE
