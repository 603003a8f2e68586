SPECIFICATION FairSpec
CONSTANTS
    w1 = w1
    w2 = w2
    NoLimit = NoLimit
    Worker = {w1, w2}
    Url <- MCUrl
    Page <- MCPage
    Canon <- MCCanon
    Links <- MCLinks
    Seeds <- MCSeeds
    MaxDepth = 2
    BatchSize = 2
    MaxPages = 3
    IdlePolls = 1
    MaxCrashes = 1
INVARIANTS
    FetchedOnce
    UnfinishedIsPending
    AckedIsClaimed
    AnnouncedIsStored
    FrontierClosed
    IdleShutdownDrains
PROPERTIES
    EveryWorkerStops
CHECK_DEADLOCK FALSE
