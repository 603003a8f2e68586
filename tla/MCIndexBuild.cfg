SPECIFICATION FairBuildSpec
CONSTANTS
    w1 = w1
    w2 = w2
    p1 = p1
    p2 = p2
    q = q
    t = t
    u = u
    NoLimit = NoLimit
    Worker = {w1, w2}
    Page = {p1, p2, q}
    Indexable = {p1, p2}
    BatchSize = 2
    FlushEvery = 2
    MaxPages = 3
    IdlePolls = 1
    KeepsId = FALSE
    MaxCrashes = 1
    Term = {t, u}
    KeyOrder <- MCKeyOrder
    TermsOf <- MCTermsOf
INVARIANTS
    NothingTwice
    ConfirmedIsKept
    ManifestIsExact
    IndexIsAligned
    CatalogResolves
    NothingDeclaredIsLeftOut
    QuietBuildSucceeds
PROPERTIES
    PartsAreFinal
    ConfirmedIsStored
CHECK_DEADLOCK FALSE
