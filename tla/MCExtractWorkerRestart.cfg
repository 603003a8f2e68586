SPECIFICATION Spec
CONSTANTS
    w1 = w1
    w2 = w2
    p1 = p1
    p2 = p2
    q = q
    NoLimit = NoLimit
    Worker = {w1, w2}
    Page = {p1, p2, q}
    Indexable = {p1, p2}
    BatchSize = 2
    FlushEvery = 2
    MaxPages = NoLimit
    IdlePolls = 1
    KeepsId = TRUE
    MaxCrashes = 1
PROPERTIES
    PartsAreFinal
CHECK_DEADLOCK FALSE
