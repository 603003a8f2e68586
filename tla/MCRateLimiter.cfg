SPECIFICATION FairSpec
CONSTANTS
    w1 = w1
    w2 = w2
    Worker = {w1, w2}
    Max = 1
    Delay = 1
    TTL = 3
    Skew <- MCSkew
    MaxSkew = 1
    Tokens = 2
    MaxAge = 2
    MaxCrashes = 1
INVARIANTS
    InFlightBounded
PROPERTIES
    ImplementsSemaphore
    DomainMovesOn
CHECK_DEADLOCK FALSE
