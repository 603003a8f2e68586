SPECIFICATION FairSpec
CONSTANTS
    File <- MCFile
    MaxBuilds = 2
    MaxRanks = 1
    MaxShardings = 2
    MaxCrashes = 1
INVARIANTS
    AcceptedIsWhole
    OrderlyIsWhole
PROPERTIES
    ConsoleComesUp
CHECK_DEADLOCK FALSE
