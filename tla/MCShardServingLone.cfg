SPECIFICATION FairServingSpec
CONSTANTS
    Replica <- MCReplica
    ShardOf <- MCShardOf
    Files = 2
    Ttl = 1
    BuiltAtFirst = 1
    MaxBuilds = 1
    MaxShardings = 2
    MaxCrashes = 1
    MaxStarts = 1
PROPERTIES
    DeadAreForgotten
CHECK_DEADLOCK FALSE
