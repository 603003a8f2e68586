SPECIFICATION FairServingSpec
CONSTANTS
    Replica <- MCReplica
    ShardOf <- MCShardOf
    Files = 2
    Ttl = 1
    BuiltAtFirst = 1
    MaxBuilds = 2
    MaxShardings = 2
    MaxCrashes = 1
    MaxStarts = 1
INVARIANTS
    RegistryIsTrue
PROPERTIES
    Failover
CHECK_DEADLOCK FALSE
