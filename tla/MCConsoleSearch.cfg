SPECIFICATION Spec
CONSTANTS
    Replica <- MCReplica
    ShardOf <- MCShardOf
    Api = {a}
    Files = 1
    Ttl = 1
    BuiltAtFirst = 2
    MaxBuilds = 2
    MaxShardings = 1
    MaxCrashes = 0
    MaxStarts = 1
    CacheTtl = 1
    MaxEntries = 1
INVARIANTS
    CachedIsComplete
CHECK_DEADLOCK FALSE
