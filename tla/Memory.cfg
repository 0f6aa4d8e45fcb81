SPECIFICATION Spec
CONSTANTS
    Keys = {a, b}
    Shards = {0, 1}
    ShardOf <- MCShardOf
    Resizers = {r1, r2}
    Policies = {"Fifo", "Lru", "Lfu", "S3Fifo", "Sieve"}
    Capacities = {2, 5}
    Weights = {1, 2}
    HighPercent = 50
    WindowPercent = 34
    ProtectedPercent = 50
    SmallPercent = 34
    GhostEntries = 1
    MaxVersions = 3
    MaxHandles = 2
    MaxReleases = 2
    MaxResizes = 2
    None = None
CONSTRAINT Bounds
SYMMETRY Symmetry
INVARIANTS PinsFollowHandles WithinBudget VersionsAccounted
CHECK_DEADLOCK FALSE
