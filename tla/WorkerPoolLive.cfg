SPECIFICATION FairSpec
CONSTANTS
    Jobs = {j1, j2}
    Rejected = {}
    Kids = {k1, k2, k3}
    Target = 1
    SpawnMayFail = FALSE
    CrashAt = {"idle", "filter", "pooled"}
    Shim = Shim
    Zero = Zero
    None = None
PROPERTIES
    InvokeAnswered
    PoolRefills
    NoOrphans
CHECK_DEADLOCK FALSE
