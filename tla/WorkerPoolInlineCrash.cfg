SPECIFICATION FairSpec
CONSTANTS
    Jobs = {j1}
    Rejected = {}
    Kids = {k1, k2}
    Target = 1
    SpawnMayFail = FALSE
    CrashAt = {"inline"}
    Shim = Shim
    Zero = Zero
    None = None
PROPERTIES
    InvokeAnswered
CHECK_DEADLOCK FALSE
