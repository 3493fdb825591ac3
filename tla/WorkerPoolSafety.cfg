SPECIFICATION Spec
CONSTANTS
    Jobs = {j1, j2, j3}
    Rejected = {j3}
    Kids = {k1, k2, k3, k4}
    Target = 2
    SpawnMayFail = TRUE
    CrashAt = {"idle", "filter", "pooled", "inline"}
    Shim = Shim
    Zero = Zero
    None = None
SYMMETRY Symmetry
INVARIANTS
    TypeOK
    AtMostOnce
    AnswerIsOwn
    AnsweredMeansOver
    ZeroMeansDead
    NoLostChild
    NoFdLeak
    PoolBounded
    WorkerDeathSeen
PROPERTIES
    CallsSpec
CHECK_DEADLOCK FALSE
