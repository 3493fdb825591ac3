SPECIFICATION FairSpec
CONSTANTS
    f = f
    u = u
    N = 3
    Symbols = {f, u}
    Bound = {f}
    Owned = {}
    AllocWarmup = 1
    ReexplorePeriod = 2
    PinThreshold = 2
    Before <- MCBefore
    After <- MCAfter
    None = None
INVARIANTS
    MedianIsRecent
PROPERTIES
    TracksSteadyState
