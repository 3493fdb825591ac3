SPECIFICATION FairSpec
CONSTANTS
    RegionSize = 11
    BootSize = 6
    W = 16
    Elsewhere <- MCElsewhere
    HugeSizes = {10}
    KeysSize = 1
    MessageSize = 7
    RequestSize = 1
    NodeSize = 1
    ArgCounts = {0, 1}
    HostSizes = {0, 1, 10}
    LibSizes = {0, 1, 9}
    BootSizes = {0, 1, 2}
    None = None
CHECK_DEADLOCK FALSE
INVARIANTS
    BlocksApart HostBlocksKept LoopKeepsNothing
PROPERTIES
    RequestsServed
