SPECIFICATION FairSpec
CONSTANTS
    a = a
    b = b
    Host = Host
    Sandboxes = {a, b}
    Bases = {1, 2}
    MaxCreates = 2
    None = None
CHECK_DEADLOCK FALSE
INVARIANTS
    RegistryRight DownIsDown
PROPERTIES
    LoopEndsAlone
