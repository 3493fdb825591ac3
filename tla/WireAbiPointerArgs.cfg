SPECIFICATION Spec
CONSTANTS
    CHAR = 4
    INT = 16
    SLOT = 256
    IntBytes = 2
    Types <- MCTypes
    Samples <- MCSamples
    MaxArgs = 1
    Slots = 2
CHECK_DEADLOCK FALSE
INVARIANT
    PointerArgsOnly
