SPECIFICATION Spec
CONSTANTS
    t1 = t1
    t2 = t2
    k1 = k1
    k2 = k2
    k3 = k3
    Threads = {t1, t2}
    Cb = Cb
    Keys = {k1, k2, k3}
    NSlots = 2
    NWasm = 2
    MaxDepth = 3
    MaxOrphans = 1
    None = None
SYMMETRY Symmetry
CHECK_DEADLOCK FALSE
INVARIANTS
    TablesAgree NoHandlerAfterUnregister ContextIsFirer
