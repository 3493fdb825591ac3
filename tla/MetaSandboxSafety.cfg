SPECIFICATION Spec
CONSTANTS
    Threads = {t1, t2}
    ProcBits = {p1}
    WasmBits = {w1, w2}
    Symbols = {f, g}
    Bound = {f}
    Structs = {s1, s2}
    MaxArgs = 2
    Interior = FALSE
    None = None
SYMMETRY Symmetry
INVARIANTS
    OwnerKnown
    RunsOnOwner
    BlocksOwned
    ScratchHasStruct
PROPERTIES
    HeapSpec
CHECK_DEADLOCK FALSE
