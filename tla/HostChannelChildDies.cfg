SPECIFICATION Spec
CONSTANTS
    Threads = {t1}
    Cb = Cb
    MaxCalls = 2
    MaxCreates = 1
    Nested = FALSE
    ChildDies = TRUE
    None = None
    Zero = Zero
    Garbage = Garbage
INVARIANTS
    EveryReplyIsOwn
CHECK_DEADLOCK FALSE
