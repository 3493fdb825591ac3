SPECIFICATION FairSpec
CONSTANTS
    Threads = {t1, t2}
    Cb = Cb
    MaxCalls = 1
    MaxCreates = 2
    Nested = TRUE
    ChildDies = TRUE
    None = None
    Zero = Zero
    Garbage = Garbage
INVARIANTS
    OwnResponse
    OwnCallbackReply
    HandlerWithinCall
    QuietAfterDestroy
PROPERTIES
    RequestsAnswered
    DestroyEnds
CHECK_DEADLOCK FALSE
