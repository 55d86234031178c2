CONSTANTS
    Commands = {"WRITE", "GET_LATENCY", "BAD"}
    Unknown = {"BAD"}
    Closers = {"t1", "t2"}
    ClosesEarly = FALSE
    Patient = FALSE
    Overlap = FALSE
    Kinds = {"async"}
    Callbacks = {cb1, cb2}
    NoCallback = NoCallback
    Nothing = Nothing
SPECIFICATION CallbackSpec
INVARIANT CallbackInv
INVARIANT GoneIsClosed
PROPERTY DestructorEnds
CHECK_DEADLOCK FALSE
