CONSTANTS
    Commands = {"WRITE", "GET_LATENCY", "BAD"}
    Unknown = {"BAD"}
    Closers = {"t1"}
    ClosesEarly = TRUE
    Patient = TRUE
    Overlap = FALSE
    Kinds = {"async", "event", "latency"}
    Callbacks = {cb1}
    NoCallback = NoCallback
    Nothing = Nothing
SPECIFICATION CallbackSpec
INVARIANT NoUseAfterClose
INVARIANT ReplyMatches
PROPERTY Answered
PROPERTY ServiceSpec
CHECK_DEADLOCK FALSE
