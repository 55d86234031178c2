SPECIFICATION ThreadSpec
CONSTANTS
    Threads = {t1, t2}
    Free = Free
    Interruptible = TRUE
    MqFailures = FALSE
    MaxPending = 1
    MaxFrames = 2
INVARIANTS
    StreamInv
    RenderedNeverAhead
PROPERTIES
    OnlyEarlierReadsEnable
    HolderReleases
    AcceptedStartResolves
