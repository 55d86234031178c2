SPECIFICATION ThreadSpec
CONSTANTS
    Threads = {t1, t2}
    Free = Free
    Interruptible = TRUE
    MqFailures = TRUE
    MaxPending = 2
    PollLimit = 2
    MaxFrames = 1
INVARIANTS
    StreamInInv
PROPERTIES
    CallsReturn
    OnlyEarlierReadsEnable
