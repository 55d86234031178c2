SPECIFICATION ThreadSpec
CONSTANTS
    Threads = {t1}
    Free = Free
    Interruptible = TRUE
    MqFailures = FALSE
    MaxPending = 1
    MaxFrames = 1
PROPERTY
    ResultsKeepDisabled
