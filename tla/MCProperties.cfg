SPECIFICATION Spec
CONSTANTS
    None = None
    Readers = {r1}
    Names <- MCNames
    Worlds <- MCWorlds
    Contexts <- MCContexts
    PROP_VALUE_MAX = 3
    kLongLegacyError <- MCError
    kLongLegacyErrorBufferSize = 2
    Undefined = Undefined
    AreaSize = 8
    MaxCalls = 2
INVARIANTS
    ContextIsMostSpecific
    ReadIsCurrent
    AreaInv
    ReturnedIsDone
PROPERTIES
    PersistIntact
    WatcherCatchesUp
CHECK_DEADLOCK FALSE
