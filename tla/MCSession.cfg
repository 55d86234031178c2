SPECIFICATION Spec
CONSTANTS
    Ports = {p1, p2, p3}
    NoPort = NoPort
    CookieLimit = 2
    Stacks = 2
    MaxStarts = 3
    MqFailures = TRUE
SYMMETRY Symmetry
INVARIANTS
    CookieOwnership
    OneOwner
    SessionInv
CHECK_DEADLOCK FALSE
