SPECIFICATION Spec
CONSTANTS
    Ports = {p1, p2}
    NoPort = NoPort
    CookieLimit = 1
    Stacks = 2
    MaxStarts = 1
    MqFailures = FALSE
SYMMETRY Symmetry
INVARIANTS
    StartedIsReady
CHECK_DEADLOCK FALSE
