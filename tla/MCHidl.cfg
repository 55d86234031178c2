CONSTANTS
    p1 = p1
    p2 = p2
    NoPort = NoPort
    Ports <- MCPorts
    Limits <- MCLimits
    Serials <- AnyOrder
SYMMETRY Symmetry
SPECIFICATION Spec
INVARIANTS
    CallbacksReachPorts
    SessionOfPort
    EndIsTold
