----------------------- MODULE MCBluetoothHidlSession -----------------------
(* Two ports, one or two cookies, callers in turn and callers that race.   *)
EXTENDS BluetoothHidlSession, TLC

CONSTANTS p1, p2

MCPorts == {p1, p2}
MCLimits == {1, 2}
AnyOrder == BOOLEAN
AtOnce == {FALSE}
Symmetry == Permutations(MCPorts)

=============================================================================
