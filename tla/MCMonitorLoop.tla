---------------------------- MODULE MCMonitorLoop ----------------------------
(* Instances of MonitorLoop for TLC: two handlers, each of the gateway's   *)
(* session or of the port's.                                               *)
EXTENDS MonitorLoop, TLC

CONSTANTS h1, h2, gateway, port

MCHandlers == {h1, h2}
MCKeys == {gateway, port}
MCPorts == {port}
MCSymmetry == Permutations(MCHandlers)
=============================================================================
