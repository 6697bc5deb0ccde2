-------------------------- MODULE MCMonitorSessions --------------------------
(* Instances of MonitorSessions for TLC: a session on two gateways, one on   *)
(* one of them with the same period, and a port that listens to the other.   *)
EXTENDS MonitorSessions, TLC

CONSTANTS s1, s2, p1, g1, g2, t1

MCGateways == {g1, g2}
MCSessions == {s1, s2}
MCPorts == {p1}
MCgateways == (s1 :> {g1, g2}) @@ (s2 :> {g1})
MCTimers == {t1}
MCsub == (s1 :> 50) @@ (s2 :> 50) @@ (p1 :> 12345)
MCaccepted == p1 :> {g2}
=============================================================================
