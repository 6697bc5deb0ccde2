\* Two streams bring packets of one gateway in a round.
SPECIFICATION Spec
CONSTANTS
    s1 = s1
    s2 = s2
    p1 = p1
    g1 = g1
    g2 = g2
    t1 = t1
    Gateways <- MCGateways
    MonitorSessions <- MCSessions
    MonitorPorts <- MCPorts
    gateways <- MCgateways
    sub <- MCsub
    accepted <- MCaccepted
    Impatient <- MCSessions
    MaxStarts = 2
    Timers <- MCTimers
    Failing = {}
    NoGateway = NoGateway
INVARIANT DataIsOfItsPacket
