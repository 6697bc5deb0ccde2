\* The gateways end connections in good order.
SPECIFICATION FairSpec
CONSTANTS
    s1 = s1
    s2 = s2
    s3 = s3
    g1 = g1
    g2 = g2
    p1 = p1
    p2 = p2
    p3 = p3
    Gateways <- MCGateways
    Sessions <- MCSessions
    Protocols <- MCProtocols
    NoProtocol = NoProtocol
    NoSession = NoSession
    TokenHolders <- MCTokenHolders
    Losses = {"eof"}
PROPERTY LostIsDisconnected
CHECK_DEADLOCK FALSE
