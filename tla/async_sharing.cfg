\* Three sessions on two gateways; connections end by errors and by ends of file.
\* Every session connects once, so it all comes to an end.
SPECIFICATION FairSpec
CONSTANTS
    s1 = s1
    s2 = s2
    s3 = s3
    g1 = g1
    g2 = g2
    p1 = p1
    p2 = p2
    p3 = p3
    Gateways <- MCGateways
    Sessions <- MCSessions
    Protocols <- MCProtocols
    NoProtocol = NoProtocol
    NoSession = NoSession
    TokenHolders <- MCTokenHolders
    Losses = {"error", "eof"}
INVARIANTS TypeOK DictMatchesUsers OpenIsRegistered UsersAreCounted NotClosedUnderneath
PROPERTIES ConnectsEnd
CHECK_DEADLOCK FALSE
