\* The gateway closes the connection within a binary reply.
SPECIFICATION FairSyncSpec
CONSTANTS
    s1 = s1
    s2 = s2
    c1 = c1
    c2 = c2
    Targets <- MCTargets
    SharedTypes <- MCSharedTypes
    Sessions <- MCSessions
    Channels <- OneChannel
    NoChannel = NoChannel
    NoSession = NoSession
    RepeatedDisconnect = {}
    TokenHolders <- OneSession
    MaxRequests <- Requests31
    MaxBacklog = 1
    TokensExpire = FALSE
    GatewayMayBeSlow = TRUE
    GatewayMayClose = TRUE
    ValuesMayHoldEnds = FALSE
PROPERTY CallsEnd
CHECK_DEADLOCK FALSE
