\* Tokens are renewed while other sessions use the channel.
SPECIFICATION SyncSpec
CONSTANTS
    s1 = s1
    s2 = s2
    c1 = c1
    c2 = c2
    Targets <- MCTargets
    SharedTypes <- MCSharedTypes
    Sessions <- MCSessions
    Channels <- OneChannel
    NoChannel = NoChannel
    NoSession = NoSession
    RepeatedDisconnect = {}
    TokenHolders <- OneSession
    MaxRequests <- Requests31
    MaxBacklog = 1
    TokensExpire = TRUE
    GatewayMayBeSlow = FALSE
    GatewayMayClose = FALSE
    ValuesMayHoldEnds = FALSE
INVARIANT OwnReply
