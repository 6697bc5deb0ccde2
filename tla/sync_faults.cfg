\* Replies may be late, and the gateway may close the connection, after which
\* a thread may loop for ever and keep the channel from the others.
SPECIFICATION FairSyncSpec
CONSTANTS
    s1 = s1
    s2 = s2
    c1 = c1
    c2 = c2
    Targets <- MixedTargets
    SharedTypes <- MCSharedTypes
    Sessions <- MCSessions
    Channels <- OneChannel
    NoChannel = NoChannel
    NoSession = NoSession
    RepeatedDisconnect = {}
    TokenHolders <- OneSession
    MaxRequests <- Requests31
    MaxBacklog = 0
    TokensExpire = TRUE
    GatewayMayBeSlow = TRUE
    GatewayMayClose = TRUE
    ValuesMayHoldEnds = TRUE
INVARIANTS SyncTypeOK ChannelLockIsUser OwnReplyUnlessUpset StreamIsEmpty
PROPERTY CallsEndUnlessCut
CHECK_DEADLOCK FALSE
