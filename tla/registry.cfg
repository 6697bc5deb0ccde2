\* Three threads on two gateways, shared and unshared types; the objects of one
\* of the targets are disconnected again at will, all others once.
SPECIFICATION FairSpec
CONSTANTS
    s1 = s1
    s2 = s2
    s3 = s3
    c1 = c1
    c2 = c2
    c3 = c3
    Targets <- MCTargets
    SharedTypes <- MCSharedTypes
    Sessions <- MCSessions
    Channels <- MCChannels
    NoChannel = NoChannel
    NoSession = NoSession
    RepeatedDisconnect <- MCRepeated
INVARIANTS TypeOK EntriesHaveClients RefCountIsTargets OpenIsRegistered SameChannelIffSameGateway ClientsAreHolders HolderChannelIsOpen
PROPERTIES ImplementsLeases LockIsReleased
