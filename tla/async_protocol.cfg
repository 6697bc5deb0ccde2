\* Three commands, the third with the tag of the first, in pieces of any size.
SPECIFICATION FairStreamSpec
CONSTANTS
    MaxCommands = 3
    TagLimit = 3
    Base = 2
    MaxOutput = 2
    Kinds <- MCKinds
INVARIANTS TypeOK OwnResponse WaitingIsRegistered NoUnknownTag
    StreamTypeOK ResponsesAreIntact RawOutputIsKept
PROPERTIES OutcomesAreFinal LossEndsCalls ImplementsProtocol
CHECK_DEADLOCK FALSE
