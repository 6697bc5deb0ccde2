\* The gateway's handshake arrives together with the first response.
SPECIFICATION Spec
CONSTANTS
    MaxCommands = 2
    TagLimit = 4
    Base = 2
INVARIANT ResolvedOnArrival
CHECK_DEADLOCK FALSE
