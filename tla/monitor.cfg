\* Two handlers, of one session or of two; timers may overlap.  Every handler is
\* subscribed once, and the thread may die.
SPECIFICATION Spec
CONSTANTS
    h1 = h1
    h2 = h2
    gateway = gateway
    port = port
    Handlers <- MCHandlers
    Keys <- MCKeys
    Ports <- MCPorts
    Impatient <- MCHandlers
    MaxKicks = 1
    MaxTimers = 2
    NoSession = NoSession
SYMMETRY MCSymmetry
INVARIANTS TypeOK SubscribedIsRegistered OnTryHasTimer SleepsInPeace ClosedUnlessLate
PROPERTIES ImplementsStreams
CHECK_DEADLOCK FALSE
