\* Two handlers, of one session or of two; the thread must not die of
\* what their users call.
SPECIFICATION Spec
CONSTANTS
    h1 = h1
    h2 = h2
    gateway = gateway
    port = port
    Handlers <- MCHandlers
    Keys <- MCKeys
    Ports <- MCPorts
    Impatient <- MCHandlers
    MaxKicks = 1
    MaxTimers = 2
    NoSession = NoSession
SYMMETRY MCSymmetry
INVARIANTS ThreadSurvives
CHECK_DEADLOCK FALSE
