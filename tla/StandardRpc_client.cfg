SPECIFICATION Spec
CONSTANTS
    Client = {c1}
    Func = {f, g}
    MaxCalls = 2
    MaxSockets = 3
CHECK_DEADLOCK FALSE
INVARIANTS
    AtMostOnce
    NeverMismatched
    ClientBufferCurrent
PROPERTIES
    AutoReconnectKeepsUsable
    RequestsLeaveQueue
    ImplementsRemoteCall
