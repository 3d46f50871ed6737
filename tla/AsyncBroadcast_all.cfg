SPECIFICATION Spec
CONSTANTS
    Node = {s, c}
    Server = {s}
    Func = {f}
    MaxCalls = 1
    MaxStarts = 1
    MaxQueue = 2
CHECK_DEADLOCK FALSE
PROPERTIES
    PublishedToAll
