SPECIFICATION Spec
CONSTANTS
    Node = {s}
    Server = {s}
    Func = {f}
    MaxCalls = 2
    MaxStarts = 2
    MaxQueue = 2
CHECK_DEADLOCK FALSE
INVARIANTS
    PublisherServesResponder
    
PROPERTIES
    
    BroadcastsLeavePipe
