SPECIFICATION Spec
CONSTANTS
    Owner = {o1, o2}
    MaxSockets = 2
    MaxCreate = 4
CHECK_DEADLOCK FALSE
INVARIANTS
    SocketsHaveOneHolder
    
    DoneMeansEmpty

    
