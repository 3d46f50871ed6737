SPECIFICATION Spec
CONSTANTS
    Kind = {"REQ", "SUB", "PUB", "REP"}
    HWM = 2
    MaxDown = 2
    MaxUp = 3
    MaxConn = 2
CHECK_DEADLOCK FALSE
INVARIANTS
    TypeOK
    
    QueuesAreFreedOnce
    MessagesAreWhole
    FlowControl
PROPERTIES
    NothingPromisedIsDropped
    
    Resubscribes
    InputResumes
    DisconnectReleases
