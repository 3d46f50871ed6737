SPECIFICATION Spec
CONSTANTS
    Request = {r1, r2, r3}
    MaxQueue = 2
    MaxStarts = 2
CHECK_DEADLOCK FALSE
INVARIANTS
    FlagOutlivesThread
    SocketOutlivesThread
    RepAlternates
    StopLeavesNoDebt
PROPERTIES
    StartServes
    ImplementsServiceThread
