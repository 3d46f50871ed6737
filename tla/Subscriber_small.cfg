SPECIFICATION Spec
CONSTANTS
    Message = {m1, m2, m3}
    MaxQueue = 2
    MaxStarts = 2
    MaxSilence = 2
CHECK_DEADLOCK FALSE
INVARIANTS
    TypeOK
    ReferencesOutliveThread
PROPERTIES
    SilenceIsCounted
    ImplementsServiceThread
