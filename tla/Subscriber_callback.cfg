SPECIFICATION Spec
CONSTANTS
    Message = {m1}
    MaxQueue = 1
    MaxStarts = 1
    MaxSilence = 1
CHECK_DEADLOCK FALSE
INVARIANT
    NeverCallsEmpty
