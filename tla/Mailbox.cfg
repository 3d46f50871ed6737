SPECIFICATION Spec
CONSTANTS
    Sender = {s1, s2, s3}
    MaxSend = 2
CHECK_DEADLOCK FALSE
INVARIANTS
    SignalMeansCommand
    WakeupPending
    NoSendAfterDestroy
PROPERTIES
    ImplementsChannel
