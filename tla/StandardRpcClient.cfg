SPECIFICATION Spec
CHECK_DEADLOCK FALSE
PROPERTY
    InterruptedClientDisconnects
