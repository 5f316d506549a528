\* Does a signal stop the server?
SPECIFICATION Spec
CHECK_DEADLOCK FALSE
PROPERTIES
    SignalIsBounded
