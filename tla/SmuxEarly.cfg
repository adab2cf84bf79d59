SPECIFICATION Spec
CONSTANTS
    IdSpace = 4
    CountSpace = 8
    FrameSize = 1
    ReceiveBuffer = 2
    StreamBuffer = 1
    InitialWindow = 2
    WireSize = 1
    Scenarios <- MCEarly
    MaxEvents = 1
INVARIANT OpenerReadsAll
CHECK_DEADLOCK FALSE
