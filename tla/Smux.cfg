SPECIFICATION FairSpec
CONSTANTS
    IdSpace = 4
    CountSpace = 8
    FrameSize = 2
    ReceiveBuffer = 2
    StreamBuffer = 1
    InitialWindow = 2
    WireSize = 1
    Scenarios <- MCScenarios
    MaxEvents = 2
INVARIANTS
    TokensConserved
    
    NeverOverconsumed
PROPERTIES
    CallsReturn
CHECK_DEADLOCK FALSE
