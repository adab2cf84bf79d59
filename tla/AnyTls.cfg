SPECIFICATION FairSpec
CONSTANTS
    StreamBuffer = 1
    WireSize = 1
    Loads <- MCLoads
    MaxEvents = 1
    HasFallback = TRUE
INVARIANTS
    NoSendOnClosed
    ReadsWhatWasWritten
PROPERTIES
    SessionsEnd
CHECK_DEADLOCK FALSE
