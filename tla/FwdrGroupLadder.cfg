CONSTANTS
    N = 3
    Pri <- PriLadder
    MaxFailures = 1
    Strategy = "ha"
    HealthCheck = TRUE
    CheckDisabledOnly = FALSE
    Unsupported = {}
    Clients = {c1, c2}
    MaxWait = 1
    AvailBound = 2
    U32 = 3
SPECIFICATION LadderSpec
INVARIANTS
    PriorityRespected
