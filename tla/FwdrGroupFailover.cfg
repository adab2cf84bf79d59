CONSTANTS
    N = 2
    Pri <- PriOneOverOne
    MaxFailures = 1
    Strategy = "ha"
    HealthCheck = TRUE
    CheckDisabledOnly = FALSE
    Unsupported = {}
    Clients = {}
    MaxWait = 1
    AvailBound = 4
    U32 = 3
SPECIFICATION FairSpec
PROPERTIES
    GroupRecovers
