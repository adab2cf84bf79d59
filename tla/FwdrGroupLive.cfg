CONSTANTS
    N = 3
    Pri <- PriOneOverTwo
    MaxFailures = 1
    Strategy = "ha"
    HealthCheck = TRUE
    CheckDisabledOnly = FALSE
    Unsupported = {3}
    Clients = {}
    MaxWait = 1
    AvailBound = 4
    U32 = 3
SPECIFICATION FairSpec
PROPERTIES
    TopRecovers
