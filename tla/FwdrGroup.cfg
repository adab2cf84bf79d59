CONSTANTS
    N = 2
    Pri <- PriOneOverOne
    MaxFailures = 1
    Strategy = "ha"
    HealthCheck = TRUE
    CheckDisabledOnly = FALSE
    Unsupported = {}
    Clients = {c1}
    MaxWait = 1
    AvailBound = 2
    U32 = 3
SPECIFICATION Spec
INVARIANTS
    FailureLimit
    NoneForgotten
    PriorityRespected
