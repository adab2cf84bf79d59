CONSTANTS
    Callers = {c1, c2}
    MaxRuns = 2
    N = 2
    Mutators = {m1, m2}
    MaxVer = 2
    MaxProcesses = 2
SPECIFICATION FairSpec
CHECK_DEADLOCK FALSE
INVARIANTS
    LogStaysOpen
    ErrorReported
    NothingLost
PROPERTIES
    StopMeansStopped
    RunsOneProcess
    StopReturns
    NeverBackwards
    EventuallyShown
