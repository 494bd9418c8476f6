SPECIFICATION OperatedSpec
CONSTANTS
    NoSession = NoSession
    Tasks = {t1}
    Procs = {api, worker}
    ApiProc = api
    Sessions = {}
    MaxAttempts = 2
    MaxMishaps = 1
    MaxClaims = 3
    MaxStalls = 1
    MaxCrashes = 1
    MaxFaults = 1
    MaxCancels = 1
CHECK_DEADLOCK FALSE
INVARIANTS
    RunningIsLeased
    OneExecutionUntilReclaim
    AttemptsBounded
    ReportsFit
PROPERTIES
    LeaseSpec
    DeadLeaseNotProlonged
    QueuedSettles
