SPECIFICATION Spec
CONSTANTS
    NoSession = NoSession
    Tasks = {t1}
    Procs = {api, worker}
    ApiProc = api
    Sessions = {s1}
    MaxAttempts = 2
    MaxMishaps = 1
    MaxClaims = 2
    MaxStalls = 1
    MaxCrashes = 1
    MaxFaults = 1
    MaxCancels = 1
CHECK_DEADLOCK FALSE
INVARIANTS
    TypeOK
PROPERTIES
    SettledStaysSettled
