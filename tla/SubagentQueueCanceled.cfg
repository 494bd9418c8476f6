SPECIFICATION Spec
CONSTANTS
    NoSession = NoSession
    Tasks = {t1}
    Procs = {api, worker}
    ApiProc = api
    Sessions = {}
    MaxAttempts = 2
    MaxMishaps = 1
    MaxClaims = 2
    MaxStalls = 0
    MaxCrashes = 0
    MaxFaults = 0
    MaxCancels = 1
CHECK_DEADLOCK FALSE
PROPERTIES
    CanceledNotRetried
