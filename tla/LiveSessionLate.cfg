SPECIFICATION Spec
CONSTANTS
    NoSession = NoSession
    Sessions = {s1, s2}
    Segments = {g1}
    MaxFaults = 0
CHECK_DEADLOCK FALSE
PROPERTIES
    LateResultsIgnored
