SPECIFICATION FairSpec
CONSTANTS
    NoSession = NoSession
    Sessions = {s1}
    Segments = {g1}
    MaxFaults = 0
CHECK_DEADLOCK FALSE
PROPERTIES
    DisconnectEndsSession
