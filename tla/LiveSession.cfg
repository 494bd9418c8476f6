SPECIFICATION Spec
CONSTANTS
    NoSession = NoSession
    Sessions = {s1, s2}
    Segments = {g1, g2}
    MaxFaults = 1
SYMMETRY Symmetric
CHECK_DEADLOCK FALSE
INVARIANTS
    TypeOK
    DiscardIsComplete
    MemoryMatchesSave
    ShownSuggestionsKept
