SPECIFICATION ClientsFairSpec
CONSTANTS
    MaxStarts = 2
    MaxInFlight = 2
    MaxBreaks = 2
    ChatTexts = {1, 2}
    MaxSpeeches = 4
    MaxTokens = 4
    AccountCalls = {1, 2}
    RelayTasks = {1, 2, 3}
    RelayRows = {r1, r2}
    MaxRowChanges = 2
    MaxWords = 3
    MaxSockets = 2
    MaxMicStarts = 2
    MaxMicStops = 2
    JoinClicks = {1, 2}
    MaxLeaves = 2
    ConsoleAccounts = {u1, u2}
    FactCount = 1
    Renderings = 2
    MaxProposalRows = 1
    MaxConsoleClicks = 3
    MaxAwaited = 1
CHECK_DEADLOCK FALSE
INVARIANTS
    ClientsTypeOK
    OverlapsAreHandled
    SegmentsAreHeard
PROPERTIES
    AskedIsAnswered
