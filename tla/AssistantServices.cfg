CONSTANTS
    Users = {u1, u2}
    RelayCalls = {c1, c2}
    RateLimit = 1
    MaxContacts = 2
    MaxDrafts = 1
    MaxDrafting = 1
    Proposals = {p1}
    ActionCalls = {c1, c2}
    MaxObjects = 2
    StoreCalls = {c1, c2}
    MaxFeedRows = 2
    MaxPage = 2
    MaxTick = 5
    DailySessions = {p1}
    DailyCalls = {c1, c2}
    DailyLimit = 2
    BudgetCalls = {c1, c2}
    MaxRequests = 5
    Guests = {u1, u2}
    RoomCalls = {c1, c2}
    Accounts = {u1, u2}
    ConnectorCalls = {c1, c2}
    MaxCopies = 5
    Facts = {u1, u2}
    ProfileCalls = {c1, c2}
    ProjectLimit = 2
    Leads = {u1, u2}
    LeadCalls = {c1, c2}
    Migrators = {c1, c2}
    SkillCalls = {c1, c2}
    MaxSkills = 1
    QueryIds = {p1}
    Handlers = {c1, c2}
    Ticks = {c1, c2}
    MaxNotifications = 3
    StreamLimit = 2
    Emails = {u1, u2}
    SignInCalls = {c1, c2}
    MaxIntents = 3
    RedisCalls = {c1, c2}
    Window = 2
    MaxPushes = 4
    DigestCalls = {c1, c2}
    MaxDigests = 2
    MaxVersion = 1
    Investors = {u1, u2}
    OutreachCalls = {c1, c2}
    MaxDraftRows = 1
    MaxDraftProposals = 2
SPECIFICATION ServicesSpec
SYMMETRY Symmetric
CHECK_DEADLOCK FALSE
INVARIANTS
    ServicesTypeOK
    RelayIsAgreed
    NothingActsUnasked
    StoresAreAccounted
    DailyIsCurrent
    OvershootBounded
    KeptByAgreement
    CredentialsAreOwned
    ProfileFollowsFacts
    FindingsAreBacked
    ReportsReachClients
    SchemaIsReached
PROPERTIES
    CursorPassesNothing
