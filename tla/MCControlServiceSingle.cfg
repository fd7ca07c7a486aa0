SPECIFICATION ServiceSpec
CONSTANTS
    c1 = c1
    c2 = c2
    Correlations = {c1}
    p1 = p1
    p2 = p2
    PlanIds = {p1, p2}
    pA = pA
    pB = pB
    aA = aA
    ProjectIds = {pA, pB}
    Operations <- MCSingleOperations
    Actors = {"alice"}
    ApiKeys = {"keyG", "keyM"}
    Scopes = {"databases.write", "projects.write", "users.read"}
    Jobs <- MCSingleJobs
    ProjectAuthContexts <- MCNoProjects
    GlobalAuthContext <- MCGlobal
    ProjectManagementAvailable = TRUE
    ManagementAuthContext <- MCManagement
    NoAuthContext = NoAuthContext
    NoApiKey = NoApiKey
    NoKey = NoKey
    NoJob = NoJob
    NoResult = NoResult
    NoCall = NoCall
    MaxBoots = 1
    AliasMap <- MCAliasMap
    KnownProjectIds <- MCKnown
    AutoTargetProjectIds <- MCKnown
    DefaultTargetSelector = NoSelector
    NoSelector = NoSelector
    Absent = Absent
    Blank = Blank
    PlanTtl = 2
    Requests <- MCSingleRequests
    SupportedTransports = {"stdio"}
    DefaultTransport = "stdio"
    DisallowLegacyAuthUsersUpdate = TRUE
    ConfirmationSecrets <- MCOneSecret
    TokenTtls = {1}
    TicksPerSecond = 2
    NoToken = NoToken
    MaxTime = 3
    MaxTokens = 1
SYMMETRY PlanSymm
INVARIANTS
    AdmissionCoversTheRun
    LeastPrivilege
CHECK_DEADLOCK FALSE
