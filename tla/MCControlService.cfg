SPECIFICATION ServiceSpec
CONSTANTS
    c1 = c1
    c2 = c2
    Correlations = {c1}
    p1 = p1
    p2 = p2
    PlanIds = {p1, p2}
    pA = pA
    pB = pB
    aA = aA
    ProjectIds = {pA, pB}
    Operations <- MCOperations
    Actors = {"alice"}
    ApiKeys = {"keyA", "keyB"}
    Scopes = {"databases.write"}
    Jobs <- MCJobs
    ProjectAuthContexts <- MCProjectAuthContexts
    GlobalAuthContext = NoAuthContext
    ProjectManagementAvailable = FALSE
    ManagementAuthContext = NoAuthContext
    NoAuthContext = NoAuthContext
    NoApiKey = NoApiKey
    NoKey = NoKey
    NoJob = NoJob
    NoResult = NoResult
    NoCall = NoCall
    MaxBoots = 2
    AliasMap <- MCAliasMap
    KnownProjectIds <- MCKnown
    AutoTargetProjectIds <- MCKnown
    DefaultTargetSelector = NoSelector
    NoSelector = NoSelector
    Absent = Absent
    Blank = Blank
    PlanTtl = 2
    Requests <- MCRequests
    SupportedTransports = {"stdio"}
    DefaultTransport = "stdio"
    DisallowLegacyAuthUsersUpdate = TRUE
    ConfirmationSecrets <- MCSecrets
    TokenTtls = {1}
    TicksPerSecond = 2
    NoToken = NoToken
    MaxTime = 3
    MaxTokens = 1
SYMMETRY PlanSymm
INVARIANTS
    ServiceTypeOK
    OnlyPreviewedWork
    CriticalWorkConfirmed
    HonestApplyAdmitted
CHECK_DEADLOCK FALSE
