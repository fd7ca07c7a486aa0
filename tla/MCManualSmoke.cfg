SPECIFICATION SmokeSpec
CONSTANTS
    c1 = c1
    c2 = c2
    c3 = c3
    p1 = p1
    p2 = p2
    p3 = p3
    pA = pA
    pB = pB
    Targets <- MCTargets
    Cases <- MCCases
    CaseIds <- MCCaseIds
    PlanOf <- MCPlanOf
    Correlations = {c1, c2, c3}
    PlanIds = {p1, p2, p3}
    ProjectIds = {pA, pB}
    Operations <- MCOperations
    Actors = {"smoke-runner"}
    ApiKeys = {"sk_a", "sk_b"}
    Scopes = {"users.read"}
    Jobs <- MCJobs
    ProjectAuthContexts <- MCProjectAuthContexts
    GlobalAuthContext = NoAuthContext
    ProjectManagementAvailable = FALSE
    ManagementAuthContext = NoAuthContext
    NoAuthContext = NoAuthContext
    NoApiKey = NoApiKey
    NoKey = NoKey
    NoJob = NoJob
    NoResult = NoResult
    NoCall = NoCall
    MaxBoots = 1
    AliasMap <- MCEmpty
    KnownProjectIds <- MCTargets
    AutoTargetProjectIds <- MCEmpty
    DefaultTargetSelector = NoSelector
    NoSelector = NoSelector
    Absent = Absent
    Blank = Blank
    PlanTtl = 1
    Requests <- MCRequests
    SupportedTransports = {"stdio"}
    DefaultTransport = "stdio"
    DisallowLegacyAuthUsersUpdate = FALSE
    ConfirmationSecrets <- MCSecrets
    TokenTtls = {}
    TicksPerSecond = 1
    NoToken = NoToken
    MaxTime = 0
    MaxTokens = 0
INVARIANT MissingScopeFails
CHECK_DEADLOCK FALSE
