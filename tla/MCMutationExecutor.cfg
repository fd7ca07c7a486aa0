SPECIFICATION Spec
CONSTANTS
    c1 = c1
    c2 = c2
    c3 = c3
    Correlations = {c1, c2, c3}
    pA = pA
    pB = pB
    pX = pX
    ProjectIds = {pA, pB, pX}
    Operations <- MCOperations
    Actors = {"alice"}
    Jobs <- MCJobs
    ApiKeys = {"keyA", "keyB", "keyM"}
    Scopes = {"projects.write", "databases.write", "users.read"}
    ProjectAuthContexts <- MCProjectAuthContexts
    GlobalAuthContext <- MCFallback
    ProjectManagementAvailable = TRUE
    ManagementAuthContext <- MCManagement
    NoAuthContext = NoAuthContext
    NoApiKey = NoApiKey
    NoKey = NoKey
    NoJob = NoJob
    NoResult = NoResult
    NoCall = NoCall
    MaxBoots = 2
SYMMETRY Symm
INVARIANTS
    TypeOK
    SuccessIsReal
    CallsAreAccounted
    ResultsFollowRequest
    LeastPrivilege
    AuditTellsTheRun
PROPERTIES
    NoRepeatAfterSuccess
CHECK_DEADLOCK FALSE
