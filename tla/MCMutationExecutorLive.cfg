SPECIFICATION FairSpec
CONSTANTS
    c1 = c1
    c2 = c2
    c3 = c3
    Correlations = {c1, c2}
    pA = pA
    pB = pB
    pX = pX
    ProjectIds = {pA, pB, pX}
    Operations <- MCOperations
    Actors = {"alice"}
    Jobs <- MCJobs
    ApiKeys = {"keyA", "keyB"}
    Scopes = {"projects.write", "databases.write", "users.read"}
    ProjectAuthContexts <- MCProjectAuthContexts
    GlobalAuthContext <- MCFallback
    ProjectManagementAvailable = TRUE
    ManagementAuthContext = NoAuthContext
    NoAuthContext = NoAuthContext
    NoApiKey = NoApiKey
    NoKey = NoKey
    NoJob = NoJob
    NoResult = NoResult
    NoCall = NoCall
    MaxBoots = 2
PROPERTIES
    EveryRunAnswers
CHECK_DEADLOCK FALSE
