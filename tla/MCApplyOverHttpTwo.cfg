SPECIFICATION SystemSpec
CONSTANTS
    c1 = c1
    c2 = c2
    Correlations = {c1, c2}
    pA = pA
    ProjectIds = {pA}
    Operations <- MCOperations
    Actors = {"alice"}
    Jobs <- MCSharedKey
    ApiKeys = {"keyA"}
    Scopes = {"databases.write"}
    ProjectAuthContexts <- MCProjectAuthContexts
    GlobalAuthContext = NoAuthContext
    ProjectManagementAvailable = FALSE
    ManagementAuthContext = NoAuthContext
    NoAuthContext = NoAuthContext
    NoApiKey = NoApiKey
    NoKey = NoKey
    NoJob = NoJob
    NoResult = NoResult
    NoCall = NoCall
    MaxBoots = 1
    MaxRetries = 1
    RetryStatusCodes = {429, 503}
    Statuses = {201, 409, 501}
    NoInput = NoInput
    NoRequest = NoRequest
    NoStatus = NoStatus
    NoAnswer = NoAnswer
SYMMETRY Symm
INVARIANTS
    SuccessWasCarriedOut
    EffectsAreReported
CHECK_DEADLOCK FALSE
