SPECIFICATION FairSpec
CONSTANTS
    i1 = i1
    Invocations = {i1}
    Inputs <- MCInputs
    MaxRetries = 2
    RetryStatusCodes = {429, 503}
    Statuses = {201, 409, 429, 501, 503}
    NoInput = NoInput
    NoRequest = NoRequest
    NoStatus = NoStatus
    NoAnswer = NoAnswer
INVARIANTS
    TypeOK
    FinalFailureUntouched
PROPERTIES
    ImplementsContract
    EveryCallAnswers
CHECK_DEADLOCK FALSE
