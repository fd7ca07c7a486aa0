SPECIFICATION FairServersSpec
CONSTANTS
    NullId = NullId
    BadParams = BadParams
    NoReply = NoReply
    NoRequest = NoRequest
    Inputs <- MCInputs
    NoLines <- MCNoLines
    MaxClients = 4
    HttpRequests <- MCHttpRequests
    MaxBodyUnits = 2
    MaxRequests = 2
    MaxStarts = 2
    MaxStops = 2
INVARIANTS
    ServedAsReceived
    ListenersAreHeld
PROPERTIES
    ImplementsRequestReply
    StartTellsTheTruth
    ApplyHoldsUpNobody
    ShutsDown
CHECK_DEADLOCK FALSE
