SPECIFICATION Spec
CONSTANTS
    pA = pA
    pB = pB
    pC = pC
    aA = aA
    aB = aB
    Environments <- MCEnvironments
    AuthFiles <- MCAuthFiles
    Requests <- MCRequests
    Unset = Unset
    Garbage = Garbage
    Unreadable = Unreadable
    NoService = NoService
    NoServer = NoServer
    NoReply = NoReply
    NoSelector = NoSelector
    Absent = Absent
    Blank = Blank
INVARIANTS
    ServesItsOwnTransport
    StartsFitToServe
    TargetsHaveCredentials
    ResolvesAsNamed
CHECK_DEADLOCK FALSE
