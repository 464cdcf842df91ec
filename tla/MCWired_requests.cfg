CONSTANTS
    Methods = {"GTC", "MSCHAPV2"}
    IdSpace = 2
    Conns = {"home", "work", "plain"}
    ProfileOf <- MCThree
    AuthPeriod = 1
    HeldPeriod = 1
    StartPeriod = 1
    MaxStart = 1
    LinkAnswers = {TRUE}
    AirFrames <- MCMethodFrames
    MethodOutcomes <- MCOutcomes
    InitialConns = {"home"}
    UserRequests = {"connect", "logoff", "disconnect", "unbind", "password"}
    MaxRuns = 6
SPECIFICATION Spec
INVARIANTS
    AuthenticatedByMethod
    BackendFollowsPae
    FewRuns
PROPERTIES
    PortSpec
