CONSTANTS
    Methods = {"MSCHAPV2"}
    IdSpace = 3
    Conns = {"home"}
    ProfileOf <- MCHome
    AuthPeriod = 1
    HeldPeriod = 1
    StartPeriod = 1
    MaxStart = 1
    LinkAnswers = {TRUE}
    AirFrames <- MCFrames
    MethodOutcomes <- MCOutcomes
    InitialConns = {"home"}
    UserRequests = {}
    MaxRuns = 6
SPECIFICATION Spec
PROPERTY FailureIsNotCarriedOver
