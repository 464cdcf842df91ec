CONSTANTS
    Methods = {"MSCHAPV2"}
    IdSpace = 3
    Conns = {"home"}
    ProfileOf <- MCHome
    AuthPeriod = 2
    HeldPeriod = 2
    StartPeriod = 2
    MaxStart = 2
    LinkAnswers = {TRUE}
    AirFrames <- MCFrames
    MethodOutcomes <- MCOwnVerdict
    InitialConns = {"home"}
    UserRequests = {}
    MaxRuns = 6
SPECIFICATION FairSpec
INVARIANTS
    TypeOK
    AnswersItsRequest
    OneVerdict
    NoStaleRead
PROPERTIES
    NeverStuck
    HeldEnds
    DuplicateChangesNothing
