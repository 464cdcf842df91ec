CONSTANTS
    Configs <- MCOrderly
    Chunk = 4
    AckSlack = 1
    Mtu = 4
    HelloLens = {3, 5}
    FlightLens = {3, 9}
    FinishedLens = {2}
    ServerLens = {4, 10}
    InnerLens = {2, 4}
    Refusals = {}
    MidFlight = FALSE
    MaxConvs = 2
    MaxInner = 2
    MaxRestarts = 1
    NULL = NULL
SPECIFICATION FairSpec
CHECK_DEADLOCK FALSE
PROPERTY
    Completes
