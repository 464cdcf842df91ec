CONSTANTS
    Configs <- MCAnyOrder
    Chunk = 2
    AckSlack = 1
    Mtu = 2
    HelloLens = {2, 3}
    FlightLens = {2, 3, 5}
    FinishedLens = {2, 3}
    ServerLens = {2, 3, 4, 5}
    InnerLens = {2, 4}
    Refusals = {"wrong_name", "unexpected", "fails"}
    MidFlight = TRUE
    MaxConvs = 3
    MaxInner = 2
    MaxRestarts = 2
    NULL = NULL
SPECIFICATION Spec
CHECK_DEADLOCK FALSE
INVARIANTS
    TypeOK
    Intact
    KeysHaveSession
PROPERTY
    HandedWhole
