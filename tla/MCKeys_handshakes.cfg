CONSTANTS
    Networks <- MCNetworks
    PskStates = {"right", "wrong", "hex", "none"}
    Orderly = {TRUE, FALSE}
    RefusesIe = {TRUE, FALSE}
    MaxCounter = 3
    MaxHandshakes = 2
    MaxNonce = 2
    EapKeys <- MCEapKeys
    NULL = NULL
    MaxGtk = 2
    Capacity = 2
SPECIFICATION Spec
INVARIANTS
    TypeOK
    SharedKey
    CanFinish
    GroupAgrees
    DoingIsTimed
    MasterKeyIsThere
PROPERTIES
    VerdictIsTrue
