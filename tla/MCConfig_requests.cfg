CONSTANTS
    ConnCells = {"c1", "c2"}
    ProfCells = {"p1"}
    ServerCells = {"s1"}
    ConnNames = {"a", "b"}
    ProfNames = {"p", "q"}
    ServerNames = {"s", "t"}
    Ssids = {"net"}
    Interfaces = {1, 2}
    Wireless = {2}
    NewConns <- MCNewConns
    NewProfs <- MCNewProfs
    OnDisk <- MCOnDisk
    InCache = {TRUE}
    Careful = TRUE
SPECIFICATION Spec
CHECK_DEADLOCK FALSE
INVARIANTS
    TypeOK
    NamesUnique
    ReferencesResolve
    BoundTogether
PROPERTIES
    OnlyReloadUnbinds
