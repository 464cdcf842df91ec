CONSTANTS
    ConnCells = {"c1", "c2"}
    ProfCells = {"p1"}
    ServerCells = {"s1"}
    ConnNames = {"a", "b", "c"}
    ProfNames = {"p", "q"}
    ServerNames = {"s", "t"}
    Ssids = {"net", "air"}
    Interfaces = {1}
    Wireless = {1}
    NewConns = {}
    NewProfs = {}
    OnDisk <- MCWirelessOnDisk
    InCache = {TRUE, FALSE}
    Careful = TRUE
SPECIFICATION Spec
CHECK_DEADLOCK FALSE
PROPERTY
    RenamesTheNamed
