SPECIFICATION UtilSpec
CONSTANTS
    Node = {1, 2, 3, 4, 5, 6, 7, 8}
    Key <- TwinKey
    Probe = {0, 1, 2, 3, 4, 5, 6, 7, 8}
    NULL = NULL
    Handler = {"h1", "h2"}
    Item = {"x1", "x2", "x3"}
    NONE = "none"
    NsecInSec = 4  MsecInSec = 2
    SecRange = 6  NsecRange = 16
    MsecInput = {0, 1, 3, 9}
INVARIANTS
    MapSound
    ChainsSound
    ClockExact
PROPERTIES
    ImplementsSet
    OperationsExact
CHECK_DEADLOCK FALSE
