\* One tab, with every queue a single message long.
CONSTANTS
    p1 = p1
    p2 = p2
    none = none
    Pane <- MCPane
    First = p1
    Remembered = p2
    NoPane = none
    OutCap = 1
    CtrlCap = 1
    PtyCap = 1
    MaxKeys = 2
    MaxOutput = 2

SPECIFICATION Spec
ACTION_CONSTRAINT MCBound
CHECK_DEADLOCK FALSE

INVARIANTS
    OutputIntact
    WhereFindsThePane

PROPERTIES
    TeardownCompletes
