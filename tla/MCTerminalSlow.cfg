\* A tab that does not keep up with what tmux draws.
CONSTANTS
    p1 = p1
    p2 = p2
    none = none
    Pane <- MCPane
    First = p1
    Remembered = p2
    NoPane = none
    OutCap = 1
    CtrlCap = 1
    PtyCap = 1
    MaxKeys = 0
    MaxOutput = 2

SPECIFICATION Spec
CHECK_DEADLOCK FALSE

INVARIANT SlowTabReconnects
