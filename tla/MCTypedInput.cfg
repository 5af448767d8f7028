\* Three keys over three sockets, with a journal of two.
CONSTANTS
    p1 = p1
    p2 = p2
    none = none
    Pane <- MCPane
    NoPane = none
    First = p1
    JournalCap = 2
    CtrlCap = 1
    MaxKeys = 3
    MaxSockets = 3
    MaxFlight = 2

SPECIFICATION TypedSpec
ACTION_CONSTRAINT MCBound
CHECK_DEADLOCK FALSE

INVARIANTS
    NoKeyIsLost
    ReplayIsWhole
