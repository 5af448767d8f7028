\* One agent over four poll intervals, with one disturbance and two reports.
CONSTANTS
    i1 = i1
    i2 = i2
    Image <- MCImage
    Unseen = Unseen
    NoReport = NoReport
    Forgotten = Forgotten
    SettleAfter = 2
    Dwell = 3
    NIdle = 4
    NBlocked = 3
    WorkingTTL = 2
    MaxTime = 4
    MaxUpsets = 1
    MaxReports = 2

SPECIFICATION Spec
SYMMETRY MCSymmetry

INVARIANTS
    EventsAreCurrent
    SilentBlockEnds
    DialogIsShown

PROPERTIES
    FinishIsEarned
    BadgeIsEarned
CHECK_DEADLOCK FALSE
