\* Three daemons that do not start or stop across each other, two devices.
CONSTANTS
    p1 = p1
    p2 = p2
    p3 = p3
    d1 = d1
    d2 = d2
    nobody = nobody
    Process <- MCProcess
    Device <- MCDevice
    Nobody = nobody
    Serial = TRUE

SPECIFICATION DaemonSpec
SYMMETRY MCSymmetry

INVARIANTS
    OneDaemon
    AdminReachable
    FileIsTrue
