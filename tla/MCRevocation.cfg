\* Two devices, three requests, the first two of them about one device.
CONSTANTS
    d1 = d1
    d2 = d2
    r1 = r1
    r2 = r2
    r3 = r3
    t1 = t1
    gone = gone
    Device <- MCDevice
    Request <- MCRequest
    Stamp <- MCStamp
    Absent = gone

SPECIFICATION Spec
ACTION_CONSTRAINT MCBound

INVARIANTS
    StoreMatchesFile
    RegistryExact
    NoSurvivor
    RevocationIsStored

PROPERTIES
    RevokedStaysRevoked
    ShellIsClosed
