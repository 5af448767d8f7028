\* Six events, one of whose reports may die.
CONSTANTS
    global = global
    project = project
    NoReport = noreport
    Forgotten = forgotten
    WorkingTTL = 3
    NIdle = 2
    NBlocked = 2
    Agents <- MCAgents
    Copy <- MCCopy
    Schema <- MCSchema
    Nobody = nobody
    MaxEvents = 6
    MaxFailures = 1

SPECIFICATION Spec
CHECK_DEADLOCK FALSE

INVARIANTS
    OneReporter
    NewestEventStands

PROPERTIES
    RestIsDatedOnce
