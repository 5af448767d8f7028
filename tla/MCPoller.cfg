\* Two callers, named in the order in which they act, one change of the tree.
CONSTANTS
    c1 = c1
    c2 = c2
    none = none
    Caller <- MCCaller
    NoBatch = none
    MaxWorld = 1

SPECIFICATION Spec
ACTION_CONSTRAINT MCInOrder
CHECK_DEADLOCK FALSE

INVARIANTS
    SendNeverBlocks
    SettledIsFresh
    BurstsCoalesce

PROPERTIES
    SnapshotNeverRegresses
    PromiseKept
    CallersReturn
    ChangesAreSeen
