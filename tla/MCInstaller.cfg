\* Three runs of two versions, and two edits of the user between them.
CONSTANTS
    e1 = e1
    e2 = e2
    o1 = o1
    r1 = r1
    r2 = r2
    r3 = r3
    Files <- MCFiles
    Event <- MCEvent
    Version <- MCVersion
    Registers <- MCRegisters
    Own <- MCOwn
    Run <- MCRun
    MaxEdits = 2
    EditsMeanwhile = FALSE

SPECIFICATION InstallSpec
SYMMETRY MCSymmetry
CHECK_DEADLOCK FALSE

INVARIANTS
    UserKeepsHisOwn
    DoneIsDone
