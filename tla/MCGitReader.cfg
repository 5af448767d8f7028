\* A directory in a repository, another in one nested in it.
CONSTANTS
    d1 = d1
    d2 = d2
    outer = outer
    inner = inner
    none = none
    Dir <- MCDir
    Repo <- MCRepo
    NoRepo = none
    Above <- MCAbove
    MaxChanges = 2

SPECIFICATION Spec
ACTION_CONSTRAINT MCBound
CHECK_DEADLOCK FALSE

INVARIANTS
    BranchIsCurrent

PROPERTIES
    NeverOlder
    BranchesSettle
