CONSTANTS
    N = 3
    MaxFields = 2
    MaxParams = 1
    Kinds <- MCResolvedKinds
SPECIFICATION Spec
INVARIANTS
    TypeOK
    StackDescends
    ResultMatchesReference
PROPERTIES
    Terminates
CHECK_DEADLOCK FALSE
