CONSTANTS
    N = 3
    MaxFields = 2
    MaxParams = 1
    Kinds <- MCUnresolvedKinds
SPECIFICATION Spec
INVARIANTS
    NoSilentUnknown
CHECK_DEADLOCK FALSE
