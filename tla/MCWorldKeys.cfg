CONSTANTS
    Atoms <- MCAtoms
    MaxLen = 2
    Ifaces <- MCIfaces
    MaxInserts = 3
SPECIFICATION Spec
INVARIANTS
    HashAgreesWithEq
    NoAsyncDuplicates
    FailsExactlyOnCollision
PROPERTIES
    ImplementsItemSet
\* A world whose assembly is done or failed takes no further steps.
CHECK_DEADLOCK FALSE
