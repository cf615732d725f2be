CONSTANTS
    NImports = 3
    NDefined = 2
    ImportKinds <- MCFuncOnly
    OverflowChecks = TRUE
    IdxModulus = 65536
SPECIFICATION Spec
INVARIANTS
    KeptImportRefsRemapped
\* The reencoding ends, renumbered or panicked.
CHECK_DEADLOCK FALSE
