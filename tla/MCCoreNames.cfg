CONSTANTS
    Letters <- MCLetters
    MaxLen = 2
    Resources <- MCResources
    MaxWorlds = 2
    MaxExports = 2
    None = None
SPECIFICATION Spec
INVARIANTS
    TypeOK
    CoreNamesDistinct
    ItemNameRecovers
    AbiVariantsAgree
\* The fuzz loop ends after its last world.
CHECK_DEADLOCK FALSE
