CONSTANTS
    U32Max <- MCU32Max
    UsizeMax <- MCUsizeMax
    CaseCounts <- MCCaseCounts
    FlagCounts <- MCFlagCounts
SPECIFICATION Spec
INVARIANTS
    DiscriminantIsCanonical
    FlagsReprCanonical
\* A discriminant_type panic ends the program.
CHECK_DEADLOCK FALSE
