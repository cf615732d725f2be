CONSTANTS
    MaxNum = 2
    Empty = Empty
    Pres <- MCPres
    Builds <- MCBuilds
SPECIFICATION Spec
INVARIANTS
    TrackIsCompatibility
    TrackStringInjective
