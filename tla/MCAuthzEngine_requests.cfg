SPECIFICATION Spec
CONSTANTS
    Requests = {r1}
    Slices <- MCSlices
    Dirs <- MCDirs
    MaxSlices = 2
INVARIANTS
    TypeOK
    RoutingUnambiguous
    ProceedJustified
    LoadErrorFailsClosed
    OneSnapshot
    PrincipalNotShadowed
CHECK_DEADLOCK FALSE
