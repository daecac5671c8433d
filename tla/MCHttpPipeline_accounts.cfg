SPECIFICATION Spec
CONSTANTS
    Requests = {r1}
    Configs <- MCConfigs
    Panics = {"panic"}
    Deadlines = FALSE
INVARIANT
    EveryRequestAccounted
CHECK_DEADLOCK FALSE
