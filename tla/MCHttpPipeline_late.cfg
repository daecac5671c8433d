SPECIFICATION Spec
CONSTANTS
    Requests = {r1}
    Configs <- MCConfigs
    Panics = {}
    Deadlines = TRUE
INVARIANT
    DeadlineGives504
CHECK_DEADLOCK FALSE
