SPECIFICATION Spec
CONSTANTS
    Keys = {k1}
    Procs = {p1, p2}
    Burst = 2
    Cost = 2
    IdleTTL = 2
    MinIdleTTL = 1
    Second = 3
    MaxStall = 0
    MaxDebt = 2
INVARIANT
    NeverOverGrants
