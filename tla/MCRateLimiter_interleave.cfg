SPECIFICATION Spec
SYMMETRY Symmetry
CONSTANTS
    Keys = {k1}
    Procs = {p1, p2, p3}
    Burst = 2
    Cost = 2
    IdleTTL = 5
    MinIdleTTL = 1
    Second = 3
    MaxStall = 2
    MaxDebt = 2
INVARIANTS
    TypeOK
    HeldBucketKept
    NeverOverGrants
    CancelIsExact
    RetryHonest
    IdleBounded
