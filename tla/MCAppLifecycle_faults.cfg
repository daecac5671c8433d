SPECIFICATION FairSpec
CONSTANTS
    Requests = {r1, r2}
    MaxConns = 1
    Faults = {"connect", "ping", "policies", "tracing", "listen", "accept"}
INVARIANTS
    TypeOK
    NilMeansDrained
    ReleasedOnEveryExit
    SignalShutsServers
PROPERTIES
    SignalEndsRun
    ServersEnd
CHECK_DEADLOCK FALSE
