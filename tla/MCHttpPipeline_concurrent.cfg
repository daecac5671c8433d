SPECIFICATION FairSpec
CONSTANTS
    Requests = {r1, r2}
    Configs <- MCConfigs
    Panics = {"panic", "abort"}
    Deadlines = TRUE
INVARIANTS
    TypeOK
    GaugeExact
    HandlerGuarded
    AccountsHonest
    PanicsEndRight
    OneDocument
PROPERTY
    RequestsEnd
CHECK_DEADLOCK FALSE
