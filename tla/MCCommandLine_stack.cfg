SPECIFICATION Spec
CONSTANTS
    Latest = 2
    Runs = {"migrate", "operator"}
    Operator = "operator"
    Varied <- MCVaried
    MaxCommands = 3
INVARIANTS
    TypeOK
    SchemaTold
    StackInOrder
    EnvMeansFlag
CHECK_DEADLOCK FALSE
