CONSTANTS
    Tables <- MCTables
    Schemas <- MCSchemas
    Values = {"v"}
    Null = "null"
    MaxRows = 2
    MaxStarts = 3
SPECIFICATION Spec
INVARIANTS
    TypeOK
    NothingDestroyed
    RunningOnWantedTables
    CleanStartsKeepRows
CHECK_DEADLOCK FALSE
