CONSTANTS
    Tables <- MCTables
    Schemas <- MCSchemas
    Values = {"v"}
    Null = "null"
    MaxRows = 2
    MaxStarts = 3
SPECIFICATION Spec
INVARIANT
    RunningWithItsRows
CHECK_DEADLOCK FALSE
