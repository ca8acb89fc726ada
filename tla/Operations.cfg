CONSTANTS
    a = a
    b = b
    x = x
    y = y
    note = note
    edit = edit
    draft = draft
    ping = ping
    login = login
    Clients = {a, b}
    Commands = {note, edit, draft, ping, login}
    Keys = {x, y}
    Definition <- MCDefinition
    NoKey = NoKey
    NoUser = NoUser
    NoValue = NoValue
    MaxReceived = 3
    MaxTime = 2
    MaxLosses = 1
SPECIFICATION Spec
INVARIANTS
    TypeOK
    RowsAreUnique
    OperationHasItsItem
    Converges
CHECK_DEADLOCK FALSE
