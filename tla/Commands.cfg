CONSTANTS
    Definitions <- MCDefinitions
    Bytes = {"c", "l", "s", "e", "2", "p", "w", "n", "x", "nul"}
    NulByte = "nul"
    Connections = {c1}
    Users = {"alice", "bob"}
    NoUser = "nobody"
    Permissions = {"write"}
    Usergroups = {"staff", "guests"}
    UsergroupOf <- MCUsergroupOf
    MaxUsergroups = 3
SPECIFICATION Spec
INVARIANTS
    TypeOK
    RoutedToItself
    DecidedByTheTable
