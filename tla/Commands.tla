------------------------------ MODULE Commands ------------------------------
(***************************************************************************)
(* The registry of commands (CommandsManagerV2.cpp), the rules by which a  *)
(* received command is accepted (CommandV2.cpp) and the user groups with   *)
(* their permissions (UsergroupManager.cpp): from the definitions that are *)
(* read at the start, through the short name that a command has on the     *)
(* wire, to the permissions that a group has in the database and in the    *)
(* memory of a server which may stop at any moment.                        *)
(*                                                                         *)
(* Both ends read the same definitions.  A short name is a sequence of     *)
(* bytes; permissions are sets.  The fields of a command that are used     *)
(* once it is accepted are those of modules Connection and Operations.     *)
(***************************************************************************)
EXTENDS Integers, Sequences

CONSTANTS
    Definitions,    \* the JSON's commands: a sequence
    Bytes, NulByte, \* the bytes of short names; the byte 0
    Connections,
    Users, NoUser,
    Permissions,
    Usergroups,     \* uuids
    UsergroupOf,    \* the group of each user
    MaxUsergroups   \* bound on the cached groups

Flags == {"requireAuthentication", "onlyNonAuthenticated", "onlyTemporaryAuth",
          "receiveOnClient", "receiveOnServer"}

CommandDefs ==
    [name : {Definitions[i].name : i \in DOMAIN Definitions}, nameShort : Seq(Bytes),
     is : SUBSET Flags, requiredPermissions : SUBSET Permissions]

\* A command with permissions requires a user: without one, IsValid would
\* follow a null pointer.
ASSUME CommandsAssumption ==
    /\ Definitions \in Seq(CommandDefs)
    /\ \A i \in DOMAIN Definitions : Definitions[i].requiredPermissions # {} =>
                                       "requireAuthentication" \in Definitions[i].is
    /\ NulByte \in Bytes
    /\ NoUser \notin Users
    /\ UsergroupOf \in [Users -> Usergroups]
    /\ MaxUsergroups \in Nat

VARIABLES
    side,       \* global->isServer, global->isClient
    read,       \* definitions read so far by the constructor
    registered, \* m_registeredCommands
    table,      \* the rows of the table of user groups: [uuid, permissions]
    cache,      \* m_registeredUsergroups
    loaded,     \* the UsergroupManager exists
    creating,   \* the group that CreateUsergroup has saved and not yet registered
    user,       \* the user of each connection
    temporary,  \* the users with a temporary password
    incoming,   \* a command on its way: [created, cmdShortName, isValid]
    handled,    \* what the last step has decided, if it received a command
    recreated   \* groups created again since the start (history)

groupVars == <<table, cache, loaded, creating, recreated>>
vars == <<side, read, registered, groupVars, user, temporary, incoming, handled>>

Groups == [uuid : Usergroups, permissions : SUBSET Permissions]

(***************************************************************************)
(* The registry                                                            *)
(***************************************************************************)
\* find_if: the first that satisfies, as a set of one element or none.
FirstOf(seq, positions) == {seq[i] : i \in {i \in positions : \A j \in positions : i <= j}}

GetCmdDef(shortName) ==
    FirstOf(registered, {i \in DOMAIN registered : registered[i].nameShort = shortName})

GetCmdDefByFullName(name) ==
    FirstOf(registered, {i \in DOMAIN registered : registered[i].name = name})

\* Mutation: it is the full name that has to be new.
ReadDefinitionByName ==
    /\ read < Len(Definitions)
    /\ LET cmd == Definitions[read + 1]
       IN registered' = IF GetCmdDefByFullName(cmd.name) = {} THEN Append(registered, cmd)
                        ELSE registered
    /\ read' = read + 1
    /\ handled' = {}
    /\ UNCHANGED <<side, groupVars, user, temporary, incoming>>

\* An iteration of the constructor: a short name in use is not registered again.
ReadDefinition ==
    /\ read < Len(Definitions)
    /\ LET cmd == Definitions[read + 1]
       IN registered' = IF GetCmdDef(cmd.nameShort) = {} THEN Append(registered, cmd)
                        ELSE registered
    /\ read' = read + 1
    /\ handled' = {}
    /\ UNCHANGED <<side, groupVars, user, temporary, incoming>>

Ready == read = Len(Definitions) /\ (side = "server" => loaded)

(***************************************************************************)
(* User groups                                                             *)
(***************************************************************************)
\* The constructor on a server: the whole table.
LoadUsergroups ==
    /\ side = "server" /\ ~loaded
    /\ cache' = table
    /\ loaded' = TRUE
    /\ handled' = {}
    /\ UNCHANGED <<side, read, registered, table, creating, recreated, user, temporary, incoming>>

GetUsergroup(uuid) == FirstOf(cache, {i \in DOMAIN cache : cache[i].uuid = uuid})

\* Mutation: always an INSERT.
SavedAgain(row) == Append(table, row)

\* SaveToDatabase: an UPDATE when the uuid has a row, or an INSERT.
Saved(row) ==
    IF \E i \in DOMAIN table : table[i].uuid = row.uuid
    THEN [i \in DOMAIN table |-> IF table[i].uuid = row.uuid THEN row ELSE table[i]]
    ELSE Append(table, row)

\* Mutation: a group is created while another one is.
SaveUsergroupEarly(row) ==
    /\ Ready /\ side = "server" /\ Len(cache) < MaxUsergroups
    /\ table' = Saved(row)
    /\ creating' = creating \cup {row}
    /\ recreated' = recreated \cup {u \in {row.uuid} : \E i \in DOMAIN cache : cache[i].uuid = u}
    /\ handled' = {}
    /\ UNCHANGED <<side, read, registered, cache, loaded, user, temporary, incoming>>

\* CreateUsergroup up to the end of SaveToDatabase ...
SaveUsergroup(row) ==
    /\ Ready /\ side = "server" /\ creating = {} /\ Len(cache) < MaxUsergroups
    /\ table' = Saved(row)
    /\ creating' = {row}
    /\ recreated' = recreated \cup {u \in {row.uuid} : \E i \in DOMAIN cache : cache[i].uuid = u}
    /\ handled' = {}
    /\ UNCHANGED <<side, read, registered, cache, loaded, user, temporary, incoming>>

\* ... and RegisterUsergroup.
RegisterUsergroup ==
    \E row \in creating :
        /\ cache' = Append(cache, row)
        /\ creating' = {}
        /\ handled' = {}
        /\ UNCHANGED <<side, read, registered, table, loaded, recreated, user, temporary, incoming>>

(***************************************************************************)
(* Commands                                                                *)
(***************************************************************************)
\* The name as ReadHeader finds it: the first two of the bytes that
\* WriteHeader has written, which are followed by the length.
WireName(shortName) == [i \in 1..2 |-> IF i <= Len(shortName) THEN shortName[i] ELSE NulByte]

\* The peer creates a command by its full name and sends it.
SendCommand(c, name, isValid) ==
    /\ Ready /\ incoming[c] = {}
    /\ \E cmd \in GetCmdDefByFullName(name) :
         incoming' = [incoming EXCEPT ![c] = {[created |-> cmd, isValid |-> isValid,
                                               cmdShortName |-> WireName(cmd.nameShort)]}]
    /\ handled' = {}
    /\ UNCHANGED <<side, read, registered, groupVars, user, temporary>>

\* HasPermission of each required permission, in the group that is given.
HasPermissions(cmd, group) == \E g \in group : cmd.requiredPermissions \subseteq g.permissions

\* u: the user or NoUser; group: its group, looked up where there are
\* permissions to check.
IsValid(cmd, isValid, u, group) ==
    /\ isValid
    /\ side = "client" => "receiveOnClient" \in cmd.is
    /\ side = "server" => "receiveOnServer" \in cmd.is
    /\ "onlyNonAuthenticated" \in cmd.is => u = NoUser
    /\ "requireAuthentication" \in cmd.is => u # NoUser
    /\ side = "server" =>
         /\ "onlyTemporaryAuth" \in cmd.is /\ u # NoUser => u \in temporary
         /\ "requireAuthentication" \in cmd.is /\ "onlyTemporaryAuth" \notin cmd.is =>
              u \notin temporary
         /\ cmd.requiredPermissions # {} => HasPermissions(cmd, group)

\* CommandExist, CreateCommand and the check in OnReceivedCommandPre.
Decision(payload, u) ==
    LET found == GetCmdDef(payload.cmdShortName)
        group == IF u = NoUser THEN {} ELSE GetUsergroup(UsergroupOf[u])
    IN [payload |-> payload, user |-> u, cmd |-> found,
        accepted |-> \E cmd \in found : IsValid(cmd, payload.isValid, u, group)]

ReceiveCommand(c) ==
    /\ Ready /\ creating = {}
    /\ \E payload \in incoming[c] : handled' = {Decision(payload, user[c])}
    /\ incoming' = [incoming EXCEPT ![c] = {}]
    /\ UNCHANGED <<side, read, registered, groupVars, user, temporary>>

(***************************************************************************)
(* The application and the process                                         *)
(***************************************************************************)
\* The user of a connection changes; on a server it has a group.
Authenticate(c, u) ==
    /\ Ready /\ creating = {} /\ u # user[c]
    /\ u # NoUser /\ side = "server" => GetUsergroup(UsergroupOf[u]) # {}
    /\ user' = [user EXCEPT ![c] = u]
    /\ handled' = {}
    /\ UNCHANGED <<side, read, registered, groupVars, temporary, incoming>>

ChangePassword(u) ==
    /\ Ready /\ creating = {}
    /\ temporary' = IF u \in temporary THEN temporary \ {u} ELSE temporary \cup {u}
    /\ handled' = {}
    /\ UNCHANGED <<side, read, registered, groupVars, user, incoming>>

\* The program stops and starts again: the table is all that is left.
Restart ==
    /\ read = Len(Definitions)
    /\ read' = 0 /\ registered' = <<>>
    /\ cache' = <<>> /\ loaded' = FALSE /\ creating' = {} /\ recreated' = {}
    /\ user' = [c \in Connections |-> NoUser]
    /\ incoming' = [c \in Connections |-> {}]
    /\ handled' = {}
    /\ UNCHANGED <<side, table, temporary>>

Init ==
    /\ side \in {"server", "client"}
    /\ read = 0 /\ registered = <<>>
    /\ table = <<>> /\ cache = <<>> /\ loaded = FALSE /\ creating = {} /\ recreated = {}
    /\ user = [c \in Connections |-> NoUser]
    /\ temporary \in SUBSET Users
    /\ incoming = [c \in Connections |-> {}]
    /\ handled = {}

Next ==
    \/ ReadDefinition
    \/ LoadUsergroups
    \/ \E row \in Groups : SaveUsergroup(row)
    \/ RegisterUsergroup
    \/ \E c \in Connections, i \in DOMAIN Definitions, isValid \in BOOLEAN :
          SendCommand(c, Definitions[i].name, isValid)
    \/ \E c \in Connections : ReceiveCommand(c)
    \/ \E c \in Connections, u \in Users \cup {NoUser} : Authenticate(c, u)
    \/ \E u \in Users : ChangePassword(u)
    \/ Restart

Spec == Init /\ [][Next]_vars

-----------------------------------------------------------------------------
Payloads == [created : CommandDefs, cmdShortName : Seq(Bytes), isValid : BOOLEAN]

AtMostOne(S) == \A x, y \in S : x = y

\* The types of the state; the registry and the cache are sequences of
\* definitions and of groups, and at most one command is on its way on a
\* connection and one group is being created (CommandsManagerV2.h:20).
TypeOK ==
    /\ side \in {"server", "client"}
    /\ read \in 0..Len(Definitions) /\ registered \in Seq(CommandDefs)
    /\ table \in Seq(Groups) /\ cache \in Seq(Groups)
    /\ loaded \in BOOLEAN
    /\ creating \in SUBSET Groups /\ AtMostOne(creating)
    /\ recreated \in SUBSET Usergroups
    /\ user \in [Connections -> Users \cup {NoUser}]
    /\ temporary \in SUBSET Users
    /\ incoming \in [Connections -> SUBSET Payloads]
    /\ \A c \in Connections : AtMostOne(incoming[c])

\* A command that is created by its full name is dispatched, by the two bytes
\* of the header, to the definition it was created from, although a full name
\* may be defined several times and definitions with a short name in use are
\* dropped (CommandsManagerV2.cpp:57, 72, 88).  Only short names of two bytes
\* have this: the others, which nothing refuses, are cut or filled up and lead
\* to another command or to none.
RoutedToItself ==
    \A h \in handled : Len(h.payload.created.nameShort) = 2 => h.cmd = {h.payload.created}

\* The row of a group.
StoredGroup(uuid) == {table[i] : i \in {i \in DOMAIN table : table[i].uuid = uuid}}

\* A command is accepted or refused as the permissions in the database decide,
\* though it is the groups in memory that are asked, whenever groups are
\* created and wherever the server is stopped (CommandV2.cpp:107,
\* UsergroupManager.cpp:116).  Excepted are groups created again since the
\* start: until the next one, their first permissions hold.
DecidedByTheTable ==
    \A h \in handled :
        h.user \in Users /\ UsergroupOf[h.user] \notin recreated =>
            (h.accepted <=> \E cmd \in h.cmd :
                 IsValid(cmd, h.payload.isValid, h.user, StoredGroup(UsergroupOf[h.user])))
=============================================================================
