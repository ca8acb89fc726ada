--------------------------- MODULE CommandsProofs ---------------------------
(***************************************************************************)
(* Theorems about Commands, for any definitions, users and groups.         *)
(*                                                                         *)
(* A command finds itself again because short names are unique: the test   *)
(* of the constructor has to be followed through every definition read.    *)
(* That the groups in memory decide as the table does needs the rows to be *)
(* unique, and a group that is saved to be in the table until it is        *)
(* registered, whatever is saved and wherever the server stops.            *)
(***************************************************************************)
EXTENDS Commands, SequenceTheorems, TLAPS

ShortNamesAreUnique ==
    \A i, j \in DOMAIN registered : registered[i].nameShort = registered[j].nameShort => i = j

RowsAreUnique == \A i, j \in DOMAIN table : table[i].uuid = table[j].uuid => i = j

Stored(row) == \E k \in DOMAIN table : table[k] = row

CacheFollowsTable == \A i \in DOMAIN cache : cache[i].uuid \notin recreated => Stored(cache[i])

CreatingIsSaved == \A row \in creating : Stored(row)

SentIsRegistered ==
    \A c \in Connections : \A payload \in incoming[c] :
        /\ payload.cmdShortName = WireName(payload.created.nameShort)
        /\ \E i \in DOMAIN registered : registered[i] = payload.created

UsersHaveGroups ==
    side = "server" =>
        \A c \in Connections : user[c] # NoUser => loaded /\ GetUsergroup(UsergroupOf[user[c]]) # {}

Inv ==
    /\ TypeOK
    /\ ShortNamesAreUnique
    /\ RowsAreUnique
    /\ CacheFollowsTable
    /\ CreatingIsSaved
    /\ SentIsRegistered
    /\ UsersHaveGroups

-----------------------------------------------------------------------------
(* What find_if finds.                                                     *)

\* An element that is appended is found only where nothing was found before.
LEMMA FoundStays ==
  ASSUME NEW S, NEW seq \in Seq(S), NEW x \in S, NEW P \in SUBSET Nat, NEW Q \in SUBSET Nat,
         P \subseteq DOMAIN seq,
         P \subseteq Q, Q \subseteq P \cup {Len(seq) + 1},
         FirstOf(seq, P) # {}
  PROVE  FirstOf(Append(seq, x), Q) # {}
  <1>1. PICK i \in P : \A j \in P : i <= j
    BY DEF FirstOf
  <1>2. i \in 1..Len(seq) /\ \A j \in Q : i <= j
    BY <1>1
  <1>3. Append(seq, x)[i] \in FirstOf(Append(seq, x), Q)
    BY <1>1, <1>2 DEF FirstOf
  <1>4. QED
    BY <1>3

LEMMA OnlyOneIsFound ==
  ASSUME NEW seq, NEW i \in Nat, NEW P, P = {i}
  PROVE  FirstOf(seq, P) = {seq[i]}
  <1>1. \A j \in P : i <= j
    OBVIOUS
  <1>2. {k \in P : \A j \in P : k <= j} = {i}
    BY <1>1
  <1>3. QED
    BY <1>2 DEF FirstOf

\* A short name of two bytes is what the receiver reads.
LEMMA ShortNameIsSent ==
  ASSUME NEW name \in Seq(Bytes), Len(name) = 2
  PROVE  WireName(name) = name
  <1>1. DOMAIN name = 1..2 /\ name = [i \in DOMAIN name |-> name[i]]
    OBVIOUS
  <1>2. \A i \in 1..2 : i <= Len(name)
    OBVIOUS
  <1>3. QED
    BY <1>1, <1>2, Zenon DEF WireName

LEMMA WireNameTyped ==
  ASSUME NEW name \in Seq(Bytes)
  PROVE  WireName(name) \in Seq(Bytes)
  <1>1. ASSUME NEW i \in 1..2
        PROVE  (IF i <= Len(name) THEN name[i] ELSE NulByte) \in Bytes
    <2>1. NulByte \in Bytes
      BY CommandsAssumption DEF CommandsAssumption
    <2>2. i <= Len(name) => name[i] \in Bytes
      OBVIOUS
    <2>3. QED
      BY <2>1, <2>2
  <1>2. WireName(name) \in [1..2 -> Bytes]
    BY <1>1 DEF WireName
  <1>3. [1..2 -> Bytes] \subseteq Seq(Bytes)
    BY SeqDef
  <1>4. QED
    BY <1>2, <1>3

\* With unique short names, a registered definition is what its short name
\* finds.
LEMMA FoundByShortName ==
  ASSUME ShortNamesAreUnique, TypeOK,
         NEW i \in DOMAIN registered
  PROVE  GetCmdDef(registered[i].nameShort) = {registered[i]}
  <1> DEFINE P == {k \in DOMAIN registered : registered[k].nameShort = registered[i].nameShort}
  <1>1. P = {i}
    BY DEF ShortNamesAreUnique
  <1>2. i \in Nat
    BY DEF TypeOK
  <1>3. FirstOf(registered, P) = {registered[i]}
    BY <1>1, <1>2, OnlyOneIsFound
  <1>4. QED
    BY <1>3 DEF GetCmdDef

LEMMA FoundIsRegistered ==
  ASSUME TypeOK, NEW shortName, NEW cmd \in GetCmdDef(shortName)
  PROVE  cmd \in CommandDefs
  BY DEF TypeOK, GetCmdDef, FirstOf

\* A group in memory that was not created again is the row of the table.
LEMMA FoundIsStored ==
  ASSUME TypeOK, RowsAreUnique, CacheFollowsTable,
         NEW uuid \in Usergroups, uuid \notin recreated, GetUsergroup(uuid) # {}
  PROVE  GetUsergroup(uuid) = StoredGroup(uuid)
  <1> DEFINE P == {i \in DOMAIN cache : cache[i].uuid = uuid}
  <1>1. PICK i \in P : \A j \in P : i <= j
    BY DEF GetUsergroup, FirstOf
  <1>2. {k \in P : \A j \in P : k <= j} = {i}
    <2>1. P \subseteq Nat
      BY DEF TypeOK
    <2>2. QED
      BY <1>1, <2>1
  <1>3. GetUsergroup(uuid) = {cache[i]}
    BY <1>2 DEF GetUsergroup, FirstOf
  <1>4. PICK k \in DOMAIN table : table[k] = cache[i]
    BY <1>1 DEF CacheFollowsTable, Stored
  <1>5. {j \in DOMAIN table : table[j].uuid = uuid} = {k}
    BY <1>1, <1>4 DEF RowsAreUnique
  <1>6. StoredGroup(uuid) = {table[k]}
    BY <1>5 DEF StoredGroup
  <1>7. QED
    BY <1>3, <1>4, <1>6

-----------------------------------------------------------------------------
(* The initial state and the steps.                                        *)

LEMMA InitInv == Init => Inv /\ handled = {}
  <1> SUFFICES ASSUME Init PROVE Inv /\ handled = {}
    OBVIOUS
  <1>1. TypeOK
    <2>1. 0 \in 0..Len(Definitions)
      BY CommandsAssumption DEF CommandsAssumption
    <2>2. registered \in Seq(CommandDefs) /\ table \in Seq(Groups) /\ cache \in Seq(Groups)
      BY DEF Init
    <2>3. \A c \in Connections : AtMostOne(incoming[c])
      BY DEF Init, AtMostOne
    <2>4. AtMostOne(creating)
      BY DEF Init, AtMostOne
    <2>5. QED
      BY <2>1, <2>2, <2>3, <2>4 DEF Init, TypeOK
  <1>2. ShortNamesAreUnique /\ RowsAreUnique /\ CacheFollowsTable /\ CreatingIsSaved
    BY DEF Init, ShortNamesAreUnique, RowsAreUnique, CacheFollowsTable, CreatingIsSaved
  <1>3. SentIsRegistered /\ UsersHaveGroups
    BY DEF Init, SentIsRegistered, UsersHaveGroups
  <1>4. QED
    BY <1>1, <1>2, <1>3 DEF Inv, Init

LEMMA ReadDefinitionInv == Inv /\ ReadDefinition => Inv'
  <1> SUFFICES ASSUME Inv, ReadDefinition PROVE Inv'
    OBVIOUS
  <1> DEFINE cmd == Definitions[read + 1]
  <1> USE DEF Inv
  <1>1. cmd \in CommandDefs /\ read + 1 \in 0..Len(Definitions)
    BY CommandsAssumption DEF CommandsAssumption, TypeOK, ReadDefinition
  <1>2. \/ registered' = registered
        \/ registered' = Append(registered, cmd) /\ GetCmdDef(cmd.nameShort) = {}
    BY DEF ReadDefinition
  <1>3. TypeOK'
    BY <1>1, <1>2 DEF TypeOK, ReadDefinition, groupVars
  <1>4. ShortNamesAreUnique'
    <2>1. CASE registered' = registered
      BY <2>1 DEF ShortNamesAreUnique
    <2>2. CASE registered' = Append(registered, cmd) /\ GetCmdDef(cmd.nameShort) = {}
      <3>1. \A i \in DOMAIN registered : registered[i].nameShort # cmd.nameShort
        <4>1. SUFFICES ASSUME NEW i \in DOMAIN registered, registered[i].nameShort = cmd.nameShort
                       PROVE  FALSE
          OBVIOUS
        <4>2. GetCmdDef(registered[i].nameShort) = {registered[i]}
          BY FoundByShortName
        <4>3. QED
          BY <4>1, <4>2, <2>2
      <3>2. QED
        BY <2>2, <3>1, <1>1 DEF ShortNamesAreUnique, TypeOK
    <2>3. QED
      BY <1>2, <2>1, <2>2
  <1>5. SentIsRegistered'
    <2>1. \A i \in DOMAIN registered : i \in DOMAIN registered' /\ registered'[i] = registered[i]
      <3>1. registered \in Seq(CommandDefs)
        BY DEF TypeOK
      <3> HIDE DEF cmd
      <3>2. QED
        BY <3>1, <1>1, <1>2, AppendProperties
    <2>2. QED
      BY <2>1 DEF SentIsRegistered, ReadDefinition
  <1>6. UNCHANGED groupVars /\ UNCHANGED <<side, user>>
    BY DEF ReadDefinition
  <1>7. RowsAreUnique' /\ CacheFollowsTable' /\ CreatingIsSaved'
    BY <1>6 DEF groupVars, RowsAreUnique, CacheFollowsTable, CreatingIsSaved, Stored
  <1>8. UsersHaveGroups'
    BY <1>6 DEF groupVars, UsersHaveGroups, GetUsergroup
  <1>9. QED
    BY <1>3, <1>4, <1>5, <1>7, <1>8

LEMMA LoadUsergroupsInv == Inv /\ LoadUsergroups => Inv'
  <1> SUFFICES ASSUME Inv, LoadUsergroups PROVE Inv'
    OBVIOUS
  <1> USE DEF Inv
  <1>1. TypeOK'
    BY DEF TypeOK, LoadUsergroups
  <1>2. CacheFollowsTable' /\ CreatingIsSaved' /\ RowsAreUnique'
    BY DEF LoadUsergroups, CacheFollowsTable, CreatingIsSaved, RowsAreUnique, Stored
  <1>3. UsersHaveGroups'
    BY DEF LoadUsergroups, UsersHaveGroups
  <1>4. ShortNamesAreUnique' /\ SentIsRegistered'
    BY DEF LoadUsergroups, ShortNamesAreUnique, SentIsRegistered
  <1>5. QED
    BY <1>1, <1>2, <1>3, <1>4

\* SaveToDatabase keeps the rows unique and every row but the one saved.
LEMMA SavedRows ==
  ASSUME TypeOK, RowsAreUnique, NEW row \in Groups
  PROVE  /\ Saved(row) \in Seq(Groups)
         /\ \A i, j \in DOMAIN Saved(row) : Saved(row)[i].uuid = Saved(row)[j].uuid => i = j
         /\ \A i \in DOMAIN table : table[i].uuid # row.uuid =>
                                       \E k \in DOMAIN Saved(row) : Saved(row)[k] = table[i]
         /\ \E k \in DOMAIN Saved(row) : Saved(row)[k] = row
  <1>1. CASE \E i \in DOMAIN table : table[i].uuid = row.uuid
    <2> DEFINE T == [i \in DOMAIN table |-> IF table[i].uuid = row.uuid THEN row ELSE table[i]]
    <2>1. Saved(row) = T
      BY <1>1 DEF Saved
    <2>2. T \in Seq(Groups)
      <3>1. table \in Seq(Groups) /\ Len(table) \in Nat /\ DOMAIN table = 1..Len(table)
        BY DEF TypeOK
      <3>2. T \in [1..Len(table) -> Groups]
        BY <3>1
      <3>3. QED
        BY <3>1, <3>2, SeqDef
    <2>3. \A i \in DOMAIN table : T[i].uuid = table[i].uuid
      OBVIOUS
    <2>4. \A i, j \in DOMAIN T : T[i].uuid = T[j].uuid => i = j
      BY <2>3 DEF RowsAreUnique
    <2>5. \A i \in DOMAIN table : table[i].uuid # row.uuid => T[i] = table[i]
      OBVIOUS
    <2>6. \E k \in DOMAIN T : T[k] = row
      BY <1>1
    <2>7. DOMAIN T = DOMAIN table
      OBVIOUS
    <2> HIDE DEF T
    <2>8. QED
      BY <2>1, <2>2, <2>4, <2>5, <2>6, <2>7
  <1>2. CASE \A i \in DOMAIN table : table[i].uuid # row.uuid
    <2>1. Saved(row) = Append(table, row)
      BY <1>2 DEF Saved
    <2>2. table \in Seq(Groups)
      BY DEF TypeOK
    <2>3. QED
      BY <1>2, <2>1, <2>2 DEF RowsAreUnique
  <1>3. QED
    BY <1>1, <1>2

LEMMA SaveUsergroupInv ==
  ASSUME NEW row \in Groups
  PROVE  Inv /\ SaveUsergroup(row) => Inv'
  <1> SUFFICES ASSUME Inv, SaveUsergroup(row) PROVE Inv'
    OBVIOUS
  <1> USE DEF Inv
  <1>1. table' = Saved(row) /\ creating' = {row} /\ cache' = cache
    BY DEF SaveUsergroup
  <1>2. row.uuid \in Usergroups
    BY DEF Groups
  <1>3. TypeOK'
    <2>1. table' \in Seq(Groups)
      BY <1>1, SavedRows
    <2>2. creating' \in SUBSET Groups /\ AtMostOne(creating')
      BY <1>1 DEF AtMostOne
    <2>3. recreated' \in SUBSET Usergroups
      BY <1>2 DEF SaveUsergroup, TypeOK
    <2>4. QED
      BY <2>1, <2>2, <2>3 DEF TypeOK, SaveUsergroup
  <1>4. RowsAreUnique'
    BY <1>1, SavedRows DEF RowsAreUnique
  <1>5. CreatingIsSaved'
    BY <1>1, SavedRows DEF CreatingIsSaved, Stored
  <1>6. CacheFollowsTable'
    <2>1. SUFFICES ASSUME NEW i \in DOMAIN cache, cache[i].uuid \notin recreated'
                   PROVE  \E k \in DOMAIN table' : table'[k] = cache[i]
      BY <1>1 DEF CacheFollowsTable, Stored
    <2>2. cache[i].uuid \notin recreated
      BY <2>1 DEF SaveUsergroup
    <2>3. PICK k \in DOMAIN table : table[k] = cache[i]
      BY <2>2 DEF CacheFollowsTable, Stored
    <2>4. CASE table[k].uuid # row.uuid
      BY <1>1, <2>3, <2>4, SavedRows
    <2>5. CASE table[k].uuid = row.uuid
      <3>1. row.uuid \in recreated'
        BY <2>1, <2>3, <2>5 DEF SaveUsergroup
      <3>2. QED
        BY <2>1, <2>3, <2>5, <3>1
    <2>6. QED
      BY <2>4, <2>5
  <1>7. UsersHaveGroups'
    BY DEF SaveUsergroup, UsersHaveGroups, GetUsergroup
  <1>8. ShortNamesAreUnique' /\ SentIsRegistered'
    BY DEF SaveUsergroup, ShortNamesAreUnique, SentIsRegistered
  <1>9. QED
    BY <1>3, <1>4, <1>5, <1>6, <1>7, <1>8

LEMMA RegisterUsergroupInv == Inv /\ RegisterUsergroup => Inv'
  <1> SUFFICES ASSUME Inv, RegisterUsergroup PROVE Inv'
    OBVIOUS
  <1> USE DEF Inv
  <1>1. PICK row \in creating : cache' = Append(cache, row)
    BY DEF RegisterUsergroup
  <1>2. row \in Groups /\ cache \in Seq(Groups) /\ Stored(row)
    BY DEF TypeOK, CreatingIsSaved
  <1>3. creating' = {} /\ UNCHANGED <<side, read, registered, table, loaded, recreated, user,
                                      temporary, incoming>>
    BY DEF RegisterUsergroup
  <1>4. TypeOK'
    BY <1>1, <1>2, <1>3 DEF TypeOK, AtMostOne
  <1>5. CacheFollowsTable'
    BY <1>1, <1>2, <1>3 DEF CacheFollowsTable, Stored
  <1>6. UsersHaveGroups'
    <2>1. ASSUME NEW uuid \in Usergroups, GetUsergroup(uuid) # {}
          PROVE  (GetUsergroup(uuid) # {})'
      <3> DEFINE P == {i \in DOMAIN cache : cache[i].uuid = uuid}
                 Q == {i \in DOMAIN cache' : cache'[i].uuid = uuid}
      <3>1. P \in SUBSET Nat /\ Q \in SUBSET Nat /\ P \subseteq DOMAIN cache
        BY <1>1, <1>2
      <3>2. P \subseteq Q /\ Q \subseteq P \cup {Len(cache) + 1}
        BY <1>1, <1>2
      <3>3. FirstOf(cache, P) # {}
        BY <2>1 DEF GetUsergroup
      <3> HIDE DEF P, Q
      <3>4. FirstOf(Append(cache, row), Q) # {}
        BY <1>2, <3>1, <3>2, <3>3, FoundStays
      <3>5. QED
        BY <3>4, <1>1 DEF GetUsergroup, Q
    <2>2. SUFFICES ASSUME side = "server", NEW c \in Connections, user[c] # NoUser
                   PROVE  loaded /\ (GetUsergroup(UsergroupOf[user[c]]) # {})'
      BY <1>3, CommandsAssumption DEF UsersHaveGroups, CommandsAssumption, GetUsergroup
    <2>3. UsergroupOf[user[c]] \in Usergroups
      BY <2>2, CommandsAssumption DEF CommandsAssumption, TypeOK
    <2>4. loaded /\ GetUsergroup(UsergroupOf[user[c]]) # {}
      BY <2>2 DEF UsersHaveGroups
    <2>5. QED
      BY <2>1, <2>3, <2>4, <1>3
  <1>7. ShortNamesAreUnique' /\ RowsAreUnique' /\ CreatingIsSaved' /\ SentIsRegistered'
    BY <1>3 DEF ShortNamesAreUnique, RowsAreUnique, CreatingIsSaved, SentIsRegistered
  <1>8. QED
    BY <1>4, <1>5, <1>6, <1>7

LEMMA SendCommandInv ==
  ASSUME NEW c \in Connections, NEW name, NEW isValid \in BOOLEAN
  PROVE  Inv /\ SendCommand(c, name, isValid) => Inv'
  <1> SUFFICES ASSUME Inv, SendCommand(c, name, isValid) PROVE Inv'
    OBVIOUS
  <1> USE DEF Inv
  <1>1. PICK cmd \in GetCmdDefByFullName(name) :
          incoming' = [incoming EXCEPT ![c] = {[created |-> cmd, isValid |-> isValid,
                                                cmdShortName |-> WireName(cmd.nameShort)]}]
    BY DEF SendCommand
  <1>2. PICK i \in DOMAIN registered : registered[i] = cmd
    BY <1>1 DEF GetCmdDefByFullName, FirstOf
  <1>3. cmd \in CommandDefs
    BY <1>2 DEF TypeOK
  <1>4. UNCHANGED <<side, read, registered, groupVars, user, temporary>>
    BY DEF SendCommand
  <1> DEFINE payload == [created |-> cmd, isValid |-> isValid,
                         cmdShortName |-> WireName(cmd.nameShort)]
  <1>5. incoming' = [incoming EXCEPT ![c] = {payload}] /\ payload.created = cmd
        /\ payload.cmdShortName = WireName(cmd.nameShort)
    BY <1>1
  <1>6. payload \in Payloads
    <2>1. WireName(cmd.nameShort) \in Seq(Bytes)
      BY <1>3, WireNameTyped DEF CommandDefs
    <2>2. QED
      BY <2>1, <1>3 DEF Payloads
  <1> HIDE DEF payload
  <1>7. incoming \in [Connections -> SUBSET Payloads]
    BY DEF TypeOK
  <1>8. \A d \in Connections : incoming'[d] = IF d = c THEN {payload} ELSE incoming[d]
    BY <1>5, <1>7
  <1>9. TypeOK'
    <2>1. incoming' \in [Connections -> SUBSET Payloads]
      BY <1>5, <1>6, <1>7
    <2>2. \A d \in Connections : AtMostOne(incoming'[d])
      BY <1>8 DEF TypeOK, AtMostOne
    <2>3. QED
      BY <1>4, <2>1, <2>2 DEF TypeOK, groupVars
  <1>10. SentIsRegistered'
    <2>1. ASSUME NEW d \in Connections, NEW p \in incoming'[d]
          PROVE  /\ p.cmdShortName = WireName(p.created.nameShort)
                 /\ \E k \in DOMAIN registered : registered[k] = p.created
      <3>1. CASE d = c
        BY <2>1, <3>1, <1>8, <1>5, <1>2
      <3>2. CASE d # c
        BY <2>1, <3>2, <1>8 DEF SentIsRegistered
      <3>3. QED
        BY <3>1, <3>2
    <2>2. QED
      BY <2>1, <1>4 DEF SentIsRegistered
  <1>11. /\ ShortNamesAreUnique' /\ RowsAreUnique' /\ CacheFollowsTable' /\ CreatingIsSaved'
    BY <1>4 DEF groupVars, ShortNamesAreUnique, RowsAreUnique, CacheFollowsTable,
                CreatingIsSaved, Stored
  <1>12. UsersHaveGroups'
    BY <1>4 DEF groupVars, UsersHaveGroups, GetUsergroup
  <1>13. QED
    BY <1>9, <1>10, <1>11, <1>12

LEMMA ReceiveCommandInv ==
  ASSUME NEW c \in Connections
  PROVE  Inv /\ ReceiveCommand(c) => Inv'
  <1> SUFFICES ASSUME Inv, ReceiveCommand(c) PROVE Inv'
    OBVIOUS
  <1> USE DEF Inv
  <1>1. UNCHANGED <<side, read, registered, groupVars, user, temporary>>
    BY DEF ReceiveCommand
  <1>2. incoming \in [Connections -> SUBSET Payloads]
    BY DEF TypeOK
  <1>3. incoming' = [incoming EXCEPT ![c] = {}]
    BY DEF ReceiveCommand
  <1>4. \A d \in Connections : incoming'[d] = IF d = c THEN {} ELSE incoming[d]
    BY <1>2, <1>3
  <1>5. TypeOK'
    <2>1. incoming' \in [Connections -> SUBSET Payloads]
      BY <1>2, <1>3
    <2>2. \A d \in Connections : AtMostOne(incoming'[d])
      BY <1>4 DEF TypeOK, AtMostOne
    <2>3. QED
      BY <1>1, <2>1, <2>2 DEF TypeOK, groupVars
  <1>6. SentIsRegistered'
    BY <1>1, <1>4 DEF SentIsRegistered
  <1>7. /\ ShortNamesAreUnique' /\ RowsAreUnique' /\ CacheFollowsTable' /\ CreatingIsSaved'
    BY <1>1 DEF groupVars, ShortNamesAreUnique, RowsAreUnique, CacheFollowsTable,
                CreatingIsSaved, Stored
  <1>8. UsersHaveGroups'
    BY <1>1 DEF groupVars, UsersHaveGroups, GetUsergroup
  <1>9. QED
    BY <1>5, <1>6, <1>7, <1>8

LEMMA AuthenticateInv ==
  ASSUME NEW c \in Connections, NEW u \in Users \cup {NoUser}
  PROVE  Inv /\ Authenticate(c, u) => Inv'
  <1> SUFFICES ASSUME Inv, Authenticate(c, u) PROVE Inv'
    OBVIOUS
  <1> USE DEF Inv
  <1>1. UNCHANGED <<side, read, registered, groupVars, temporary, incoming>>
    BY DEF Authenticate
  <1>2. user' = [user EXCEPT ![c] = u] /\ user \in [Connections -> Users \cup {NoUser}]
    BY DEF Authenticate, TypeOK
  <1>3. TypeOK'
    <2>1. user' \in [Connections -> Users \cup {NoUser}]
      BY <1>2
    <2>2. QED
      BY <1>1, <2>1 DEF TypeOK, groupVars
  <1>4. UsersHaveGroups'
    <2>1. SUFFICES ASSUME side = "server", NEW d \in Connections, user'[d] # NoUser
                   PROVE  loaded /\ GetUsergroup(UsergroupOf[user'[d]]) # {}
      BY <1>1 DEF groupVars, UsersHaveGroups, GetUsergroup
    <2>2. CASE d = c
      BY <1>2, <2>1, <2>2 DEF Authenticate, Ready
    <2>3. CASE d # c
      BY <1>2, <2>1, <2>3 DEF UsersHaveGroups
    <2>4. QED
      BY <2>2, <2>3
  <1>5. /\ ShortNamesAreUnique' /\ RowsAreUnique' /\ CacheFollowsTable' /\ CreatingIsSaved'
        /\ SentIsRegistered'
    BY <1>1 DEF groupVars, ShortNamesAreUnique, RowsAreUnique, CacheFollowsTable,
                CreatingIsSaved, Stored, SentIsRegistered
  <1>6. QED
    BY <1>3, <1>4, <1>5

LEMMA ChangePasswordInv ==
  ASSUME NEW u \in Users
  PROVE  Inv /\ ChangePassword(u) => Inv'
  <1> SUFFICES ASSUME Inv, ChangePassword(u) PROVE Inv'
    OBVIOUS
  <1> USE DEF Inv
  <1>1. UNCHANGED <<side, read, registered, groupVars, user, incoming>>
    BY DEF ChangePassword
  <1>2. TypeOK'
    <2>1. temporary' \in SUBSET Users
      BY DEF ChangePassword, TypeOK
    <2>2. QED
      BY <1>1, <2>1 DEF TypeOK, groupVars
  <1>3. /\ ShortNamesAreUnique' /\ RowsAreUnique' /\ CacheFollowsTable' /\ CreatingIsSaved'
        /\ SentIsRegistered'
    BY <1>1 DEF groupVars, ShortNamesAreUnique, RowsAreUnique, CacheFollowsTable,
                CreatingIsSaved, Stored, SentIsRegistered
  <1>4. UsersHaveGroups'
    BY <1>1 DEF groupVars, UsersHaveGroups, GetUsergroup
  <1>5. QED
    BY <1>2, <1>3, <1>4

LEMMA RestartInv == Inv /\ Restart => Inv'
  <1> SUFFICES ASSUME Inv, Restart PROVE Inv'
    OBVIOUS
  <1> USE DEF Inv
  <1>1. TypeOK'
    <2>1. 0 \in 0..Len(Definitions)
      BY CommandsAssumption DEF CommandsAssumption
    <2>2. (registered \in Seq(CommandDefs) /\ cache \in Seq(Groups))'
      BY DEF Restart
    <2>3. (\A c \in Connections : AtMostOne(incoming[c]))' /\ AtMostOne(creating)'
      BY DEF Restart, AtMostOne
    <2>4. QED
      BY <2>1, <2>2, <2>3 DEF Restart, TypeOK
  <1>2. ShortNamesAreUnique' /\ CacheFollowsTable' /\ CreatingIsSaved'
    BY DEF Restart, ShortNamesAreUnique, CacheFollowsTable, CreatingIsSaved
  <1>3. RowsAreUnique' /\ SentIsRegistered' /\ UsersHaveGroups'
    BY DEF Restart, RowsAreUnique, SentIsRegistered, UsersHaveGroups
  <1>4. QED
    BY <1>1, <1>2, <1>3

LEMMA NextInv == Inv /\ [Next]_vars => Inv'
  <1> SUFFICES ASSUME Inv, [Next]_vars PROVE Inv'
    OBVIOUS
  <1>1. CASE UNCHANGED vars
    <2> USE DEF Inv
    <2>1. TypeOK'
      BY <1>1 DEF vars, groupVars, TypeOK
    <2>2. /\ ShortNamesAreUnique' /\ RowsAreUnique' /\ CacheFollowsTable' /\ CreatingIsSaved'
          /\ SentIsRegistered'
      BY <1>1 DEF vars, groupVars, ShortNamesAreUnique, RowsAreUnique, CacheFollowsTable,
                  CreatingIsSaved, Stored, SentIsRegistered
    <2>3. UsersHaveGroups'
      BY <1>1 DEF vars, groupVars, UsersHaveGroups, GetUsergroup
    <2>4. QED
      BY <2>1, <2>2, <2>3
  <1>2. CASE Next
    BY <1>2, ReadDefinitionInv, LoadUsergroupsInv, SaveUsergroupInv, RegisterUsergroupInv,
       SendCommandInv, ReceiveCommandInv, AuthenticateInv, ChangePasswordInv, RestartInv
    DEF Next
  <1>3. QED
    BY <1>1, <1>2

LEMMA SpecInv == Spec => []Inv
  BY InitInv, NextInv, PTL DEF Spec

-----------------------------------------------------------------------------
(* The theorems.                                                           *)

\* The registry, the groups and the commands on their way keep their types.
THEOREM TypeCorrect == Spec => []TypeOK
  <1>1. Inv => TypeOK
    BY DEF Inv
  <1>2. QED
    BY <1>1, SpecInv, PTL

\* Only a command that was received is decided.
LEMMA HandledIsReceived ==
  ASSUME [Next]_vars
  PROVE  \/ UNCHANGED vars
         \/ handled' = {}
         \/ \E c \in Connections : ReceiveCommand(c)
  <1>1. ASSUME ~UNCHANGED vars, \A c \in Connections : ~ReceiveCommand(c) PROVE handled' = {}
    BY <1>1 DEF Next, ReadDefinition, LoadUsergroups, SaveUsergroup, RegisterUsergroup,
                SendCommand, Authenticate, ChangePassword, Restart
  <1>2. QED
    BY <1>1

\* A command created by its full name is dispatched to its own definition
\* (CommandsManagerV2.cpp:57, 72, 88), whatever the definitions.
THEOREM Routed == Spec => []RoutedToItself
  <1>1. Init => RoutedToItself
    BY InitInv DEF RoutedToItself
  <1>2. Inv /\ RoutedToItself /\ [Next]_vars => RoutedToItself'
    <2> SUFFICES ASSUME Inv, RoutedToItself, [Next]_vars PROVE RoutedToItself'
      OBVIOUS
    <2>1. CASE UNCHANGED vars
      BY <2>1 DEF vars, RoutedToItself
    <2>2. CASE handled' = {}
      BY <2>2 DEF RoutedToItself
    <2>3. ASSUME NEW c \in Connections, ReceiveCommand(c) PROVE RoutedToItself'
      <3>1. PICK payload \in incoming[c] : handled' = {Decision(payload, user[c])}
        BY <2>3 DEF ReceiveCommand
      <3> DEFINE h == Decision(payload, user[c])
      <3>2. h.payload = payload /\ h.cmd = GetCmdDef(payload.cmdShortName)
        BY DEF Decision
      <3> HIDE DEF h
      <3>3. SUFFICES ASSUME Len(payload.created.nameShort) = 2
                     PROVE  GetCmdDef(payload.cmdShortName) = {payload.created}
        BY <3>1, <3>2 DEF RoutedToItself, h
      <3>4. payload.cmdShortName = WireName(payload.created.nameShort)
        BY DEF Inv, SentIsRegistered
      <3>5. PICK i \in DOMAIN registered : registered[i] = payload.created
        BY DEF Inv, SentIsRegistered
      <3>6. payload.created.nameShort \in Seq(Bytes)
        <4>1. payload.created \in CommandDefs
          BY <3>5 DEF Inv, TypeOK
        <4>2. QED
          BY <4>1 DEF CommandDefs
      <3>7. payload.cmdShortName = payload.created.nameShort
        BY <3>3, <3>4, <3>6, ShortNameIsSent
      <3>8. QED
        BY <3>5, <3>7, FoundByShortName DEF Inv
    <2>4. QED
      BY <2>1, <2>2, <2>3, HandledIsReceived
  <1>3. QED
    BY <1>1, <1>2, SpecInv, PTL DEF Spec

\* The groups in memory decide as the rows of the database do
\* (CommandV2.cpp:107, UsergroupManager.cpp:116), whatever was saved and
\* wherever the server was stopped.
THEOREM TableDecides == Spec => []DecidedByTheTable
  <1>1. Init => DecidedByTheTable
    BY InitInv DEF DecidedByTheTable
  <1>2. Inv /\ DecidedByTheTable /\ [Next]_vars => DecidedByTheTable'
    <2> SUFFICES ASSUME Inv, DecidedByTheTable, [Next]_vars PROVE DecidedByTheTable'
      OBVIOUS
    <2>1. CASE UNCHANGED vars
      BY <2>1 DEF vars, groupVars, DecidedByTheTable, StoredGroup, IsValid, HasPermissions
    <2>2. CASE handled' = {}
      BY <2>2 DEF DecidedByTheTable
    <2>3. ASSUME NEW c \in Connections, ReceiveCommand(c) PROVE DecidedByTheTable'
      <3>1. UNCHANGED <<side, read, registered, groupVars, user, temporary>>
        BY <2>3 DEF ReceiveCommand
      <3>2. PICK payload \in incoming[c] : handled' = {Decision(payload, user[c])}
        BY <2>3 DEF ReceiveCommand
      <3> DEFINE h == Decision(payload, user[c])
                 u == user[c]
                 stored == StoredGroup(UsergroupOf[u])
      <3>3. SUFFICES ASSUME u \in Users, UsergroupOf[u] \notin recreated
                     PROVE  h.accepted <=> \E cmd \in h.cmd :
                                             IsValid(cmd, payload.isValid, u, stored)
        BY <3>1, <3>2
        DEF Decision, DecidedByTheTable, groupVars, StoredGroup, IsValid, HasPermissions
      <3>4. u # NoUser
        BY <3>3, CommandsAssumption DEF CommandsAssumption
      <3>5. h.accepted <=> \E cmd \in h.cmd :
                             IsValid(cmd, payload.isValid, u, GetUsergroup(UsergroupOf[u]))
        BY <3>4 DEF Decision
      <3>6. CASE side = "server"
        <4>1. UsergroupOf[u] \in Usergroups
          BY <3>3, CommandsAssumption DEF CommandsAssumption
        <4>2. GetUsergroup(UsergroupOf[u]) # {}
          BY <3>4, <3>6 DEF Inv, UsersHaveGroups
        <4>3. GetUsergroup(UsergroupOf[u]) = stored
          BY <3>3, <4>1, <4>2, FoundIsStored DEF Inv
        <4>4. QED
          BY <3>5, <4>3
      <3>7. CASE side # "server"
        BY <3>5, <3>7 DEF IsValid
      <3>8. QED
        BY <3>6, <3>7
    <2>4. QED
      BY <2>1, <2>2, <2>3, HandledIsReceived
  <1>3. QED
    BY <1>1, <1>2, SpecInv, PTL DEF Spec
=============================================================================
