----------------------------- MODULE Operations -----------------------------
(***************************************************************************)
(* The server's side of a received command (CommandsManagerV2.cpp), the    *)
(* operation it registers and the synchronisation of clients               *)
(* (ApoapseOperation.cpp), on the tables that DataStructure.cpp writes.    *)
(*                                                                         *)
(* One thread handles one command after the other; the statements of a     *)
(* handler commit one by one, so that the server may stop between them,    *)
(* and the handler is cut short when its connection closes.  A table has   *)
(* no deletions here: the id of a row is its position.  Every command      *)
(* writes a value of its own, so that a value says which command wrote it. *)
(* A client that sends a command again sends it with the same operation    *)
(* uuid (PrepareCmdSend): commands are known by their uuid.                *)
(***************************************************************************)
EXTENDS Integers, Sequences, FiniteSets

CONSTANTS
    Clients,       \* users, each with one connection
    Commands,      \* commands that clients send, by operation uuid
    Keys,          \* unique field of the items
    Definition,    \* command -> [kind, key, sender, ownership]
    NoKey,
    NoUser,
    NoValue,
    MaxReceived,   \* bound on the commands received, repetitions included
    MaxTime,       \* bound on the clock, in milliseconds from the start
    MaxLosses      \* bound on the crashes of the server and the connections lost

\* How a command's item gets into the database.
\*   auto:     saveOnReceiveServer, before the command is processed
\*   late:     the application saves it after the operation is registered
\*   itemless: the command's structure has nothing to store
\*   bare:     an empty command, which carries no operation uuid either and
\*             is not propagated
Kinds == {"auto", "late", "itemless", "bare"}

Ownerships == {"undefined", "all", "self", "usergroup"}

ASSUME OperationsAssumption ==
    /\ Definition \in [Commands -> [kind : Kinds, key : Keys \cup {NoKey},
                                    sender : Clients, ownership : Ownerships]]
    /\ \A u \in Commands :
         Definition[u].key \in Keys <=> Definition[u].kind \in {"auto", "late"}
    /\ NoKey \notin Keys /\ NoUser \notin Clients /\ NoValue \notin Commands
    /\ MaxReceived \in Nat /\ MaxTime \in Nat \ {0} /\ MaxLosses \in Nat

VARIABLES
    items,      \* the table of the items
    operations, \* the table of the operations
    now,        \* DateTimeUtils::UnixTimestampNow
    handling,   \* the command being handled and the next step, or Idle
    connection, \* client -> "off", "on", or "closing" (Close was called)
    asked,      \* client -> it has asked to be synchronised on this connection
    channel,    \* client -> messages on their way to it
    local,      \* client -> key -> value in its own database
    known,      \* client -> commands in its own table of operations
    remaining,  \* client -> announced by start_sync and not yet received
    since,      \* client -> timestamp of its next request
    pending,    \* client -> timestamp to use once this synchronisation is complete
    cut,        \* commands whose last handling was cut short (history)
    stale,      \* items last touched by a command that was cut short (history)
    received,   \* commands received (bounds the behaviour)
    losses      \* crashes and lost connections (bounds the behaviour)

tables == <<items, operations>>
network == <<connection, asked, channel>>
clientVars == <<local, known, remaining, since, pending>>
history == <<cut, stale>>
bounds == <<received, losses>>
vars == <<tables, now, handling, network, clientVars, history, bounds>>

Idle == [command |-> NoValue, step |-> "none"]

KeyOf(u) == Definition[u].key
KindOf(u) == Definition[u].kind

\* related_user: only operations of a user or of its group have one.
RelatedUser(u) ==
    IF Definition[u].ownership \in {"self", "usergroup"} THEN Definition[u].sender ELSE NoUser

Item(u) == [key |-> KeyOf(u), value |-> u]
Message(u, item) == [type |-> "command", command |-> u, item |-> item]
EmptyItem == [key |-> NoKey, value |-> NoValue]

Init ==
    /\ items = <<>>
    /\ operations = <<>>
    /\ now = 1
    /\ handling = Idle
    /\ connection = [c \in Clients |-> "off"]
    /\ asked = [c \in Clients |-> FALSE]
    /\ channel = [c \in Clients |-> <<>>]
    /\ local = [c \in Clients |-> [k \in Keys |-> NoValue]]
    /\ known = [c \in Clients |-> {}]
    /\ remaining = [c \in Clients |-> 0]
    /\ since = [c \in Clients |-> 0]
    /\ pending = [c \in Clients |-> 0]
    /\ cut = {}
    /\ stale = {}
    /\ received = 0
    /\ losses = 0

-----------------------------------------------------------------------------
(* Tables: DataStructure.cpp.                                              *)

\* IsAlreadyRegisteredOnDatabase
IsAlreadyRegistered(table, key) == Cardinality({i \in DOMAIN table : table[i].key = key}) = 1

\* Mutation: always inserts.
InsertIntoDatabase(table, row) == Append(table, row)

\* SaveToDatabase: UPDATE when a row has the key of this one, INSERT otherwise.
SaveToDatabase(table, row) ==
    IF IsAlreadyRegistered(table, row.key)
    THEN [i \in DOMAIN table |-> IF table[i].key = row.key THEN row ELSE table[i]]
    ELSE Append(table, row)

\* Mutation: the prediction counts the rows that are there.
CountDbId(key) ==
    IF \E i \in DOMAIN items : items[i].key = key
    THEN CHOOSE i \in DOMAIN items : items[i].key = key
    ELSE Len(items)

\* GetDbId: the id of the item, or the one it is expected to get.
GetDbId(key) ==
    IF \E i \in DOMAIN items : items[i].key = key
    THEN CHOOSE i \in DOMAIN items : items[i].key = key
    ELSE Len(items) + 1

-----------------------------------------------------------------------------
(* The pipeline: CommandsManagerV2::OnReceivedCmdInternal.                 *)

Handling(step) == handling.step = step
Continue(step) == handling' = [handling EXCEPT !.step = step]

\* What an interrupted command leaves: its item is written, or was sent to
\* clients, and its operation is not registered, or the other way round.
Halfway ==
    \/ KindOf(handling.command) = "auto" /\ handling.step \in {"process", "register"}
    \/ KindOf(handling.command) = "late" /\ handling.step \in {"register", "post"}

Interrupted ==
    /\ handling' = Idle
    /\ IF handling # Idle /\ Halfway
       THEN /\ cut' = cut \cup {handling.command}
            /\ stale' = stale \cup {KeyOf(handling.command)}
       ELSE UNCHANGED history

\* The handler ends early, by an exception or by Close().
CutShort ==
    /\ Interrupted
    /\ connection' = [connection EXCEPT ![Definition[handling.command].sender] =
                        IF @ = "on" THEN "closing" ELSE @]

\* OnReceivedCommandPre lets the command pass (module Connection has the others).
Receive(c, u) ==
    /\ handling = Idle
    /\ connection[c] = "on"
    /\ Definition[u].sender = c
    /\ received < MaxReceived
    /\ received' = received + 1
    /\ handling' = [command |-> u, step |-> "save"]
    /\ UNCHANGED <<tables, now, network, clientVars, history, losses>>

\* Mutation: every command is saved, also one without anything to store.
SaveAlways ==
    /\ Handling("save")
    /\ Continue("process")
    /\ items' = SaveToDatabase(items, Item(handling.command))
    /\ UNCHANGED <<operations, now, network, clientVars, history, bounds>>

\* Cmd auto-save.
Save ==
    /\ Handling("save")
    /\ Continue("process")
    /\ items' = IF KindOf(handling.command) = "auto"
                THEN SaveToDatabase(items, Item(handling.command))
                ELSE items
    /\ UNCHANGED <<operations, now, network, clientVars, history, bounds>>

Concerns(ownership, user, c) == ownership = "all" \/ user = c

Audience(u) == {c \in Clients : Concerns(Definition[u].ownership, RelatedUser(u), c)}

\* Propagate: the application sends the command to whom it concerns.
Propagate(u) ==
    channel' = [c \in Clients |->
                  IF connection[c] = "on" /\ c \in Audience(u)
                  THEN Append(channel[c], Message(u, IF KeyOf(u) \in Keys THEN Item(u)
                                                     ELSE EmptyItem))
                  ELSE channel[c]]

\* OnReceivedCommand, after which a closed connection ends the pipeline, then
\* the propagation.
Process ==
    /\ Handling("process")
    /\ LET u == handling.command IN
         \/ /\ CutShort
            /\ UNCHANGED channel
         \/ /\ Continue("register")
            /\ IF KindOf(u) = "bare" THEN UNCHANGED channel ELSE Propagate(u)
            /\ UNCHANGED <<connection, history>>
    /\ UNCHANGED <<tables, now, asked, clientVars, bounds>>

\* The row that RegisterOperation writes; an item of 0 is none.
OperationRow(u) ==
    [key |-> u,
     time |-> now,
     ownership |-> Definition[u].ownership,
     user |-> RelatedUser(u),
     item |-> IF KeyOf(u) \in Keys THEN GetDbId(KeyOf(u)) ELSE 0]

\* RegisterOperation: it throws when the command has no operation uuid.
RegisterOperation ==
    /\ Handling("register")
    /\ IF KindOf(handling.command) = "bare"
       THEN /\ CutShort
            /\ UNCHANGED operations
       ELSE /\ operations' = SaveToDatabase(operations, OperationRow(handling.command))
            /\ Continue("post")
            /\ UNCHANGED <<connection, history>>
    /\ UNCHANGED <<items, now, asked, channel, clientVars, bounds>>

\* OnReceivedCommandPost: the application saves what was not saved before.
PostProcess ==
    /\ Handling("post")
    /\ handling' = Idle
    /\ LET u == handling.command IN
         /\ items' = IF KindOf(u) = "late" THEN SaveToDatabase(items, Item(u)) ELSE items
         /\ cut' = cut \ {u}
         /\ stale' = stale \ {KeyOf(u)}
    /\ UNCHANGED <<operations, now, network, clientVars, bounds>>

-----------------------------------------------------------------------------
(* Synchronisation: ApoapseOperation::ExecuteSyncRequest.                  *)

\* Mutation: one millisecond too late.
SelectedLate(c) ==
    {i \in DOMAIN operations :
       /\ operations[i].time > since[c] + 1
       /\ Concerns(operations[i].ownership, operations[i].user, c)}

\* The ids of the operations that the query selects.
Selected(c) ==
    {i \in DOMAIN operations :
       /\ operations[i].time > since[c]
       /\ Concerns(operations[i].ownership, operations[i].user, c)}

\* The result of a query: the rows with these ids, in the order of the table.
Results(ids) ==
    {[k \in 1..Cardinality(ids) |-> operations[order[k]]] :
       order \in {f \in [1..Cardinality(ids) -> ids] : \A j, k \in DOMAIN f : j < k => f[j] < f[k]}}

\* ReadItemFromDatabase throws when the operation has no item, or an id no row has.
Readable(row) == row.item \in DOMAIN items

SyncMessage(row) == Message(row.key, items[row.item])

\* sync_info: RowCount() of the query.
Announcement(rows) == [type |-> "start_sync", nb |-> Len(rows)]

\* start_sync, when there is anything to synchronise, and the first operations.
SyncMessages(rows, sent) ==
    IF rows = <<>> THEN <<>>
    ELSE <<Announcement(rows)>> \o [k \in 1..sent |-> SyncMessage(rows[k])]

\* What is sent of the rows: all that precede the first that cannot be read.
IsReadUpTo(rows, sent) ==
    /\ \A k \in 1..sent : Readable(rows[k])
    /\ sent < Len(rows) => ~Readable(rows[sent + 1])

\* A client asks for what it has missed.  It will ask from the last instant
\* before this request, once all that is announced has arrived.
ExecuteSyncRequest(c) ==
    /\ handling = Idle
    /\ connection[c] = "on"
    /\ ~asked[c]
    /\ asked' = [asked EXCEPT ![c] = TRUE]
    /\ pending' = [pending EXCEPT ![c] = now - 1]
    /\ \E rows \in Results(Selected(c)) : \E sent \in 0..Len(rows) :
         /\ IsReadUpTo(rows, sent)
         /\ channel' = [channel EXCEPT ![c] = @ \o SyncMessages(rows, sent)]
         /\ connection' = [connection EXCEPT ![c] = IF sent = Len(rows) THEN @ ELSE "closing"]
    /\ UNCHANGED <<tables, now, handling, local, known, remaining, since, history, bounds>>

-----------------------------------------------------------------------------
(* The clients and the network, as the application uses them.              *)

\* A message reaches its client.
Deliver(c) ==
    /\ channel[c] # <<>>
    /\ channel' = [channel EXCEPT ![c] = Tail(@)]
    /\ LET m == Head(channel[c]) IN
         \/ /\ m.type = "start_sync"
            /\ remaining' = [remaining EXCEPT ![c] = m.nb]
            /\ UNCHANGED <<local, known, since, pending>>
         \/ /\ m.type = "command"
            /\ known' = [known EXCEPT ![c] = @ \cup {m.command}]
            /\ local' = IF m.item = EmptyItem THEN local
                        ELSE [local EXCEPT ![c][m.item.key] = m.item.value]
            /\ remaining' = [remaining EXCEPT ![c] = IF @ > 0 THEN @ - 1 ELSE 0]
            /\ IF remaining[c] = 1
               THEN /\ since' = [since EXCEPT ![c] = pending[c]]
                    /\ pending' = [pending EXCEPT ![c] = 0]
               ELSE UNCHANGED <<since, pending>>
    /\ UNCHANGED <<tables, now, handling, connection, asked, history, bounds>>

Connect(c) ==
    /\ handling = Idle
    /\ connection[c] = "off"
    /\ connection' = [connection EXCEPT ![c] = "on"]
    /\ UNCHANGED <<tables, now, handling, asked, channel, clientVars, history, bounds>>

\* The connection is lost, or its Close() executed, with what was on its way.
Disconnect(c) ==
    /\ \/ connection[c] = "on" /\ losses < MaxLosses /\ losses' = losses + 1
       \/ connection[c] = "closing" /\ UNCHANGED losses
    /\ connection' = [connection EXCEPT ![c] = "off"]
    /\ asked' = [asked EXCEPT ![c] = FALSE]
    /\ channel' = [channel EXCEPT ![c] = <<>>]
    /\ remaining' = [remaining EXCEPT ![c] = 0]
    /\ pending' = [pending EXCEPT ![c] = 0]
    /\ UNCHANGED <<tables, now, handling, local, known, since, history, received>>

\* The server stops and starts again: only its tables are left.
Crash ==
    /\ losses < MaxLosses
    /\ losses' = losses + 1
    /\ Interrupted
    /\ connection' = [c \in Clients |-> "off"]
    /\ asked' = [c \in Clients |-> FALSE]
    /\ channel' = [c \in Clients |-> <<>>]
    /\ remaining' = [c \in Clients |-> 0]
    /\ pending' = [c \in Clients |-> 0]
    /\ UNCHANGED <<tables, now, local, known, since, received>>

\* UnixTimestampNow
Tick ==
    /\ now < MaxTime
    /\ now' = now + 1
    /\ UNCHANGED <<tables, handling, network, clientVars, history, bounds>>

Next ==
    \/ \E c \in Clients, u \in Commands : Receive(c, u)
    \/ Save \/ Process \/ RegisterOperation \/ PostProcess
    \/ \E c \in Clients : ExecuteSyncRequest(c) \/ Deliver(c) \/ Connect(c) \/ Disconnect(c)
    \/ Crash \/ Tick

Spec == Init /\ [][Next]_vars

-----------------------------------------------------------------------------
(* Properties.                                                             *)

Items == [key : Keys, value : Commands]
Operation == [key : Commands, time : 1..MaxTime, ownership : Ownerships,
              user : Clients \cup {NoUser}, item : Nat]
Messages == [type : {"start_sync"}, nb : Nat]
              \cup [type : {"command"}, command : Commands, item : Items \cup {EmptyItem}]

\* Every variable keeps its type; every row of a table is a row of its
\* structure.
TypeOK ==
    /\ items \in Seq(Items)
    /\ operations \in Seq(Operation)
    /\ now \in 1..MaxTime
    /\ \/ handling = Idle
       \/ /\ handling.command \in Commands
          /\ handling.step \in {"save", "process", "register", "post"}
    /\ connection \in [Clients -> {"off", "on", "closing"}]
    /\ asked \in [Clients -> BOOLEAN]
    /\ channel \in [Clients -> Seq(Messages)]
    /\ local \in [Clients -> [Keys -> Commands \cup {NoValue}]]
    /\ known \in [Clients -> SUBSET Commands]
    /\ remaining \in [Clients -> Nat]
    /\ since \in [Clients -> 0..MaxTime]
    /\ pending \in [Clients -> 0..MaxTime]
    /\ cut \subseteq Commands
    /\ stale \subseteq Keys
    /\ received \in 0..MaxReceived
    /\ losses \in 0..MaxLosses

\* A command that is received again, after an answer was lost or the server
\* crashed at any statement, updates its rows: no table ever holds two rows
\* with the same unique field (IsAlreadyRegisteredOnDatabase finds one row
\* or none).
Unique(table) == \A i, j \in DOMAIN table : table[i].key = table[j].key => i = j
RowsAreUnique == Unique(items) /\ Unique(operations)

\* An operation whose command was handled to its end, and has an item, refers
\* to the row of that item: also when the row was not there yet and its id was
\* predicted (GetDbId), and whatever was saved before and after.
OperationHasItsItem ==
    \A i \in DOMAIN operations :
      LET row == operations[i] IN
        /\ row.key \notin cut
        /\ row.item # 0
        /\ handling.command # row.key
        => row.item \in DOMAIN items /\ items[row.item].key = KeyOf(row.key)

\* Whoever writes the item with this key, the same clients are told: the
\* library does not see to it, as the ownership is of the command and the
\* sender, not of the item.
OneAudience(key) ==
    \A u, v \in Commands : KeyOf(u) = key /\ KeyOf(v) = key => Audience(u) = Audience(v)

\* A client that has been synchronised on its connection, and has nothing on
\* its way, knows every operation that concerns it and has the server's value
\* of its item: whatever it missed while disconnected, whatever was repeated,
\* lost or cut short, except the items that an interrupted command has left
\* halfway (nothing registers them again), and those that are written by users
\* with different audiences.
Converges ==
    handling = Idle =>
      \A c \in Clients :
        connection[c] = "on" /\ asked[c] /\ channel[c] = <<>> =>
          \A i \in DOMAIN operations :
            LET row == operations[i]
                key == KeyOf(row.key)
            IN Concerns(row.ownership, row.user, c) =>
                 /\ row.key \in known[c]
                 /\ key \in Keys \ stale /\ OneAudience(key) =>
                      \E j \in DOMAIN items :
                        items[j].key = key /\ local[c][key] = items[j].value
=============================================================================
