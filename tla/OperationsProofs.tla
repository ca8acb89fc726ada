-------------------------- MODULE OperationsProofs --------------------------
(***************************************************************************)
(* Theorems about Operations, for any clients, commands, items and bounds. *)
(*                                                                         *)
(* Three inductive invariants, each on the ones before.  Inv is about the  *)
(* tables: that saving is idempotent needs rows that are unique so far,    *)
(* and that an operation has its item needs to follow the id from its      *)
(* prediction to the insertion of the row, through every step at which the *)
(* handler may be cut short.  Typed and AllPromised are about what is on   *)
(* its way to the clients, for what start_sync has announced.  Converging  *)
(* is about what a client will know and hold once what is on its way has   *)
(* arrived: a step is one of six things to each client, and what they do   *)
(* to it is shown once, for all the steps.                                 *)
(***************************************************************************)
EXTENDS Operations, FiniteSetTheorems, SequenceTheorems, TLAPS

Steps == {"none", "save", "process", "register", "post"}

HandlingTyped ==
    /\ handling \in [command : Commands \cup {NoValue}, step : Steps]
    /\ handling.step = "none" => handling = Idle
    /\ handling.step # "none" => handling.command \in Commands

TablesTyped ==
    /\ items \in Seq(Items)
    /\ operations \in Seq(Operation)
    /\ now \in 1..MaxTime

Present(table, key) == \E i \in DOMAIN table : table[i].key = key

\* A command that is saved when it is received has its row from then on.
AutoSaved ==
    handling.step \in {"process", "register", "post"} /\ KindOf(handling.command) = "auto"
      => Present(items, KeyOf(handling.command))

RefersTo(row) == row.item \in DOMAIN items /\ items[row.item].key = KeyOf(row.key)

\* The operation just registered, whose item is not written yet.
Registering(row) == handling.step = "post" /\ handling.command = row.key
Predicted(row) == Registering(row) /\ row.item = GetDbId(KeyOf(row.key))

ItemKnown(row) ==
    /\ row.item # 0 => KeyOf(row.key) \in Keys
    /\ row.item # 0 /\ (row.key \notin cut \/ Registering(row))
         => RefersTo(row) \/ Predicted(row)

RowsKnown == \A i \in DOMAIN operations : ItemKnown(operations[i])

Inv ==
    /\ HandlingTyped
    /\ TablesTyped
    /\ RowsAreUnique
    /\ AutoSaved
    /\ RowsKnown

-----------------------------------------------------------------------------
(* Tables.                                                                 *)

\* In a table whose rows are unique, IsAlreadyRegisteredOnDatabase says
\* whether a row has the key.
LEMMA RegisteredIsPresent ==
  ASSUME NEW table, Unique(table), NEW key
  PROVE  IsAlreadyRegistered(table, key) <=> Present(table, key)
  <1> DEFINE R == {i \in DOMAIN table : table[i].key = key}
  <1>1. CASE Present(table, key)
    <2>1. PICK i \in DOMAIN table : table[i].key = key
      BY <1>1 DEF Present
    <2>2. R = {i}
      BY <2>1 DEF Unique
    <2>3. Cardinality(R) = 1
      BY <2>2, FS_Singleton
    <2>4. QED
      BY <1>1, <2>3 DEF IsAlreadyRegistered
  <1>2. CASE ~Present(table, key)
    <2>1. R = {}
      BY <1>2 DEF Present
    <2>2. Cardinality(R) = 0
      BY <2>1, FS_EmptySet
    <2>3. QED
      BY <1>2, <2>2 DEF IsAlreadyRegistered
  <1>3. QED
    BY <1>1, <1>2

\* What SaveToDatabase does to a table whose rows are unique: they stay
\* unique and keep their places, every other row is as it was, and a row that
\* is new comes last.
SavedIn(S, table, row, saved) ==
    /\ saved \in Seq(S)
    /\ Unique(saved)
    /\ \A i \in DOMAIN table : i \in DOMAIN saved /\ saved[i].key = table[i].key
    /\ \A i \in DOMAIN saved :
         \/ saved[i] = row
         \/ i \in DOMAIN table /\ saved[i] = table[i] /\ table[i].key # row.key
    /\ Present(saved, row.key)
    /\ ~Present(table, row.key) =>
         Len(table) + 1 \in DOMAIN saved /\ saved[Len(table) + 1] = row

LEMMA SavedTable ==
  ASSUME NEW S, NEW table \in Seq(S), Unique(table), NEW row \in S
  PROVE  SavedIn(S, table, row, SaveToDatabase(table, row))
  <1> DEFINE saved == SaveToDatabase(table, row)
  <1>1. Len(table) \in Nat /\ DOMAIN table = 1..Len(table)
        /\ \A i \in DOMAIN table : table[i] \in S
    BY LenProperties, ElementOfSeq
  <1>2. CASE Present(table, row.key)
    <2>1. saved = [i \in DOMAIN table |-> IF table[i].key = row.key THEN row ELSE table[i]]
      BY <1>2, RegisteredIsPresent DEF SaveToDatabase
    <2>2. saved \in [1..Len(table) -> S]
      BY <1>1, <2>1
    <2>3. saved \in Seq(S)
      BY <1>1, <2>2, SeqDef
    <2>4. \A i \in DOMAIN table : i \in DOMAIN saved /\ saved[i].key = table[i].key
      BY <2>1
    <2>5. Unique(saved)
      BY <2>1, <2>4 DEF Unique
    <2>6. \A i \in DOMAIN saved :
            \/ saved[i] = row
            \/ i \in DOMAIN table /\ saved[i] = table[i] /\ table[i].key # row.key
      BY <2>1
    <2>7. Present(saved, row.key)
      BY <1>2, <2>4 DEF Present
    <2>8. QED
      BY <1>2, <2>3, <2>4, <2>5, <2>6, <2>7 DEF SavedIn
  <1>3. CASE ~Present(table, row.key)
    <2>1. saved = Append(table, row)
      BY <1>3, RegisteredIsPresent DEF SaveToDatabase
    <2>2. saved \in Seq(S) /\ Len(saved) = Len(table) + 1 /\ DOMAIN saved = 1..(Len(table) + 1)
      BY <1>1, <2>1
    <2>3. saved[Len(table) + 1] = row /\ Len(table) + 1 \in DOMAIN saved
      BY <1>1, <2>1, <2>2
    <2>4. \A i \in DOMAIN table : i \in DOMAIN saved /\ saved[i] = table[i]
      BY <1>1, <2>1, <2>2
    <2>5. \A i \in DOMAIN saved : i = Len(table) + 1 \/ i \in DOMAIN table
      BY <1>1, <2>2
    <2>6. \A i \in DOMAIN table : table[i].key # row.key
      BY <1>3 DEF Present
    <2>7. Unique(saved)
      BY <2>3, <2>4, <2>5, <2>6 DEF Unique
    <2>8. Present(saved, row.key)
      BY <2>3 DEF Present
    <2>9. QED
      BY <1>3, <2>2, <2>3, <2>4, <2>5, <2>6, <2>7, <2>8 DEF SavedIn
  <1>4. QED
    BY <1>2, <1>3

\* GetDbId returns the id of the item, or the one its insertion will give.
LEMMA GetDbIdIsItsId ==
  ASSUME TablesTyped, NEW key
  PROVE  /\ Present(items, key) =>
              GetDbId(key) \in DOMAIN items /\ items[GetDbId(key)].key = key
         /\ ~Present(items, key) => GetDbId(key) = Len(items) + 1
         /\ GetDbId(key) \in Nat
  <1>1. Len(items) \in Nat /\ DOMAIN items = 1..Len(items)
    BY LenProperties DEF TablesTyped
  <1>2. CASE Present(items, key)
    <2>1. GetDbId(key) = CHOOSE i \in DOMAIN items : items[i].key = key
      BY <1>2 DEF GetDbId, Present
    <2>2. GetDbId(key) \in DOMAIN items /\ items[GetDbId(key)].key = key
      BY <1>2, <2>1 DEF Present
    <2>3. QED
      BY <1>1, <1>2, <2>2
  <1>3. CASE ~Present(items, key)
    BY <1>1, <1>3 DEF GetDbId, Present
  <1>4. QED
    BY <1>2, <1>3

-----------------------------------------------------------------------------
(* Every initial state satisfies the invariant.                            *)

LEMMA InitInv == Init => Inv
  <1> SUFFICES ASSUME Init PROVE Inv
    OBVIOUS
  <1> USE OperationsAssumption DEF Init
  <1>1. HandlingTyped
    BY DEF HandlingTyped, Idle, Steps
  <1>2. TablesTyped
    BY EmptySeq DEF TablesTyped
  <1>3. RowsAreUnique
    BY DEF RowsAreUnique, Unique
  <1>4. AutoSaved
    BY DEF AutoSaved, Idle
  <1>5. RowsKnown
    BY DEF RowsKnown
  <1>6. QED
    BY <1>1, <1>2, <1>3, <1>4, <1>5 DEF Inv

-----------------------------------------------------------------------------
(* What several steps have in common.                                      *)

\* While no operation is between its registration and its item, every row
\* whose command was not cut short refers to its item.
LEMMA Settled ==
  ASSUME RowsKnown, handling.step # "post", NEW i \in DOMAIN operations,
         operations[i].key \notin cut, operations[i].item # 0
  PROVE  RefersTo(operations[i])
  BY DEF RowsKnown, ItemKnown, Predicted, Registering

\* Saving an item keeps what the rows of operations refer to.
LEMMA ReferencesKept ==
  ASSUME NEW row,
         \A i \in DOMAIN items : i \in DOMAIN items' /\ items'[i].key = items[i].key,
         RefersTo(row)
  PROVE  RefersTo(row)'
  BY DEF RefersTo

\* The row of a command without a step of its own being handled: a step that
\* leaves the operations alone, keeps the items and cuts no command short
\* preserves RowsKnown.
LEMMA RowsKept ==
  ASSUME RowsKnown, handling.step # "post", handling'.step # "post",
         UNCHANGED <<operations, cut>>,
         \A i \in DOMAIN items : i \in DOMAIN items' /\ items'[i].key = items[i].key
  PROVE  RowsKnown'
  <1> SUFFICES ASSUME NEW i \in DOMAIN operations PROVE ItemKnown(operations[i])'
    BY DEF RowsKnown
  <1>1. operations[i].item # 0 => KeyOf(operations[i].key) \in Keys
    BY DEF RowsKnown, ItemKnown
  <1>2. ASSUME operations[i].item # 0, operations[i].key \notin cut
        PROVE  RefersTo(operations[i])'
    BY <1>2, Settled, ReferencesKept
  <1>3. QED
    BY <1>1, <1>2 DEF ItemKnown, Registering, KeyOf

\* A handler that is cut short, by a crash, an exception or a Close(),
\* preserves the invariant: the operation it was registering is either cut or
\* has its item already.
LEMMA InterruptedInv ==
  ASSUME Inv, Interrupted, UNCHANGED <<items, operations, now>>
  PROVE  Inv'
  <1> USE OperationsAssumption
  <1>1. HandlingTyped'
    BY DEF Inv, Interrupted, HandlingTyped, Idle, Steps
  <1>2. TablesTyped' /\ RowsAreUnique'
    BY DEF Inv, TablesTyped, RowsAreUnique, Unique
  <1>3. AutoSaved'
    BY DEF Interrupted, AutoSaved, Idle
  <1>4. RowsKnown'
    <2> SUFFICES ASSUME NEW i \in DOMAIN operations PROVE ItemKnown(operations[i])'
      BY DEF RowsKnown
    <2> DEFINE row == operations[i]
    <2>1. ItemKnown(row)
      BY DEF Inv, RowsKnown
    <2>2. ~Registering(row)'
      BY DEF Interrupted, Registering, Idle
    <2>3. cut \subseteq cut'
      BY DEF Interrupted, history
    <2>4. ASSUME row.item # 0, row.key \notin cut' PROVE RefersTo(row)
      <3>1. RefersTo(row) \/ Predicted(row)
        BY <2>1, <2>3, <2>4 DEF ItemKnown
      <3>2. CASE Predicted(row)
        <4>1. handling.step = "post" /\ handling.command = row.key /\ handling # Idle
          BY <3>2 DEF Predicted, Registering, Idle
        <4>2. row.key \in Commands /\ KeyOf(row.key) \in Keys
          BY <2>1, <2>4, <4>1 DEF Inv, HandlingTyped, ItemKnown
        <4>3. KindOf(row.key) \in {"auto", "late"}
          BY <4>2 DEF KeyOf, KindOf
        <4>4. KindOf(row.key) # "late"
          BY <2>4, <4>1 DEF Interrupted, Halfway
        <4>5. Present(items, KeyOf(row.key))
          BY <4>1, <4>3, <4>4 DEF Inv, AutoSaved
        <4>6. QED
          BY <3>2, <4>5, GetDbIdIsItsId DEF Predicted, RefersTo, Inv
      <3>3. QED
        BY <3>1, <3>2
    <2>5. RefersTo(row) => RefersTo(row)'
      BY DEF RefersTo
    <2>6. (row.item # 0 => KeyOf(row.key) \in Keys)'
      BY <2>1 DEF ItemKnown, KeyOf
    <2>7. QED
      BY <2>2, <2>4, <2>5, <2>6 DEF ItemKnown
  <1>5. QED
    BY <1>1, <1>2, <1>3, <1>4 DEF Inv

\* Steps of the network, the clients and the clock touch none of it.
LEMMA OthersInv ==
  ASSUME Inv, UNCHANGED <<tables, handling, history>>, now' \in 1..MaxTime
  PROVE  Inv'
  <1> USE DEF tables, history
  <1>1. HandlingTyped' /\ TablesTyped' /\ RowsAreUnique'
    BY DEF Inv, HandlingTyped, TablesTyped, RowsAreUnique, Unique
  <1>2. AutoSaved'
    BY DEF Inv, AutoSaved, Present
  <1>3. RowsKnown'
    <2>1. \A row : ItemKnown(row) => ItemKnown(row)'
      BY DEF ItemKnown, RefersTo, Predicted, Registering, GetDbId
    <2>2. QED
      BY <2>1 DEF Inv, RowsKnown
  <1>4. QED
    BY <1>1, <1>2, <1>3 DEF Inv

-----------------------------------------------------------------------------
(* Every step preserves the invariant: the steps of the pipeline.          *)

\* An item that is saved is a row of its table.
LEMMA ItemTyped ==
  ASSUME NEW u \in Commands, KindOf(u) \in {"auto", "late"}
  PROVE  Item(u) \in Items /\ Item(u).key = KeyOf(u)
  BY OperationsAssumption DEF Item, Items, KeyOf, KindOf

LEMMA ReceiveInv ==
  ASSUME Inv, NEW c \in Clients, NEW u \in Commands, Receive(c, u)
  PROVE  Inv'
  <1> USE DEF Receive, tables, history
  <1>1. HandlingTyped'
    BY OperationsAssumption DEF HandlingTyped, Idle, Steps
  <1>2. TablesTyped' /\ RowsAreUnique'
    BY DEF Inv, TablesTyped, RowsAreUnique, Unique
  <1>3. AutoSaved'
    BY DEF AutoSaved
  <1>4. RowsKnown'
    BY RowsKept DEF Inv, Idle
  <1>5. QED
    BY <1>1, <1>2, <1>3, <1>4 DEF Inv

LEMMA SaveInv ==
  ASSUME Inv, Save
  PROVE  Inv'
  <1> DEFINE u == handling.command
  <1>0. /\ handling.step = "save"
        /\ u \in Commands
        /\ handling' = [handling EXCEPT !.step = "process"]
        /\ UNCHANGED <<operations, now, cut>>
    BY DEF Save, Handling, Continue, Inv, HandlingTyped, history
  <1>1. HandlingTyped'
    BY <1>0, OperationsAssumption DEF Inv, HandlingTyped, Idle, Steps
  <1>2. /\ items' \in Seq(Items)
        /\ Unique(items)'
        /\ \A i \in DOMAIN items : i \in DOMAIN items' /\ items'[i].key = items[i].key
        /\ KindOf(u) = "auto" => Present(items', KeyOf(u))
    <2>1. CASE KindOf(u) = "auto"
      <3>1. items' = SaveToDatabase(items, Item(u))
        BY <2>1 DEF Save
      <3>2. Item(u) \in Items /\ Item(u).key = KeyOf(u)
        BY <1>0, <2>1, ItemTyped
      <3>3. items \in Seq(Items) /\ Unique(items)
        BY DEF Inv, TablesTyped, RowsAreUnique
      <3>4. SavedIn(Items, items, Item(u), items')
        BY <3>1, <3>2, <3>3, SavedTable
      <3>5. QED
        BY <3>2, <3>4 DEF SavedIn, Unique
    <2>2. CASE KindOf(u) # "auto"
      <3>1. items' = items
        BY <2>2 DEF Save
      <3>2. QED
        BY <2>2, <3>1 DEF Inv, TablesTyped, RowsAreUnique, Unique
    <2>3. QED
      BY <2>1, <2>2
  <1>3. TablesTyped' /\ RowsAreUnique'
    BY <1>0, <1>2 DEF Inv, TablesTyped, RowsAreUnique, Unique
  <1>4. AutoSaved'
    <2>1. handling'.command = u
      BY <1>0 DEF Inv, HandlingTyped
    <2>2. QED
      BY <1>2, <2>1 DEF AutoSaved, KindOf, KeyOf, Present
  <1>5. RowsKnown'
    <2>1. handling'.step # "post"
      BY <1>0 DEF Inv, HandlingTyped
    <2>2. QED
      BY <1>0, <1>2, <2>1, RowsKept DEF Inv
  <1>6. QED
    BY <1>1, <1>3, <1>4, <1>5 DEF Inv

LEMMA ProcessInv ==
  ASSUME Inv, Process
  PROVE  Inv'
  <1> USE DEF tables
  <1>1. CASE CutShort
    BY <1>1, InterruptedInv DEF CutShort, Process
  <1>2. CASE Continue("register") /\ UNCHANGED history
    <2>0. /\ handling.step = "process"
          /\ handling.command \in Commands
          /\ handling' = [handling EXCEPT !.step = "register"]
          /\ UNCHANGED <<items, operations, now, cut>>
      BY <1>2 DEF Process, Handling, Continue, Inv, HandlingTyped, history
    <2>1. HandlingTyped'
      BY <2>0, OperationsAssumption DEF Inv, HandlingTyped, Idle, Steps
    <2>2. TablesTyped' /\ RowsAreUnique'
      BY <2>0 DEF Inv, TablesTyped, RowsAreUnique, Unique
    <2>3. handling'.step = "register" /\ handling'.command = handling.command
      BY <2>0 DEF Inv, HandlingTyped
    <2>4. AutoSaved'
      BY <2>0, <2>3 DEF Inv, AutoSaved, KindOf, KeyOf, Present
    <2>5. RowsKnown'
      BY <2>0, <2>3, RowsKept DEF Inv
    <2>6. QED
      BY <2>1, <2>2, <2>4, <2>5 DEF Inv
  <1>3. QED
    BY <1>1, <1>2 DEF Process

\* The operation's row: its item is there, or its id is predicted.
LEMMA OperationRowKnown ==
  ASSUME Inv, NEW u \in Commands
  PROVE  /\ OperationRow(u) \in Operation
         /\ OperationRow(u).key = u
         /\ OperationRow(u).item # 0 =>
              KeyOf(u) \in Keys /\ OperationRow(u).item = GetDbId(KeyOf(u))
  <1>1. RelatedUser(u) \in Clients \cup {NoUser} /\ Definition[u].ownership \in Ownerships
    BY OperationsAssumption DEF RelatedUser
  <1>2. GetDbId(KeyOf(u)) \in Nat
    BY GetDbIdIsItsId DEF Inv
  <1>3. QED
    BY <1>1, <1>2 DEF OperationRow, Operation, Inv, TablesTyped

LEMMA RegisterInv ==
  ASSUME Inv, RegisterOperation
  PROVE  Inv'
  <1> DEFINE u == handling.command
             row == OperationRow(u)
  <1>1. CASE KindOf(u) = "bare"
    BY <1>1, InterruptedInv DEF RegisterOperation, CutShort
  <1>2. CASE KindOf(u) # "bare"
    <2>0. /\ handling.step = "register"
          /\ u \in Commands
          /\ handling' = [handling EXCEPT !.step = "post"]
          /\ operations' = SaveToDatabase(operations, row)
          /\ UNCHANGED <<items, now, cut>>
      BY <1>2 DEF RegisterOperation, Handling, Continue, Inv, HandlingTyped, history
    <2>1. HandlingTyped'
      BY <2>0, OperationsAssumption DEF Inv, HandlingTyped, Idle, Steps
    <2>2. handling'.step = "post" /\ handling'.command = u
      BY <2>0 DEF Inv, HandlingTyped
    <2>3. /\ row \in Operation
          /\ row.key = u
          /\ row.item # 0 => KeyOf(u) \in Keys /\ row.item = GetDbId(KeyOf(u))
      BY <2>0, OperationRowKnown
    <2>4. /\ operations' \in Seq(Operation)
          /\ Unique(operations')
          /\ \A i \in DOMAIN operations' :
               \/ operations'[i] = row
               \/ /\ i \in DOMAIN operations
                  /\ operations'[i] = operations[i]
                  /\ operations[i].key # u
      <3>1. operations \in Seq(Operation) /\ Unique(operations)
        BY DEF Inv, TablesTyped, RowsAreUnique
      <3>2. SavedIn(Operation, operations, row, operations')
        BY <2>0, <2>3, <3>1, SavedTable
      <3>3. QED
        BY <2>3, <3>2 DEF SavedIn
    <2>5. TablesTyped' /\ RowsAreUnique'
      BY <2>0, <2>4 DEF Inv, TablesTyped, RowsAreUnique, Unique
    <2>6. AutoSaved'
      BY <2>0, <2>2 DEF Inv, AutoSaved, KindOf, KeyOf, Present
    <2>7. RowsKnown'
      <3> SUFFICES ASSUME NEW i \in DOMAIN operations' PROVE ItemKnown(operations[i])'
        BY DEF RowsKnown
      <3>1. CASE operations'[i] = row
        <4>1. row.item # 0 => Predicted(operations[i])'
          BY <2>0, <2>2, <2>3, <3>1 DEF Predicted, Registering, GetDbId, KeyOf
        <4>2. QED
          BY <2>3, <3>1, <4>1 DEF ItemKnown, KeyOf
      <3>2. CASE /\ i \in DOMAIN operations
                 /\ operations'[i] = operations[i]
                 /\ operations[i].key # u
        <4>1. ~Registering(operations[i])'
          BY <2>2, <3>2 DEF Registering
        <4>2. operations[i].item # 0 => KeyOf(operations[i].key) \in Keys
          BY <3>2 DEF Inv, RowsKnown, ItemKnown
        <4>3. operations[i].item # 0 /\ operations[i].key \notin cut => RefersTo(operations[i])
          BY <2>0, <3>2, Settled DEF Inv
        <4>4. QED
          BY <2>0, <3>2, <4>1, <4>2, <4>3 DEF ItemKnown, RefersTo, KeyOf
      <3>3. QED
        BY <2>4, <3>1, <3>2
    <2>8. QED
      BY <2>1, <2>5, <2>6, <2>7 DEF Inv
  <1>3. QED
    BY <1>1, <1>2

LEMMA PostProcessInv ==
  ASSUME Inv, PostProcess
  PROVE  Inv'
  <1> DEFINE u == handling.command
  <1>0. /\ handling.step = "post"
        /\ u \in Commands
        /\ handling' = Idle
        /\ UNCHANGED <<operations, now>>
        /\ cut' = cut \ {u}
    BY DEF PostProcess, Handling, Inv, HandlingTyped
  <1>1. HandlingTyped'
    BY <1>0 DEF HandlingTyped, Idle, Steps
  <1>2. /\ items' \in Seq(Items)
        /\ Unique(items')
        /\ \A i \in DOMAIN items : i \in DOMAIN items' /\ items'[i].key = items[i].key
        /\ KindOf(u) = "late" /\ ~Present(items, KeyOf(u)) =>
             Len(items) + 1 \in DOMAIN items' /\ items'[Len(items) + 1].key = KeyOf(u)
    <2>1. CASE KindOf(u) = "late"
      <3>1. items' = SaveToDatabase(items, Item(u))
        BY <2>1 DEF PostProcess
      <3>2. Item(u) \in Items /\ Item(u).key = KeyOf(u)
        BY <1>0, <2>1, ItemTyped
      <3>3. items \in Seq(Items) /\ Unique(items)
        BY DEF Inv, TablesTyped, RowsAreUnique
      <3>4. SavedIn(Items, items, Item(u), items')
        BY <3>1, <3>2, <3>3, SavedTable
      <3>5. QED
        BY <3>2, <3>4 DEF SavedIn
    <2>2. CASE KindOf(u) # "late"
      <3>1. items' = items
        BY <2>2 DEF PostProcess
      <3>2. QED
        BY <2>2, <3>1 DEF Inv, TablesTyped, RowsAreUnique
    <2>3. QED
      BY <2>1, <2>2
  <1>3. TablesTyped' /\ RowsAreUnique'
    BY <1>0, <1>2 DEF Inv, TablesTyped, RowsAreUnique, Unique
  <1>4. AutoSaved'
    BY <1>0 DEF AutoSaved, Idle
  <1>5. RowsKnown'
    <2> SUFFICES ASSUME NEW i \in DOMAIN operations PROVE ItemKnown(operations[i])'
      BY <1>0 DEF RowsKnown
    <2> DEFINE row == operations[i]
    <2>1. ItemKnown(row)
      BY DEF Inv, RowsKnown
    <2>2. ASSUME row.item # 0, row.key \notin cut' PROVE RefersTo(row) \/ Predicted(row)
      BY <1>0, <2>1, <2>2 DEF ItemKnown, Registering
    <2>3. ASSUME RefersTo(row) PROVE RefersTo(row)'
      BY <1>0, <1>2, <2>3 DEF RefersTo, KeyOf
    <2>4. ASSUME Predicted(row), row.item # 0 PROVE RefersTo(row)'
      <3>1. row.key = u /\ row.item = GetDbId(KeyOf(u)) /\ KeyOf(u) \in Keys
        BY <2>1, <2>4 DEF Predicted, Registering, ItemKnown
      <3>2. KindOf(u) \in {"auto", "late"}
        BY <1>0, <3>1, OperationsAssumption DEF KeyOf, KindOf
      <3>3. CASE Present(items, KeyOf(u))
        <4>1. RefersTo(row)
          BY <3>1, <3>3, GetDbIdIsItsId DEF RefersTo, Inv
        <4>2. QED
          BY <2>3, <4>1
      <3>4. CASE ~Present(items, KeyOf(u))
        <4>1. KindOf(u) = "late"
          BY <1>0, <3>2, <3>4 DEF Inv, AutoSaved
        <4>2. row.item = Len(items) + 1
          BY <3>1, <3>4, GetDbIdIsItsId DEF Inv
        <4>3. row.item \in DOMAIN items' /\ items'[row.item].key = KeyOf(row.key)
          BY <1>2, <3>1, <3>4, <4>1, <4>2
        <4>4. QED
          BY <1>0, <4>3 DEF RefersTo, KeyOf
      <3>5. QED
        BY <3>3, <3>4
    <2>5. ~Registering(row)' /\ (row.item # 0 => KeyOf(row.key) \in Keys)'
      BY <1>0, <2>1 DEF Registering, Idle, ItemKnown, KeyOf
    <2>6. row' = row
      BY <1>0
    <2>7. QED
      BY <2>2, <2>3, <2>4, <2>5, <2>6 DEF ItemKnown
  <1>6. QED
    BY <1>1, <1>3, <1>4, <1>5 DEF Inv

-----------------------------------------------------------------------------
(* Every step preserves the invariant.                                     *)

LEMMA NextInv == Inv /\ [Next]_vars => Inv'
  <1> SUFFICES ASSUME Inv, [Next]_vars PROVE Inv'
    OBVIOUS
  <1>0. now \in 1..MaxTime /\ MaxTime \in Nat
    BY OperationsAssumption DEF Inv, TablesTyped
  <1>1. ASSUME NEW c \in Clients, NEW u \in Commands, Receive(c, u) PROVE Inv'
    BY <1>1, ReceiveInv
  <1>2. CASE Save
    BY <1>2, SaveInv
  <1>3. CASE Process
    BY <1>3, ProcessInv
  <1>4. CASE RegisterOperation
    BY <1>4, RegisterInv
  <1>5. CASE PostProcess
    BY <1>5, PostProcessInv
  <1>6. ASSUME NEW c \in Clients,
               ExecuteSyncRequest(c) \/ Deliver(c) \/ Connect(c) \/ Disconnect(c)
        PROVE  Inv'
    <2>1. UNCHANGED <<tables, handling, history, now>>
      BY <1>6 DEF ExecuteSyncRequest, Deliver, Connect, Disconnect
    <2>2. QED
      BY <1>0, <2>1, OthersInv
  <1>7. CASE Crash
    BY <1>7, InterruptedInv DEF Crash, tables
  <1>8. CASE Tick
    <2>1. UNCHANGED <<tables, handling, history>> /\ now' \in 1..MaxTime
      BY <1>0, <1>8 DEF Tick
    <2>2. QED
      BY <2>1, OthersInv
  <1>9. CASE UNCHANGED vars
    <2>1. UNCHANGED <<tables, handling, history, now>>
      BY <1>9 DEF vars
    <2>2. QED
      BY <1>0, <2>1, OthersInv
  <1>10. QED
    BY <1>1, <1>2, <1>3, <1>4, <1>5, <1>6, <1>7, <1>8, <1>9 DEF Next

LEMMA Invariance == Spec => []Inv
  <1>1. Init => Inv
    BY InitInv
  <1>2. Inv /\ [Next]_vars => Inv'
    BY NextInv
  <1>3. QED
    BY <1>1, <1>2, PTL DEF Spec

-----------------------------------------------------------------------------
(* What is in the tables.                                                  *)

\* Saving is idempotent: whatever is received again, and wherever the server
\* crashed before, no table holds two rows with the same unique field.
THEOREM SavingIsIdempotent == Spec => []RowsAreUnique
  <1>1. Inv => RowsAreUnique
    BY DEF Inv
  <1>2. QED
    BY <1>1, Invariance, PTL

\* The operation of a command handled to its end refers to the row of its
\* item, whether that row was there or its id was predicted (GetDbId).
THEOREM PredictedIdIsRight == Spec => []OperationHasItsItem
  <1>1. Inv => OperationHasItsItem
    <2> SUFFICES ASSUME Inv, NEW i \in DOMAIN operations,
                        operations[i].key \notin cut,
                        operations[i].item # 0,
                        handling.command # operations[i].key
                 PROVE  RefersTo(operations[i])
      BY DEF OperationHasItsItem, RefersTo
    <2>1. ItemKnown(operations[i]) /\ ~Predicted(operations[i])
      BY DEF Inv, RowsKnown, Predicted, Registering
    <2>2. QED
      BY <2>1 DEF ItemKnown
  <1>2. QED
    BY <1>1, Invariance, PTL

-----------------------------------------------------------------------------
(* What is sent, and how many messages that is.                            *)

NetworkTyped ==
    /\ connection \in [Clients -> {"off", "on", "closing"}]
    /\ asked \in [Clients -> BOOLEAN]
    /\ channel \in [Clients -> Seq(Messages)]

ClientsTyped ==
    /\ local \in [Clients -> [Keys -> Commands \cup {NoValue}]]
    /\ known \in [Clients -> SUBSET Commands]
    /\ remaining \in [Clients -> Nat]
    /\ since \in [Clients -> 0..MaxTime]
    /\ pending \in [Clients -> 0..MaxTime]

HistoryTyped ==
    /\ cut \subseteq Commands
    /\ stale \subseteq Keys
    /\ received \in 0..MaxReceived
    /\ losses \in 0..MaxLosses

Typed == NetworkTyped /\ ClientsTyped /\ HistoryTyped

\* The message that tells a client of a command being handled.
TellOf(u) == Message(u, IF KeyOf(u) \in Keys THEN Item(u) ELSE EmptyItem)

LEMMA MessagesTyped ==
  /\ \A u \in Commands : TellOf(u) \in Messages
  /\ \A u \in Commands, item \in Items : Message(u, item) \in Messages
  /\ \A n \in Nat : [type |-> "start_sync", nb |-> n] \in Messages
  <1>1. ASSUME NEW u \in Commands PROVE TellOf(u) \in Messages
    <2>1. CASE KeyOf(u) \in Keys
      BY <2>1 DEF TellOf, Message, Item, Items, Messages
    <2>2. CASE KeyOf(u) \notin Keys
      BY <2>2 DEF TellOf, Message, EmptyItem, Messages
    <2>3. QED
      BY <2>1, <2>2
  <1>2. QED
    BY <1>1 DEF Message, Messages

\* What a query selects.
LEMMA SelectedRows ==
  ASSUME TablesTyped, NEW ids \in SUBSET DOMAIN operations, NEW rows \in Results(ids)
  PROVE  /\ rows \in Seq(Operation)
         /\ Len(rows) \in Nat /\ DOMAIN rows = 1..Len(rows)
         /\ \A k \in 1..Len(rows) : \E i \in ids : rows[k] = operations[i]
         /\ \A i \in ids : \E k \in 1..Len(rows) : rows[k] = operations[i]
  <1> DEFINE n == Cardinality(ids)
  <1>1. Len(operations) \in Nat /\ DOMAIN operations = 1..Len(operations)
        /\ \A i \in DOMAIN operations : operations[i] \in Operation
    BY LenProperties, ElementOfSeq DEF TablesTyped
  <1>2. IsFiniteSet(ids) /\ n \in Nat
    <2>1. IsFiniteSet(1..Len(operations)) /\ ids \in SUBSET (1..Len(operations))
      BY <1>1, FS_Interval
    <2>2. IsFiniteSet(ids)
      BY ONLY <2>1, FS_Subset
    <2>3. QED
      BY <2>2, FS_CardinalityType
  <1>3. PICK f \in [1..n -> ids] :
          /\ \A j, k \in DOMAIN f : j < k => f[j] < f[k]
          /\ rows = [k \in 1..n |-> operations[f[k]]]
    BY DEF Results
  <1>4. rows \in [1..n -> Operation]
    BY <1>1, <1>3
  <1>5. rows \in Seq(Operation) /\ Len(rows) = n /\ DOMAIN rows = 1..n
    BY <1>2, <1>4, SeqDef, LenProperties
  <1>6. \A i \in ids : \E k \in 1..n : f[k] = i
    <2>1. IsFiniteSet(1..n) /\ Cardinality(1..n) = n
      BY <1>2, FS_Interval
    <2>2. f \in Injection(1..n, ids)
      <3>1. \A j \in 1..n : f[j] \in Nat
        BY <1>1, <1>3
      <3>2. \A j, k \in 1..n : f[j] = f[k] => j = k
        BY <1>2, <1>3, <3>1
      <3>3. QED
        BY <1>3, <3>2 DEF Injection, IsInjective
    <2>3. f \in Surjection(1..n, ids)
      BY <1>2, <2>1, <2>2, FS_Injection
    <2>4. QED
      BY <2>3 DEF Surjection
  <1>7. QED
    BY <1>2, <1>3, <1>5, <1>6

\* A sequence followed by another: where the elements of both are.
LEMMA Concatenated ==
  ASSUME NEW S, NEW s \in Seq(S), NEW t \in Seq(S)
  PROVE  /\ s \o t \in Seq(S) /\ Len(s) \in Nat /\ Len(t) \in Nat
         /\ DOMAIN s = 1..Len(s) /\ DOMAIN t = 1..Len(t)
         /\ Len(s \o t) = Len(s) + Len(t)
         /\ DOMAIN (s \o t) = 1..(Len(s) + Len(t))
         /\ \A i \in 1..Len(s) : (s \o t)[i] = s[i]
         /\ \A i \in 1..Len(t) : (s \o t)[Len(s) + i] = t[i]
         /\ \A i \in 1..(Len(s) + Len(t)) : i > Len(s) => \E k \in 1..Len(t) : i = Len(s) + k
  <1>1. Len(s) \in Nat /\ Len(t) \in Nat /\ DOMAIN s = 1..Len(s) /\ DOMAIN t = 1..Len(t)
    BY LenProperties
  <1>2. s \o t \in Seq(S) /\ Len(s \o t) = Len(s) + Len(t)
    BY ConcatProperties
  <1>3. DOMAIN (s \o t) = 1..(Len(s) + Len(t))
    BY <1>2, LenProperties
  <1>4. \A i \in 1..(Len(s) + Len(t)) : (s \o t)[i] = IF i <= Len(s) THEN s[i] ELSE t[i - Len(s)]
    BY ConcatProperties
  <1>5. \A i \in 1..Len(s) : (s \o t)[i] = s[i]
    BY <1>1, <1>4
  <1>6. \A i \in 1..Len(t) : (s \o t)[Len(s) + i] = t[i]
    BY <1>1, <1>4
  <1>7. ASSUME NEW i \in 1..(Len(s) + Len(t)), i > Len(s)
        PROVE  i - Len(s) \in 1..Len(t) /\ i = Len(s) + (i - Len(s))
    BY <1>1, <1>7
  <1>8. QED
    BY <1>1, <1>2, <1>3, <1>5, <1>6, <1>7

LEMMA Prepended ==
  ASSUME NEW S, NEW e \in S, NEW t \in Seq(S)
  PROVE  /\ <<e>> \o t \in Seq(S)
         /\ Len(<<e>> \o t) = Len(t) + 1
         /\ (<<e>> \o t)[1] = e
         /\ \A k \in 1..Len(t) : (<<e>> \o t)[k + 1] = t[k]
  <1> DEFINE s == <<e>>
  <1>1. s \in Seq(S) /\ Len(s) = 1 /\ s[1] = e
    OBVIOUS
  <1> HIDE DEF s
  <1>2. /\ s \o t \in Seq(S) /\ Len(t) \in Nat
        /\ Len(s \o t) = 1 + Len(t)
        /\ \A i \in 1..1 : (s \o t)[i] = s[i]
        /\ \A i \in 1..Len(t) : (s \o t)[1 + i] = t[i]
    <2>1. /\ s \o t \in Seq(S) /\ Len(t) \in Nat
          /\ Len(s \o t) = Len(s) + Len(t)
          /\ \A i \in 1..Len(s) : (s \o t)[i] = s[i]
          /\ \A i \in 1..Len(t) : (s \o t)[Len(s) + i] = t[i]
      BY ONLY <1>1, t \in Seq(S), Concatenated
    <2>2. QED
      BY <1>1, <2>1
  <1>3. \A k \in 1..Len(t) : 1 + k = k + 1
    BY <1>2
  <1>4. /\ s \o t \in Seq(S) /\ Len(s \o t) = Len(t) + 1 /\ (s \o t)[1] = e
        /\ \A k \in 1..Len(t) : (s \o t)[k + 1] = t[k]
    BY <1>1, <1>2, <1>3
  <1>5. QED
    BY <1>4 DEF s

\* A synchronisation sends messages: the announcement of all the rows, and
\* one for each row that is read.
LEMMA SyncMessagesTyped ==
  ASSUME TablesTyped, NEW rows \in Seq(Operation), NEW sent \in 0..Len(rows),
         IsReadUpTo(rows, sent)
  PROVE  /\ SyncMessages(rows, sent) \in Seq(Messages)
         /\ rows = <<>> => SyncMessages(rows, sent) = <<>>
         /\ rows # <<>> =>
              /\ Len(SyncMessages(rows, sent)) = sent + 1
              /\ SyncMessages(rows, sent)[1] = Announcement(rows)
              /\ \A k \in 1..sent : SyncMessages(rows, sent)[k + 1] = SyncMessage(rows[k])
  <1> DEFINE read == [k \in 1..sent |-> SyncMessage(rows[k])]
  <1>1. Len(rows) \in Nat /\ DOMAIN rows = 1..Len(rows) /\ sent \in Nat
        /\ \A k \in 1..Len(rows) : rows[k] \in Operation
    BY LenProperties, ElementOfSeq
  <1>2. \A i \in DOMAIN items : items[i] \in Items
    BY LenProperties, ElementOfSeq DEF TablesTyped
  <1>3. \A k \in 1..sent : SyncMessage(rows[k]) \in Messages
    <2> SUFFICES ASSUME NEW k \in 1..sent PROVE SyncMessage(rows[k]) \in Messages
      OBVIOUS
    <2>1. rows[k].key \in Commands
      BY <1>1 DEF Operation
    <2>2. items[rows[k].item] \in Items
      BY <1>2 DEF IsReadUpTo, Readable
    <2>3. QED
      BY <2>1, <2>2, MessagesTyped DEF SyncMessage
  <1>4. read \in [1..sent -> Messages]
    BY <1>3
  <1>5. read \in Seq(Messages) /\ Len(read) = sent
    BY <1>1, <1>4, SeqDef, LenProperties
  <1>6. Announcement(rows) \in Messages
    BY <1>1, MessagesTyped DEF Announcement
  <1>7. CASE rows = <<>>
    BY <1>7, EmptySeq DEF SyncMessages
  <1>8. CASE rows # <<>>
    <2>1. SyncMessages(rows, sent) = <<Announcement(rows)>> \o read
      BY <1>8 DEF SyncMessages
    <2>2. \A k \in 1..sent : read[k] = SyncMessage(rows[k])
      OBVIOUS
    <2> HIDE DEF read
    <2>3. /\ <<Announcement(rows)>> \o read \in Seq(Messages)
          /\ Len(<<Announcement(rows)>> \o read) = Len(read) + 1
          /\ (<<Announcement(rows)>> \o read)[1] = Announcement(rows)
          /\ \A k \in 1..Len(read) : (<<Announcement(rows)>> \o read)[k + 1] = read[k]
      BY <1>5, <1>6, Prepended
    <2>4. QED
      BY <1>5, <1>8, <2>1, <2>2, <2>3
  <1>9. QED
    BY <1>7, <1>8

-----------------------------------------------------------------------------
(* The types.                                                              *)

LEMMA InitTyped == Init => Typed
  <1> SUFFICES ASSUME Init PROVE Typed
    OBVIOUS
  <1> USE OperationsAssumption DEF Init
  <1>1. NetworkTyped
    BY EmptySeq DEF NetworkTyped
  <1>2. ClientsTyped
    BY DEF ClientsTyped
  <1>3. HistoryTyped
    BY DEF HistoryTyped
  <1>4. QED
    BY <1>1, <1>2, <1>3 DEF Typed

LEMMA InterruptedTyped ==
  ASSUME Inv, HistoryTyped, Interrupted
  PROVE  cut' \subseteq Commands /\ stale' \subseteq Keys
  <1>1. CASE handling # Idle /\ Halfway
    <2>1. handling.command \in Commands
      BY <1>1 DEF Inv, HandlingTyped, Idle
    <2>2. KeyOf(handling.command) \in Keys
      BY <1>1, <2>1, OperationsAssumption DEF Halfway, KindOf, KeyOf
    <2>3. QED
      BY <1>1, <2>1, <2>2 DEF Interrupted, HistoryTyped
  <1>2. CASE ~(handling # Idle /\ Halfway)
    BY <1>2 DEF Interrupted, HistoryTyped, history
  <1>3. QED
    BY <1>1, <1>2

LEMMA PipelineTyped ==
  ASSUME Inv, Typed,
         \/ Save \/ Process \/ RegisterOperation \/ PostProcess
         \/ \E c \in Clients, u \in Commands : Receive(c, u)
  PROVE  Typed'
  <1> USE DEF Typed, tables, network, clientVars, history, bounds
  <1>1. CASE \E c \in Clients, u \in Commands : Receive(c, u)
    <2>1. PICK c \in Clients, u \in Commands : Receive(c, u)
      BY <1>1
    <2>2. received' \in 0..MaxReceived
      BY <2>1, OperationsAssumption DEF Receive, HistoryTyped
    <2>3. QED
      BY <2>1, <2>2 DEF Receive, NetworkTyped, ClientsTyped, HistoryTyped
  <1>2. CASE Save
    BY <1>2 DEF Save, NetworkTyped, ClientsTyped, HistoryTyped
  <1>3. CASE Process
    <2>1. ClientsTyped' /\ asked' = asked /\ bounds' = bounds
      BY <1>3 DEF Process, ClientsTyped
    <2>2. CASE CutShort /\ UNCHANGED channel
      <3>1. connection' \in [Clients -> {"off", "on", "closing"}]
        BY <2>2 DEF CutShort, NetworkTyped
      <3>2. QED
        BY <2>1, <2>2, <3>1, InterruptedTyped DEF CutShort, NetworkTyped, HistoryTyped
    <2>3. CASE /\ IF KindOf(handling.command) = "bare" THEN UNCHANGED channel
                  ELSE Propagate(handling.command)
               /\ UNCHANGED <<connection, history>>
      <3>1. handling.command \in Commands
        BY <1>3 DEF Process, Handling, Inv, HandlingTyped
      <3>2. CASE Propagate(handling.command)
        <4>1. TellOf(handling.command) \in Messages
          BY <3>1, MessagesTyped
        <4>2. \A c \in Clients : Append(channel[c], TellOf(handling.command)) \in Seq(Messages)
          BY <4>1 DEF NetworkTyped
        <4>3. channel' \in [Clients -> Seq(Messages)]
          BY <3>2, <4>2 DEF Propagate, TellOf, NetworkTyped
        <4>4. QED
          BY <2>1, <2>3, <4>3 DEF NetworkTyped, HistoryTyped
      <3>3. CASE UNCHANGED channel
        BY <2>1, <2>3, <3>3 DEF NetworkTyped, HistoryTyped
      <3>4. QED
        BY <2>3, <3>2, <3>3
    <2>4. QED
      BY <1>3, <2>2, <2>3 DEF Process
  <1>4. CASE RegisterOperation
    <2>1. ClientsTyped' /\ UNCHANGED <<asked, channel, bounds>>
      BY <1>4 DEF RegisterOperation, ClientsTyped
    <2>2. CASE CutShort
      <3>1. connection' \in [Clients -> {"off", "on", "closing"}]
        BY <2>2 DEF CutShort, NetworkTyped
      <3>2. QED
        BY <2>1, <2>2, <3>1, InterruptedTyped DEF CutShort, NetworkTyped, HistoryTyped
    <2>3. CASE UNCHANGED <<connection, history>>
      BY <2>1, <2>3 DEF NetworkTyped, HistoryTyped
    <2>4. QED
      BY <1>4, <2>2, <2>3 DEF RegisterOperation
  <1>5. CASE PostProcess
    BY <1>5 DEF PostProcess, NetworkTyped, ClientsTyped, HistoryTyped
  <1>6. QED
    BY <1>1, <1>2, <1>3, <1>4, <1>5

LEMMA SyncTyped ==
  ASSUME Inv, Typed, NEW c \in Clients, ExecuteSyncRequest(c)
  PROVE  Typed'
  <1> USE DEF Typed, tables, history, bounds
  <1>0. PICK rows \in Results(Selected(c)) : \E sent \in 0..Len(rows) :
          /\ IsReadUpTo(rows, sent)
          /\ channel' = [channel EXCEPT ![c] = @ \o SyncMessages(rows, sent)]
          /\ connection' = [connection EXCEPT ![c] = IF sent = Len(rows) THEN @ ELSE "closing"]
    BY DEF ExecuteSyncRequest
  <1>1. PICK sent \in 0..Len(rows) :
          /\ IsReadUpTo(rows, sent)
          /\ channel' = [channel EXCEPT ![c] = @ \o SyncMessages(rows, sent)]
          /\ connection' = [connection EXCEPT ![c] = IF sent = Len(rows) THEN @ ELSE "closing"]
    BY <1>0
  <1>2. rows \in Seq(Operation)
    BY SelectedRows DEF Inv, Selected
  <1>3. SyncMessages(rows, sent) \in Seq(Messages)
    BY <1>1, <1>2, SyncMessagesTyped DEF Inv
  <1>4. channel[c] \o SyncMessages(rows, sent) \in Seq(Messages)
    BY <1>3, ConcatProperties DEF NetworkTyped
  <1>5. NetworkTyped'
    BY <1>1, <1>4 DEF ExecuteSyncRequest, NetworkTyped
  <1>6. now - 1 \in 0..MaxTime
    BY OperationsAssumption DEF Inv, TablesTyped
  <1>7. ClientsTyped' /\ HistoryTyped'
    BY <1>6 DEF ExecuteSyncRequest, ClientsTyped, HistoryTyped
  <1>8. QED
    BY <1>5, <1>7

LEMMA DeliverTyped ==
  ASSUME Typed, NEW c \in Clients, Deliver(c)
  PROVE  Typed'
  <1> USE DEF Typed, history, bounds
  <1> DEFINE m == Head(channel[c])
  <1>1. channel[c] \in Seq(Messages) /\ channel[c] # <<>>
    BY DEF Deliver, NetworkTyped
  <1>2. m \in Messages /\ Tail(channel[c]) \in Seq(Messages)
    BY <1>1, HeadTailProperties
  <1>3. NetworkTyped' /\ HistoryTyped'
    BY <1>2 DEF Deliver, NetworkTyped, HistoryTyped
  <1> HIDE DEF m
  <1>4. CASE m.type = "start_sync"
    <2>1. m.nb \in Nat
      BY <1>2, <1>4 DEF Messages
    <2>2. /\ remaining' = [remaining EXCEPT ![c] = m.nb]
          /\ UNCHANGED <<local, known, since, pending>>
      BY <1>4 DEF Deliver, m
    <2>3. ClientsTyped'
      BY <2>1, <2>2 DEF ClientsTyped
    <2>4. QED
      BY <1>3, <2>3
  <1>5. CASE m.type = "command"
    <2>1. m.command \in Commands /\ m.item \in Items \cup {EmptyItem}
      BY <1>2, <1>5 DEF Messages
    <2>2. /\ known' = [known EXCEPT ![c] = @ \cup {m.command}]
          /\ local' = IF m.item = EmptyItem THEN local
                      ELSE [local EXCEPT ![c] = [@ EXCEPT ![m.item.key] = m.item.value]]
          /\ remaining' = [remaining EXCEPT ![c] = IF @ > 0 THEN @ - 1 ELSE 0]
          /\ \/ since' = [since EXCEPT ![c] = pending[c]] /\ pending' = [pending EXCEPT ![c] = 0]
             \/ UNCHANGED <<since, pending>>
      BY <1>5 DEF Deliver, m
    <2>3. since' \in [Clients -> 0..MaxTime] /\ pending' \in [Clients -> 0..MaxTime]
      <3>1. pending[c] \in 0..MaxTime /\ 0 \in 0..MaxTime
        BY OperationsAssumption DEF ClientsTyped
      <3>2. QED
        BY <2>2, <3>1 DEF ClientsTyped
    <2>4. remaining' \in [Clients -> Nat]
      BY <2>2 DEF ClientsTyped
    <2>5. known' \in [Clients -> SUBSET Commands]
      BY <2>1, <2>2 DEF ClientsTyped
    <2>6. local' \in [Clients -> [Keys -> Commands \cup {NoValue}]]
      <3>1. CASE m.item = EmptyItem
        BY <2>2, <3>1 DEF ClientsTyped
      <3>2. CASE m.item # EmptyItem
        <4>1. m.item.key \in Keys /\ m.item.value \in Commands
          BY <2>1, <3>2 DEF Items
        <4>2. [local[c] EXCEPT ![m.item.key] = m.item.value] \in [Keys -> Commands \cup {NoValue}]
          BY <4>1 DEF ClientsTyped
        <4>3. local' = [local EXCEPT ![c] = [local[c] EXCEPT ![m.item.key] = m.item.value]]
          BY <2>2, <3>2 DEF ClientsTyped
        <4>4. QED
          BY <4>2, <4>3 DEF ClientsTyped
      <3>3. QED
        BY <3>1, <3>2
    <2>7. QED
      BY <1>3, <2>3, <2>4, <2>5, <2>6 DEF ClientsTyped
  <1>6. QED
    BY <1>4, <1>5 DEF Deliver, m

LEMMA LossTyped ==
  ASSUME Inv, Typed,
         \/ Crash \/ Tick \/ UNCHANGED vars
         \/ \E c \in Clients : Connect(c) \/ Disconnect(c)
  PROVE  Typed'
  <1> USE OperationsAssumption DEF Typed, tables, network, clientVars, history, bounds
  <1>1. CASE Crash
    <2>1. NetworkTyped'
      BY <1>1, EmptySeq DEF Crash, NetworkTyped
    <2>2. ClientsTyped'
      BY <1>1 DEF Crash, ClientsTyped
    <2>3. losses' \in 0..MaxLosses
      BY <1>1 DEF Crash, HistoryTyped
    <2>4. HistoryTyped'
      BY <1>1, <2>3, InterruptedTyped DEF Crash, HistoryTyped
    <2>5. QED
      BY <2>1, <2>2, <2>4
  <1>2. CASE Tick \/ UNCHANGED vars
    BY <1>2 DEF Tick, vars, NetworkTyped, ClientsTyped, HistoryTyped
  <1>3. ASSUME NEW c \in Clients, Connect(c) PROVE Typed'
    BY <1>3 DEF Connect, NetworkTyped, ClientsTyped, HistoryTyped
  <1>4. ASSUME NEW c \in Clients, Disconnect(c) PROVE Typed'
    <2>1. NetworkTyped'
      BY <1>4, EmptySeq DEF Disconnect, NetworkTyped
    <2>2. ClientsTyped'
      BY <1>4 DEF Disconnect, ClientsTyped
    <2>3. losses' \in 0..MaxLosses
      BY <1>4 DEF Disconnect, HistoryTyped
    <2>4. QED
      BY <1>4, <2>1, <2>2, <2>3 DEF Disconnect, HistoryTyped
  <1>5. QED
    BY <1>1, <1>2, <1>3, <1>4

LEMMA NextTyped == Inv /\ Typed /\ [Next]_vars => Typed'
  BY PipelineTyped, SyncTyped, DeliverTyped, LossTyped DEF Next

LEMMA TypeInvariance == Spec => [](Inv /\ Typed)
  <1>1. Init => Inv /\ Typed
    BY InitInv, InitTyped
  <1>2. Inv /\ Typed /\ [Next]_vars => (Inv /\ Typed)'
    BY NextInv, NextTyped
  <1>3. QED
    BY <1>1, <1>2, PTL DEF Spec

\* Every variable keeps its type.
THEOREM TypeCorrect == Spec => []TypeOK
  <1>1. Inv /\ Typed => TypeOK
    BY DEF Inv, Typed, TablesTyped, HandlingTyped, Steps, NetworkTyped, ClientsTyped,
           HistoryTyped, TypeOK
  <1>2. QED
    BY <1>1, TypeInvariance, PTL

-----------------------------------------------------------------------------
(* What a step is to one client.                                           *)

Starts(m) == m.type = "start_sync"
Says(m, u) == m.type = "command" /\ m.command = u
Carries(m, k) == m.type = "command" /\ m.item.key = k

\* Nothing, but that its connection may be going to be closed.
Spared(c) ==
    /\ channel'[c] = channel[c] /\ asked'[c] = asked[c]
    /\ local'[c] = local[c] /\ known'[c] = known[c]
    /\ remaining'[c] = remaining[c] /\ since'[c] = since[c] /\ pending'[c] = pending[c]
    /\ connection'[c] = connection[c] \/ (connection[c] = "on" /\ connection'[c] = "closing")

Connected(c) ==
    /\ channel'[c] = channel[c] /\ asked'[c] = asked[c]
    /\ local'[c] = local[c] /\ known'[c] = known[c]
    /\ remaining'[c] = remaining[c] /\ since'[c] = since[c] /\ pending'[c] = pending[c]
    /\ connection[c] = "off" /\ connection'[c] = "on"

Disconnected(c) ==
    /\ channel'[c] = <<>> /\ asked'[c] = FALSE
    /\ local'[c] = local[c] /\ known'[c] = known[c]
    /\ remaining'[c] = 0 /\ since'[c] = since[c] /\ pending'[c] = 0
    /\ connection'[c] = "off"

\* It is told of the command being handled.
Tells(c) ==
    /\ channel'[c] = Append(channel[c], TellOf(handling.command)) /\ asked'[c] = asked[c]
    /\ local'[c] = local[c] /\ known'[c] = known[c]
    /\ remaining'[c] = remaining[c] /\ since'[c] = since[c] /\ pending'[c] = pending[c]
    /\ connection[c] = "on" /\ connection'[c] = "on"
    /\ handling.command \in Commands

\* The first message of its channel arrives.
Arrives(c, m) ==
    /\ channel[c] # <<>> /\ m = Head(channel[c])
    /\ channel'[c] = Tail(channel[c]) /\ asked'[c] = asked[c] /\ connection'[c] = connection[c]
    /\ \/ /\ Starts(m)
          /\ remaining'[c] = m.nb
          /\ local'[c] = local[c] /\ known'[c] = known[c]
          /\ since'[c] = since[c] /\ pending'[c] = pending[c]
       \/ /\ m.type = "command"
          /\ known'[c] = known[c] \cup {m.command}
          /\ \A k \in Keys :
               local'[c][k] = IF Carries(m, k) THEN m.item.value ELSE local[c][k]
          /\ remaining'[c] = IF remaining[c] > 0 THEN remaining[c] - 1 ELSE 0
          /\ IF remaining[c] = 1 THEN since'[c] = pending[c] /\ pending'[c] = 0
             ELSE since'[c] = since[c] /\ pending'[c] = pending[c]

\* Its request is answered with these messages.
Answered(c, rows, sent) ==
    /\ rows \in Results(Selected(c)) /\ sent \in 0..Len(rows) /\ IsReadUpTo(rows, sent)
    /\ channel'[c] = channel[c] \o SyncMessages(rows, sent)
    /\ ~asked[c] /\ asked'[c] = TRUE
    /\ local'[c] = local[c] /\ known'[c] = known[c]
    /\ remaining'[c] = remaining[c] /\ since'[c] = since[c] /\ pending'[c] = now - 1
    /\ connection[c] = "on"
    /\ connection'[c] = IF sent = Len(rows) THEN "on" ELSE "closing"

ClientStep(c) ==
    \/ Spared(c) \/ Connected(c) \/ Disconnected(c) \/ Tells(c)
    \/ \E m \in Messages : Arrives(c, m)
    \/ \E rows \in Seq(Operation), sent \in Nat : Answered(c, rows, sent)

LEMMA SyncStep ==
  ASSUME Inv, Typed, NEW c \in Clients, ExecuteSyncRequest(c)
  PROVE  /\ \E rows \in Seq(Operation), sent \in Nat : Answered(c, rows, sent)
         /\ \A d \in Clients : d # c => Spared(d)
  <1> USE DEF Typed, NetworkTyped, ClientsTyped
  <1>1. PICK rows \in Results(Selected(c)) : \E sent \in 0..Len(rows) :
          /\ IsReadUpTo(rows, sent)
          /\ channel' = [channel EXCEPT ![c] = @ \o SyncMessages(rows, sent)]
          /\ connection' = [connection EXCEPT ![c] = IF sent = Len(rows) THEN @ ELSE "closing"]
    BY DEF ExecuteSyncRequest
  <1>2. PICK sent \in 0..Len(rows) :
          /\ IsReadUpTo(rows, sent)
          /\ channel' = [channel EXCEPT ![c] = @ \o SyncMessages(rows, sent)]
          /\ connection' = [connection EXCEPT ![c] = IF sent = Len(rows) THEN @ ELSE "closing"]
    BY <1>1
  <1>3. /\ connection[c] = "on" /\ ~asked[c]
        /\ asked' = [asked EXCEPT ![c] = TRUE]
        /\ pending' = [pending EXCEPT ![c] = now - 1]
        /\ UNCHANGED <<local, known, remaining, since>>
    BY DEF ExecuteSyncRequest
  <1>4. rows \in Seq(Operation) /\ sent \in Nat
    <2>1. rows \in Seq(Operation) /\ Len(rows) \in Nat
      BY SelectedRows DEF Inv, Selected
    <2>2. QED
      BY <2>1
  <1>5. Answered(c, rows, sent)
    BY <1>2, <1>3 DEF Answered
  <1>6. \A d \in Clients : d # c => Spared(d)
    BY <1>2, <1>3 DEF Spared
  <1>7. QED
    BY <1>4, <1>5, <1>6

LEMMA DeliverStep ==
  ASSUME Typed, NEW c \in Clients, Deliver(c)
  PROVE  /\ \E m \in Messages : Arrives(c, m)
         /\ \A d \in Clients : d # c => Spared(d)
  <1> USE DEF Typed, NetworkTyped, ClientsTyped
  <1> DEFINE m == Head(channel[c])
  <1>1. m \in Messages
    BY HeadTailProperties DEF Deliver
  <1>2. /\ channel[c] # <<>>
        /\ channel' = [channel EXCEPT ![c] = Tail(@)]
        /\ UNCHANGED <<asked, connection>>
    BY DEF Deliver
  <1>3. CASE m.type = "start_sync"
    <2>1. /\ remaining' = [remaining EXCEPT ![c] = m.nb]
          /\ UNCHANGED <<local, known, since, pending>>
      BY <1>3 DEF Deliver
    <2>2. Arrives(c, m)
      BY <1>2, <1>3, <2>1 DEF Arrives, Starts
    <2>3. \A d \in Clients : d # c => Spared(d)
      BY <1>2, <2>1 DEF Spared
    <2>4. QED
      BY <1>1, <2>2, <2>3
  <1>4. CASE m.type = "command"
    <2> HIDE DEF m
    <2>1. m.item \in Items \cup {EmptyItem}
      BY <1>1, <1>4 DEF Messages
    <2>2. /\ known' = [known EXCEPT ![c] = @ \cup {m.command}]
          /\ local' = IF m.item = EmptyItem THEN local
                      ELSE [local EXCEPT ![c] = [@ EXCEPT ![m.item.key] = m.item.value]]
          /\ remaining' = [remaining EXCEPT ![c] = IF @ > 0 THEN @ - 1 ELSE 0]
          /\ IF remaining[c] = 1
             THEN since' = [since EXCEPT ![c] = pending[c]] /\ pending' = [pending EXCEPT ![c] = 0]
             ELSE UNCHANGED <<since, pending>>
      BY <1>4 DEF Deliver, m
    <2>3. /\ \A k \in Keys : local'[c][k] = IF m.item.key = k THEN m.item.value ELSE local[c][k]
          /\ \A d \in Clients : d # c => local'[d] = local[d]
      <3>1. CASE m.item = EmptyItem
        <4>1. m.item.key \notin Keys /\ local' = local
          BY <2>2, <3>1, OperationsAssumption DEF EmptyItem
        <4>2. QED
          BY <4>1
      <3>2. CASE m.item # EmptyItem
        <4>1. local' = [local EXCEPT ![c] = [local[c] EXCEPT ![m.item.key] = m.item.value]]
          BY <2>2, <3>2
        <4>2. /\ local'[c] = [local[c] EXCEPT ![m.item.key] = m.item.value]
              /\ \A d \in Clients : d # c => local'[d] = local[d]
          BY <4>1
        <4>3. local[c] \in [Keys -> Commands \cup {NoValue}]
          OBVIOUS
        <4>4. QED
          BY <4>2, <4>3
      <3>3. QED
        BY <3>1, <3>2
    <2>4. Arrives(c, m)
      <3>1. \A k \in Keys : local'[c][k] = IF Carries(m, k) THEN m.item.value ELSE local[c][k]
        BY <1>4, <2>3 DEF Carries
      <3>2. known'[c] = known[c] \cup {m.command}
        BY <2>2
      <3>3. remaining'[c] = IF remaining[c] > 0 THEN remaining[c] - 1 ELSE 0
        BY <2>2
      <3>4. IF remaining[c] = 1 THEN since'[c] = pending[c] /\ pending'[c] = 0
            ELSE since'[c] = since[c] /\ pending'[c] = pending[c]
        BY <2>2
      <3>5. channel'[c] = Tail(channel[c]) /\ m = Head(channel[c])
        BY <1>2 DEF m
      <3>6. QED
        BY <1>2, <1>4, <3>1, <3>2, <3>3, <3>4, <3>5 DEF Arrives
    <2>5. \A d \in Clients : d # c => Spared(d)
      BY <1>2, <2>2, <2>3 DEF Spared
    <2>6. QED
      BY <1>1, <2>4, <2>5
  <1>5. QED
    BY <1>3, <1>4 DEF Deliver

LEMMA ProcessStep ==
  ASSUME Inv, Typed, Process, NEW c \in Clients
  PROVE  \/ /\ handling' = Idle /\ Interrupted
            /\ Spared(c)
         \/ /\ handling' = [handling EXCEPT !.step = "register"]
            /\ connection'[c] = connection[c] /\ UNCHANGED history
            /\ KindOf(handling.command) = "bare" => Spared(c)
            /\ KindOf(handling.command) # "bare" =>
                 IF connection[c] = "on" /\ c \in Audience(handling.command) THEN Tells(c) ELSE Spared(c)
  <1> USE DEF Typed, NetworkTyped, ClientsTyped
  <1> DEFINE u == handling.command
  <1>1. UNCHANGED clientVars /\ asked' = asked /\ u \in Commands
    BY DEF Process, Handling, Inv, HandlingTyped
  <1>2. CASE CutShort /\ UNCHANGED channel
    <2>1. connection'[c] = connection[c] \/ (connection[c] = "on" /\ connection'[c] = "closing")
      BY <1>2 DEF CutShort
    <2>2. handling' = Idle /\ Interrupted
      BY <1>2 DEF CutShort, Interrupted
    <2>3. QED
      BY <1>1, <1>2, <2>1, <2>2 DEF Spared, clientVars
  <1>3. CASE /\ Continue("register")
             /\ IF KindOf(u) = "bare" THEN UNCHANGED channel ELSE Propagate(u)
             /\ UNCHANGED <<connection, history>>
    <2>1. CASE KindOf(u) = "bare"
      BY <1>1, <1>3, <2>1 DEF Spared, clientVars, Continue
    <2>2. CASE KindOf(u) # "bare"
      <3>1. channel'[c] = IF connection[c] = "on" /\ c \in Audience(u)
                          THEN Append(channel[c], TellOf(u)) ELSE channel[c]
        BY <1>3, <2>2 DEF Propagate, TellOf
      <3>2. CASE connection[c] = "on" /\ c \in Audience(u)
        BY <1>1, <1>3, <2>2, <3>1, <3>2 DEF Tells, clientVars, Continue
      <3>3. CASE ~(connection[c] = "on" /\ c \in Audience(u))
        BY <1>1, <1>3, <2>2, <3>1, <3>3 DEF Spared, clientVars, Continue
      <3>4. QED
        BY <3>2, <3>3
    <2>3. QED
      BY <2>1, <2>2
  <1>4. QED
    BY <1>2, <1>3 DEF Process

\* Any step is one of these to every client.
LEMMA StepOfClient ==
  ASSUME Inv, Typed, [Next]_vars, NEW c \in Clients
  PROVE  ClientStep(c)
  <1> USE DEF Typed, NetworkTyped, ClientsTyped, network, clientVars
  <1>1. CASE \/ Save \/ PostProcess \/ Tick \/ UNCHANGED vars
             \/ \E d \in Clients, u \in Commands : Receive(d, u)
    <2>1. UNCHANGED <<network, clientVars>>
      BY <1>1 DEF Save, PostProcess, Tick, Receive, vars
    <2>2. QED
      BY <2>1 DEF ClientStep, Spared
  <1>2. CASE RegisterOperation
    <2>1. UNCHANGED <<asked, channel, clientVars>>
      BY <1>2 DEF RegisterOperation
    <2>2. connection'[c] = connection[c] \/ (connection[c] = "on" /\ connection'[c] = "closing")
      BY <1>2 DEF RegisterOperation, CutShort
    <2>3. QED
      BY <2>1, <2>2 DEF ClientStep, Spared
  <1>3. CASE Process
    BY <1>3, ProcessStep DEF ClientStep
  <1>4. CASE Crash
    BY <1>4 DEF Crash, ClientStep, Disconnected
  <1>5. ASSUME NEW d \in Clients, ExecuteSyncRequest(d) PROVE ClientStep(c)
    BY <1>5, SyncStep DEF ClientStep
  <1>6. ASSUME NEW d \in Clients, Deliver(d) PROVE ClientStep(c)
    BY <1>6, DeliverStep DEF ClientStep
  <1>7. ASSUME NEW d \in Clients, Connect(d) PROVE ClientStep(c)
    <2>1. Connected(c) \/ Spared(c)
      BY <1>7 DEF Connect, Connected, Spared
    <2>2. QED
      BY <2>1 DEF ClientStep
  <1>8. ASSUME NEW d \in Clients, Disconnect(d) PROVE ClientStep(c)
    <2>1. Disconnected(c) \/ Spared(c)
      BY <1>8 DEF Disconnect, Disconnected, Spared
    <2>2. QED
      BY <2>1 DEF ClientStep
  <1>9. QED
    BY <1>1, <1>2, <1>3, <1>4, <1>5, <1>6, <1>7, <1>8 DEF Next

-----------------------------------------------------------------------------
(* What is announced is delivered.                                         *)

\* A client that is not connected has nothing on its way; without a request
\* nothing is announced to it, and while it is connected all that was
\* announced is on its way.
Promised(c) ==
    /\ connection[c] = "off" => ~asked[c] /\ channel[c] = <<>>
    /\ ~asked[c] => remaining[c] = 0 /\ \A p \in DOMAIN channel[c] : ~Starts(channel[c][p])
    /\ connection[c] = "on" =>
         /\ remaining[c] <= Len(channel[c])
         /\ \A p \in DOMAIN channel[c] :
              Starts(channel[c][p]) => p + channel[c][p].nb <= Len(channel[c])

ClientTyped(c) ==
    /\ connection[c] \in {"off", "on", "closing"} /\ asked[c] \in BOOLEAN
    /\ channel[c] \in Seq(Messages) /\ Len(channel[c]) \in Nat
    /\ DOMAIN channel[c] = 1..Len(channel[c])
    /\ \A p \in DOMAIN channel[c] :
         /\ channel[c][p] \in Messages
         /\ Starts(channel[c][p]) => channel[c][p].nb \in Nat
    /\ remaining[c] \in Nat /\ since[c] \in Nat /\ pending[c] \in Nat

LEMMA TypedClient ==
  ASSUME Typed, NEW c \in Clients
  PROVE  ClientTyped(c)
  <1>1. channel[c] \in Seq(Messages)
    BY DEF Typed, NetworkTyped
  <1>2. \A p \in 1..Len(channel[c]) : channel[c][p] \in Messages
    BY <1>1, ElementOfSeq
  <1>3. \A m \in Messages : Starts(m) => m.nb \in Nat
    BY DEF Messages, Starts
  <1>4. since[c] \in Nat /\ pending[c] \in Nat
    BY OperationsAssumption DEF Typed, ClientsTyped
  <1>5. QED
    BY <1>1, <1>2, <1>3, <1>4, LenProperties
    DEF Typed, NetworkTyped, ClientsTyped, ClientTyped

\* What a sequence is after its first element is taken.
LEMMA TailOf ==
  ASSUME NEW S, NEW s \in Seq(S), s # <<>>
  PROVE  /\ Len(s) \in Nat \ {0} /\ DOMAIN s = 1..Len(s)
         /\ Head(s) = s[1]
         /\ Tail(s) \in Seq(S) /\ Len(Tail(s)) = Len(s) - 1
         /\ DOMAIN Tail(s) = 1..(Len(s) - 1)
         /\ \A i \in 1..(Len(s) - 1) : Tail(s)[i] = s[i + 1]
  BY HeadTailProperties, LenProperties, EmptySeq

LEMMA Appended ==
  ASSUME NEW S, NEW s \in Seq(S), NEW e \in S
  PROVE  /\ Append(s, e) \in Seq(S)
         /\ Len(s) \in Nat /\ Len(Append(s, e)) = Len(s) + 1
         /\ DOMAIN s = 1..Len(s) /\ DOMAIN Append(s, e) = 1..(Len(s) + 1)
         /\ \A i \in 1..Len(s) : Append(s, e)[i] = s[i]
         /\ Append(s, e)[Len(s) + 1] = e
  BY LenProperties

LEMMA TellsIsCommand ==
  ASSUME NEW u \in Commands
  PROVE  /\ TellOf(u) \in Messages /\ ~Starts(TellOf(u)) /\ Says(TellOf(u), u)
         /\ \A k \in Keys : Carries(TellOf(u), k) <=> KeyOf(u) = k
         /\ KeyOf(u) \in Keys => TellOf(u).item.value = u
  <1>1. TellOf(u) \in Messages
    BY MessagesTyped
  <1>2. TellOf(u).type = "command" /\ TellOf(u).command = u
    BY DEF TellOf, Message
  <1>3. TellOf(u).item = IF KeyOf(u) \in Keys THEN Item(u) ELSE EmptyItem
    BY DEF TellOf, Message
  <1>4. Item(u).key = KeyOf(u) /\ Item(u).value = u /\ EmptyItem.key = NoKey /\ NoKey \notin Keys
    BY OperationsAssumption DEF Item, EmptyItem
  <1>5. QED
    BY <1>1, <1>2, <1>3, <1>4 DEF Starts, Says, Carries

\* What the channel of a client is after its request: what it was, then the
\* announcement and the rows that were read.
Extends(c, rows, sent, old) ==
    /\ old \in Nat /\ DOMAIN channel[c] = 1..old
    /\ Len(rows) \in Nat /\ sent <= Len(rows)
    /\ Len(channel'[c]) \in Nat /\ DOMAIN channel'[c] = 1..Len(channel'[c])
    /\ Len(channel'[c]) = IF rows = <<>> THEN old ELSE old + 1 + sent
    /\ \A q \in 1..old : q \in DOMAIN channel'[c] /\ channel'[c][q] = channel[c][q]
    /\ \A q \in DOMAIN channel'[c] : q > old =>
         \/ q = old + 1 /\ rows # <<>> /\ channel'[c][q] = Announcement(rows)
         \/ \E k \in 1..sent : q = old + 1 + k /\ channel'[c][q] = SyncMessage(rows[k])
    /\ \A k \in 1..sent : /\ old + 1 + k \in DOMAIN channel'[c]
                          /\ channel'[c][old + 1 + k] = SyncMessage(rows[k])

LEMMA AnswerShape ==
  ASSUME Inv, Typed, NEW c \in Clients, NEW rows \in Seq(Operation), NEW sent \in Nat,
         Answered(c, rows, sent), NEW old, old = Len(channel[c])
  PROVE  Extends(c, rows, sent, old)
  <1> DEFINE more == SyncMessages(rows, sent)
  <1>1. Len(rows) \in Nat /\ sent <= Len(rows)
    BY LenProperties DEF Answered
  <1>2. rows = <<>> => Len(rows) = 0
    BY EmptySeq
  <1>3. /\ more \in Seq(Messages)
        /\ rows = <<>> => more = <<>>
        /\ rows # <<>> =>
             /\ Len(more) = sent + 1
             /\ more[1] = Announcement(rows)
             /\ \A k \in 1..sent : more[k + 1] = SyncMessage(rows[k])
    BY SyncMessagesTyped DEF Answered, Inv
  <1>4. channel'[c] = channel[c] \o more /\ channel[c] \in Seq(Messages)
    BY DEF Answered, Typed, NetworkTyped
  <1> HIDE DEF more
  <1>5. /\ Len(channel'[c]) = old + Len(more) /\ Len(more) \in Nat /\ old \in Nat
        /\ DOMAIN channel[c] = 1..old
        /\ DOMAIN channel'[c] = 1..(old + Len(more))
        /\ \A i \in 1..old : channel'[c][i] = channel[c][i]
        /\ \A i \in 1..Len(more) : channel'[c][old + i] = more[i]
        /\ \A i \in 1..(old + Len(more)) : i > old => \E k \in 1..Len(more) : i = old + k
    <2>1. LET s == channel[c] IN
          /\ Len(s \o more) = Len(s) + Len(more) /\ Len(more) \in Nat /\ Len(s) \in Nat
          /\ DOMAIN s = 1..Len(s)
          /\ DOMAIN (s \o more) = 1..(Len(s) + Len(more))
          /\ \A i \in 1..Len(s) : (s \o more)[i] = s[i]
          /\ \A i \in 1..Len(more) : (s \o more)[Len(s) + i] = more[i]
          /\ \A i \in 1..(Len(s) + Len(more)) : i > Len(s) => \E k \in 1..Len(more) : i = Len(s) + k
      BY ONLY <1>3, <1>4, Concatenated
    <2>2. QED
      BY <1>4, <2>1
  <1>6. CASE rows = <<>>
    <2>1. Len(more) = 0 /\ sent = 0
      BY <1>1, <1>2, <1>3, <1>6, EmptySeq
    <2>2. QED
      BY <1>1, <1>5, <1>6, <2>1 DEF Extends
  <1>7. CASE rows # <<>>
    <2>1. /\ Len(more) = sent + 1 /\ more[1] = Announcement(rows)
          /\ \A k \in 1..sent : more[k + 1] = SyncMessage(rows[k])
      BY <1>3, <1>7
    <2>2. Len(channel'[c]) = old + 1 + sent
      BY ONLY <1>5, <2>1, sent \in Nat
    <2>3. \A k \in 1..sent : /\ old + 1 + k \in DOMAIN channel'[c]
                             /\ channel'[c][old + 1 + k] = SyncMessage(rows[k])
      <3> SUFFICES ASSUME NEW k \in 1..sent
                   PROVE  /\ old + 1 + k \in DOMAIN channel'[c]
                          /\ channel'[c][old + 1 + k] = SyncMessage(rows[k])
        OBVIOUS
      <3>1. k + 1 \in 1..Len(more) /\ old + 1 + k = old + (k + 1)
            /\ old + 1 + k \in 1..(old + Len(more))
        <4>1. Len(more) = sent + 1 /\ old \in Nat
          BY <1>5, <2>1
        <4>2. QED
          BY ONLY <4>1, k \in 1..sent, sent \in Nat
      <3>2. QED
        BY <1>5, <2>1, <3>1
    <2>4. ASSUME NEW q \in DOMAIN channel'[c], q > old
          PROVE  \/ q = old + 1 /\ rows # <<>> /\ channel'[c][q] = Announcement(rows)
                 \/ \E k \in 1..sent : q = old + 1 + k /\ channel'[c][q] = SyncMessage(rows[k])
      <3>1. PICK i \in 1..Len(more) : q = old + i
        BY <1>5, <2>4
      <3>2. CASE i = 1
        BY <1>5, <1>7, <2>1, <3>1, <3>2
      <3>3. CASE i # 1
        <4>1. i - 1 \in 1..sent /\ q = old + 1 + (i - 1)
          <5>1. Len(more) = sent + 1 /\ old \in Nat
            BY <1>5, <2>1
          <5>2. QED
            BY ONLY <3>1, <3>3, <5>1, sent \in Nat
        <4>2. QED
          BY <2>3, <4>1
      <3>4. QED
        BY <3>2, <3>3
    <2>5. \A q \in 1..old : q \in DOMAIN channel'[c] /\ channel'[c][q] = channel[c][q]
      BY <1>5
    <2>6. QED
      BY <1>1, <1>5, <1>7, <2>2, <2>3, <2>4, <2>5 DEF Extends
  <1>8. QED
    BY <1>6, <1>7

\* Its announcement counts the messages up to its end, when all were sent.
LEMMA AnswerIsAnnounced ==
  ASSUME Inv, Typed, NEW c \in Clients, NEW rows \in Seq(Operation), NEW sent \in Nat,
         Answered(c, rows, sent), Promised(c),
         NEW p \in DOMAIN channel'[c], Starts(channel'[c][p])
  PROVE  /\ p + channel'[c][p].nb = Len(channel[c]) + 1 + Len(rows)
         /\ Len(channel'[c]) = Len(channel[c]) + 1 + sent
         /\ sent \in Nat /\ Len(rows) \in Nat /\ Len(channel[c]) \in Nat
  <1>1. PICK old : old = Len(channel[c])
    OBVIOUS
  <1>2. Extends(c, rows, sent, old)
    BY <1>1, AnswerShape
  <1>3. \A k \in 1..sent : ~Starts(SyncMessage(rows[k]))
    BY DEF Starts, SyncMessage, Message
  <1>4. p > old
    <2> SUFFICES ASSUME ~(p > old) PROVE FALSE
      OBVIOUS
    <2>1. Len(channel'[c]) \in Nat
      BY <1>2 DEF Extends
    <2>2. p \in 1..old
      BY <1>2, <2>1 DEF Extends
    <2>3. p \in DOMAIN channel[c] /\ channel'[c][p] = channel[c][p] /\ ~asked[c]
      BY <1>2, <2>2 DEF Answered, Extends
    <2>4. QED
      BY <2>3 DEF Promised
  <1>5. p = old + 1 /\ rows # <<>> /\ channel'[c][p] = Announcement(rows)
    BY <1>2, <1>3, <1>4 DEF Extends
  <1>6. channel'[c][p].nb = Len(rows)
    BY <1>5 DEF Announcement
  <1>7. QED
    BY <1>1, <1>2, <1>5, <1>6 DEF Extends

LEMMA PromisedNext ==
  ASSUME Inv, Typed, Typed', NEW c \in Clients, ClientStep(c), Promised(c)
  PROVE  Promised(c)'
  <1> USE DEF Promised
  <1>1. ClientTyped(c) /\ ClientTyped(c)'
    BY TypedClient, PTL
  <1>2. CASE Spared(c) \/ Connected(c)
    BY <1>1, <1>2 DEF Spared, Connected, ClientTyped
  <1>3. CASE Disconnected(c)
    BY <1>3, EmptySeq DEF Disconnected
  <1>4. CASE Tells(c)
    <2> DEFINE m == TellOf(handling.command)
    <2>1. m \in Messages /\ ~Starts(m)
      BY <1>4, TellsIsCommand DEF Tells
    <2>2. /\ Len(channel'[c]) = Len(channel[c]) + 1
          /\ DOMAIN channel'[c] = 1..(Len(channel[c]) + 1)
          /\ \A i \in 1..Len(channel[c]) : channel'[c][i] = channel[c][i]
          /\ channel'[c][Len(channel[c]) + 1] = m
      BY <1>1, <1>4, <2>1, Appended DEF Tells, ClientTyped
    <2> HIDE DEF m
    <2>3. /\ remaining'[c] = remaining[c] /\ asked'[c] = asked[c]
          /\ connection[c] = "on" /\ connection'[c] = "on"
      BY <1>4 DEF Tells
    <2>4. \A p \in DOMAIN channel'[c] : Starts(channel'[c][p]) =>
            p \in DOMAIN channel[c] /\ channel'[c][p] = channel[c][p]
      BY <1>1, <2>1, <2>2 DEF ClientTyped
    <2>5. ~asked'[c] => remaining'[c] = 0 /\ \A p \in DOMAIN channel'[c] : ~Starts(channel'[c][p])
      BY <2>3, <2>4
    <2>6. remaining'[c] <= Len(channel'[c])
      BY <1>1, <2>2, <2>3 DEF ClientTyped
    <2>7. ASSUME NEW p \in DOMAIN channel'[c], Starts(channel'[c][p])
          PROVE  p + channel'[c][p].nb <= Len(channel'[c])
      <3>1. p \in DOMAIN channel[c] /\ channel'[c][p] = channel[c][p]
        BY <2>4, <2>7
      <3>2. p + channel[c][p].nb <= Len(channel[c])
        BY <2>3, <2>7, <3>1
      <3>3. p \in Nat /\ channel[c][p].nb \in Nat /\ Len(channel[c]) \in Nat
        BY <1>1, <2>7, <3>1 DEF ClientTyped
      <3>4. QED
        BY <2>2, <3>1, <3>2, <3>3
    <2>8. QED
      BY <2>3, <2>5, <2>6, <2>7
  <1>5. ASSUME NEW m \in Messages, Arrives(c, m) PROVE Promised(c)'
    <2>1. /\ Len(channel[c]) \in Nat \ {0} /\ DOMAIN channel[c] = 1..Len(channel[c])
          /\ m = channel[c][1]
          /\ Len(channel'[c]) = Len(channel[c]) - 1
          /\ DOMAIN channel'[c] = 1..(Len(channel[c]) - 1)
          /\ \A i \in 1..(Len(channel[c]) - 1) : channel'[c][i] = channel[c][i + 1]
      BY <1>1, <1>5, TailOf DEF Arrives, ClientTyped
    <2>2. channel[c] # <<>> /\ asked'[c] = asked[c] /\ connection'[c] = connection[c]
      BY <1>5 DEF Arrives
    <2>3. \/ Starts(m) /\ remaining'[c] = m.nb
          \/ m.type = "command" /\ remaining'[c] = IF remaining[c] > 0 THEN remaining[c] - 1 ELSE 0
      BY <1>5 DEF Arrives
    <2>4. \A p \in DOMAIN channel'[c] : p + 1 \in DOMAIN channel[c] /\ channel'[c][p] = channel[c][p + 1]
      BY <2>1
    <2>5. ~asked'[c] => remaining'[c] = 0 /\ \A p \in DOMAIN channel'[c] : ~Starts(channel'[c][p])
      BY <2>1, <2>2, <2>3, <2>4
    <2>6. ASSUME connection[c] = "on" PROVE remaining'[c] <= Len(channel'[c])
      <3>1. remaining[c] \in Nat /\ remaining[c] <= Len(channel[c])
        BY <1>1, <2>6 DEF ClientTyped
      <3>2. ASSUME Starts(m), remaining'[c] = m.nb PROVE remaining'[c] <= Len(channel'[c])
        <4>1. 1 \in DOMAIN channel[c] /\ Starts(channel[c][1]) /\ m.nb = channel[c][1].nb
          BY <2>1, <3>2
        <4>2. 1 + m.nb <= Len(channel[c])
          BY <2>6, <4>1
        <4>3. m.nb \in Nat
          BY <1>1, <4>1 DEF ClientTyped
        <4>4. QED
          BY <2>1, <3>2, <4>2, <4>3
      <3>3. QED
        BY <2>1, <2>3, <3>1, <3>2
    <2>7. connection[c] = "on" => \A p \in DOMAIN channel'[c] :
            Starts(channel'[c][p]) => p + channel'[c][p].nb <= Len(channel'[c])
      <3> SUFFICES ASSUME connection[c] = "on", NEW p \in DOMAIN channel'[c], Starts(channel'[c][p])
                   PROVE  p + channel'[c][p].nb <= Len(channel'[c])
        OBVIOUS
      <3>1. PICK q \in DOMAIN channel[c] : q = p + 1 /\ channel'[c][p] = channel[c][q]
        BY <2>4
      <3>2. q + channel[c][q].nb <= Len(channel[c]) /\ channel[c][q].nb \in Nat
        BY <1>1, <3>1 DEF ClientTyped
      <3>3. channel'[c][p].nb = channel[c][q].nb /\ p \in Nat
        BY <2>1, <3>1
      <3>4. QED
        BY <2>1, <3>1, <3>2, <3>3
    <2>8. QED
      BY <2>2, <2>5, <2>6, <2>7
  <1>6. ASSUME NEW rows \in Seq(Operation), NEW sent \in Nat, Answered(c, rows, sent)
        PROVE  Promised(c)'
    <2>1. /\ asked'[c] = TRUE /\ ~asked[c] /\ remaining'[c] = remaining[c] /\ connection[c] = "on"
          /\ connection'[c] = IF sent = Len(rows) THEN "on" ELSE "closing"
      BY <1>6 DEF Answered
    <2>2. remaining'[c] <= Len(channel'[c])
      BY <1>1, <2>1 DEF ClientTyped
    <2>3. ASSUME sent = Len(rows), NEW p \in DOMAIN channel'[c], Starts(channel'[c][p])
          PROVE  p + channel'[c][p].nb <= Len(channel'[c])
      <3>1. /\ p + channel'[c][p].nb = Len(channel[c]) + 1 + Len(rows)
            /\ Len(channel'[c]) = Len(channel[c]) + 1 + sent
            /\ Len(rows) \in Nat /\ Len(channel[c]) \in Nat
        BY <1>6, <2>3, AnswerIsAnnounced
      <3>2. QED
        BY <2>3, <3>1
    <2>4. connection'[c] = "on" => sent = Len(rows)
      BY <2>1
    <2>5. QED
      BY <2>1, <2>2, <2>3, <2>4
  <1>7. QED
    BY <1>2, <1>3, <1>4, <1>5, <1>6 DEF ClientStep

AllPromised == \A c \in Clients : Promised(c)

LEMMA InitPromised == Init => AllPromised
  BY EmptySeq DEF Init, AllPromised, Promised

LEMMA PromisedInvariance == Spec => [](Inv /\ Typed /\ AllPromised)
  <1>1. Init => Inv /\ Typed /\ AllPromised
    BY InitInv, InitTyped, InitPromised
  <1>2. Inv /\ Typed /\ AllPromised /\ [Next]_vars => (Inv /\ Typed /\ AllPromised)'
    <2> SUFFICES ASSUME Inv, Typed, AllPromised, [Next]_vars PROVE (Inv /\ Typed /\ AllPromised)'
      OBVIOUS
    <2>1. Inv' /\ Typed'
      BY NextInv, NextTyped
    <2>2. ASSUME NEW c \in Clients PROVE Promised(c)'
      BY <2>1, StepOfClient, PromisedNext DEF AllPromised
    <2>3. QED
      BY <2>1, <2>2 DEF AllPromised
  <1>3. QED
    BY <1>1, <1>2, PTL DEF Spec

-----------------------------------------------------------------------------
(* What a client will know and hold.                                       *)

\* Once n messages of the channel have arrived, it knows the command.
Told(ch, kn, u, n) ==
    u \in kn \/ \E p \in 1..n : p \in DOMAIN ch /\ Says(ch[p], u)

\* The messages after the first p change the item to no other value.
Settles(ch, k, v, p) ==
    \A q \in DOMAIN ch : q > p /\ Carries(ch[q], k) => ch[q].item.value = v

\* At the latest once n messages of the channel have arrived, it holds the
\* value of the item, and keeps it.
Reaches(ch, held, k, v, n) ==
    \E p \in 0..n :
      /\ p = 0 => held = v
      /\ p # 0 => p \in DOMAIN ch /\ Carries(ch[p], k) /\ ch[p].item.value = v
      /\ Settles(ch, k, v, p)

\* Once n messages have arrived, all that was announced has.
Completes(ch, rem, n) ==
    /\ n \in DOMAIN ch
    /\ \/ n = rem
       \/ \E p \in DOMAIN ch : Starts(ch[p]) /\ n = p + ch[p].nb

\* A client has all that is of time t once n messages of its channel have
\* arrived: it asked for what is later, or it has asked for it and its
\* synchronisation is then complete, or it misses nothing from its request on.
Within(c, t, n) ==
    \/ n = 0 /\ t <= since[c]
    \/ Completes(channel[c], remaining[c], n) /\ t <= pending[c]
    \/ n = Len(channel[c]) /\ connection[c] = "on" /\ asked[c]

Knows(c, u, t) == \A n \in Nat : Within(c, t, n) => Told(channel[c], known[c], u, n)

Gets(c, k, v, t) == \A n \in Nat : Within(c, t, n) => Reaches(channel[c], local[c][k], k, v, n)

\* A message arrives.
LEMMA ToldThen ==
  ASSUME NEW ch \in Seq(Messages), ch # <<>>, NEW kn, NEW kn2, NEW u, NEW n \in Nat, NEW m \in Nat,
         (m = 0 /\ n = 0) \/ m = n + 1,
         Told(ch, kn, u, m), kn \subseteq kn2, Says(Head(ch), u) => u \in kn2
  PROVE  Told(Tail(ch), kn2, u, n)
  <1>1. /\ Len(ch) \in Nat \ {0} /\ DOMAIN ch = 1..Len(ch) /\ Head(ch) = ch[1]
        /\ DOMAIN Tail(ch) = 1..(Len(ch) - 1)
        /\ \A i \in 1..(Len(ch) - 1) : Tail(ch)[i] = ch[i + 1]
    BY TailOf
  <1>2. CASE u \in kn
    BY <1>2 DEF Told
  <1>3. ASSUME NEW p \in 1..m, p \in DOMAIN ch, Says(ch[p], u) PROVE Told(Tail(ch), kn2, u, n)
    <2>1. CASE p = 1
      BY <1>1, <1>3, <2>1 DEF Told
    <2>2. CASE p # 1
      <3>1. p - 1 \in 1..n /\ p - 1 \in 1..(Len(ch) - 1) /\ (p - 1) + 1 = p
        BY <1>1, <1>3, <2>2
      <3>2. Tail(ch)[p - 1] = ch[p]
        BY <1>1, <3>1
      <3>3. QED
        BY <1>1, <1>3, <3>1, <3>2 DEF Told
    <2>3. QED
      BY <2>1, <2>2
  <1>4. QED
    BY <1>2, <1>3 DEF Told

LEMMA ReachesThen ==
  ASSUME NEW ch \in Seq(Messages), ch # <<>>, NEW held, NEW held2, NEW k, NEW v,
         NEW n \in Nat, NEW m \in Nat, (m = 0 /\ n = 0) \/ m = n + 1,
         Reaches(ch, held, k, v, m),
         held2 = IF Carries(Head(ch), k) THEN Head(ch).item.value ELSE held
  PROVE  Reaches(Tail(ch), held2, k, v, n)
  <1>1. /\ Len(ch) \in Nat \ {0} /\ DOMAIN ch = 1..Len(ch) /\ Head(ch) = ch[1]
        /\ DOMAIN Tail(ch) = 1..(Len(ch) - 1)
        /\ \A i \in 1..(Len(ch) - 1) : Tail(ch)[i] = ch[i + 1]
    BY TailOf
  <1>2. PICK p \in 0..m :
          /\ p = 0 => held = v
          /\ p # 0 => p \in DOMAIN ch /\ Carries(ch[p], k) /\ ch[p].item.value = v
          /\ Settles(ch, k, v, p)
    BY DEF Reaches
  <1>3. ASSUME NEW p2 \in Nat, p <= p2 + 1 PROVE Settles(Tail(ch), k, v, p2)
    <2> SUFFICES ASSUME NEW q \in DOMAIN Tail(ch), q > p2, Carries(Tail(ch)[q], k)
                 PROVE  Tail(ch)[q].item.value = v
      BY DEF Settles
    <2>1. q + 1 \in DOMAIN ch /\ q + 1 > p /\ Tail(ch)[q] = ch[q + 1]
      BY <1>1, <1>3
    <2>2. QED
      BY <1>2, <2>1 DEF Settles
  <1>4. CASE p <= 1
    <2>1. held2 = v
      <3>1. CASE p = 1
        BY <1>1, <1>2, <3>1
      <3>2. CASE p = 0
        <4>1. Carries(ch[1], k) => ch[1].item.value = v
          BY <1>1, <1>2, <3>2 DEF Settles
        <4>2. QED
          BY <1>1, <1>2, <3>2, <4>1
      <3>3. QED
        BY <1>4, <3>1, <3>2
    <2>2. Settles(Tail(ch), k, v, 0)
      BY <1>3, <1>4
    <2>3. QED
      BY <2>1, <2>2 DEF Reaches
  <1>5. CASE p > 1
    <2>1. /\ p - 1 \in 0..n /\ p - 1 # 0 /\ p - 1 \in Nat /\ (p - 1) + 1 = p
          /\ p - 1 \in 1..(Len(ch) - 1)
      BY <1>1, <1>2, <1>5
    <2>2. Tail(ch)[p - 1] = ch[p]
      BY <1>1, <2>1
    <2>3. Settles(Tail(ch), k, v, p - 1)
      BY <1>3, <2>1
    <2>4. p - 1 \in DOMAIN Tail(ch) /\ Carries(Tail(ch)[p - 1], k) /\ Tail(ch)[p - 1].item.value = v
      BY <1>1, <1>2, <1>5, <2>1, <2>2
    <2>5. QED
      BY <2>1, <2>3, <2>4 DEF Reaches
  <1>6. QED
    BY <1>4, <1>5

\* More messages are sent.
Longer(ch, more) == \A p \in DOMAIN ch : p \in DOMAIN more /\ more[p] = ch[p]

LEMMA ToldLonger ==
  ASSUME NEW ch, NEW more, Longer(ch, more), NEW kn, NEW u, NEW m \in Nat, NEW n \in Nat, m <= n,
         Told(ch, kn, u, m)
  PROVE  Told(more, kn, u, n)
  BY DEF Longer, Told

LEMMA ReachesLonger ==
  ASSUME NEW ch, NEW more, Longer(ch, more), NEW held, NEW k, NEW v,
         NEW m \in Nat, NEW n \in Nat, m <= n, Reaches(ch, held, k, v, m),
         \A q \in DOMAIN more : q \notin DOMAIN ch /\ Carries(more[q], k) => more[q].item.value = v
  PROVE  Reaches(more, held, k, v, n)
  <1>1. PICK p \in 0..m :
          /\ p = 0 => held = v
          /\ p # 0 => p \in DOMAIN ch /\ Carries(ch[p], k) /\ ch[p].item.value = v
          /\ Settles(ch, k, v, p)
    BY DEF Reaches
  <1>2. Settles(more, k, v, p)
    BY <1>1 DEF Settles, Longer
  <1>3. p \in 0..n
    OBVIOUS
  <1>4. p # 0 => p \in DOMAIN more /\ Carries(more[p], k) /\ more[p].item.value = v
    BY <1>1 DEF Longer
  <1>5. QED
    BY <1>1, <1>2, <1>3, <1>4 DEF Reaches

\* What is within reach after a step was before: the same messages, or one
\* more, if one has arrived.
LEMMA WithinBefore ==
  ASSUME Typed, Typed', NEW c \in Clients, Promised(c), NEW t \in Nat \ {0}, NEW n \in Nat,
         Within(c, t, n)'
  PROVE  /\ Spared(c) \/ Connected(c) => Within(c, t, n)
         /\ Disconnected(c) => n = 0 /\ Within(c, t, 0)
         /\ Tells(c) => \E m \in Nat : m <= n /\ Within(c, t, m)
         /\ (\E m \in Messages : Arrives(c, m)) =>
              \E m \in Nat : ((m = 0 /\ n = 0) \/ m = n + 1) /\ Within(c, t, m)
  <1>1. ClientTyped(c) /\ ClientTyped(c)'
    BY TypedClient, PTL
  <1>2. ASSUME Spared(c) \/ Connected(c) PROVE Within(c, t, n)
    <2>1. connection'[c] = "on" /\ asked'[c] => connection[c] = "on" /\ asked[c]
      BY <1>2 DEF Spared, Connected, Promised
    <2>2. QED
      BY <1>2, <2>1 DEF Within, Spared, Connected
  <1>3. ASSUME Disconnected(c) PROVE n = 0 /\ Within(c, t, 0)
    <2>1. ~Completes(channel'[c], remaining'[c], n)
      BY <1>1, <1>3, EmptySeq DEF Completes, Disconnected, ClientTyped
    <2>2. n = 0 /\ t <= since[c]
      BY <1>3, <2>1 DEF Within, Disconnected
    <2>3. QED
      BY <2>2 DEF Within
  <1>4. ASSUME Tells(c) PROVE \E m \in Nat : m <= n /\ Within(c, t, m)
    <2>1. handling.command \in Commands
      BY <1>4 DEF Tells
    <2>2. /\ Len(channel'[c]) = Len(channel[c]) + 1
          /\ DOMAIN channel'[c] = 1..(Len(channel[c]) + 1)
          /\ \A i \in 1..Len(channel[c]) : channel'[c][i] = channel[c][i]
          /\ ~Starts(channel'[c][Len(channel[c]) + 1])
      BY <1>1, <1>4, <2>1, TellsIsCommand, Appended DEF Tells, ClientTyped
    <2>3. /\ connection[c] = "on" /\ asked'[c] = asked[c] /\ remaining'[c] = remaining[c]
          /\ since'[c] = since[c] /\ pending'[c] = pending[c]
      BY <1>4 DEF Tells
    <2>4. CASE n = 0 /\ t <= since[c]
      BY <2>4 DEF Within
    <2>5. CASE Completes(channel'[c], remaining'[c], n) /\ t <= pending[c]
      <3>1. CASE n = remaining[c]
        <4>1. n \in DOMAIN channel[c]
          BY <1>1, <2>2, <2>3, <2>5, <3>1 DEF Completes, Promised, ClientTyped
        <4>2. QED
          BY <2>5, <3>1, <4>1 DEF Within, Completes
      <3>2. ASSUME NEW p \in DOMAIN channel'[c], Starts(channel'[c][p]), n = p + channel'[c][p].nb
            PROVE  Within(c, t, n)
        <4>1. p \in DOMAIN channel[c] /\ channel'[c][p] = channel[c][p]
          BY <1>1, <2>2, <3>2 DEF ClientTyped
        <4>2. n <= Len(channel[c])
          BY <2>3, <3>2, <4>1 DEF Promised
        <4>3. n \in DOMAIN channel[c]
          BY <1>1, <2>5, <4>2 DEF Completes, ClientTyped
        <4>4. QED
          BY <2>5, <3>2, <4>1, <4>3 DEF Within, Completes
      <3>3. QED
        BY <2>3, <2>5, <3>1, <3>2 DEF Completes
    <2>6. CASE n = Len(channel'[c]) /\ asked[c]
      <3>1. Len(channel[c]) \in Nat /\ Len(channel[c]) <= n
        BY <1>1, <2>2, <2>6 DEF ClientTyped
      <3>2. QED
        BY <2>3, <2>6, <3>1 DEF Within
    <2>7. QED
      BY <2>3, <2>4, <2>5, <2>6 DEF Within
  <1>5. ASSUME NEW m \in Messages, Arrives(c, m)
        PROVE  \E i \in Nat : ((i = 0 /\ n = 0) \/ i = n + 1) /\ Within(c, t, i)
    <2>1. /\ Len(channel[c]) \in Nat \ {0} /\ DOMAIN channel[c] = 1..Len(channel[c])
          /\ m = channel[c][1]
          /\ Len(channel'[c]) = Len(channel[c]) - 1
          /\ DOMAIN channel'[c] = 1..(Len(channel[c]) - 1)
          /\ \A i \in 1..(Len(channel[c]) - 1) : channel'[c][i] = channel[c][i + 1]
      BY <1>1, <1>5, TailOf DEF Arrives, ClientTyped
    <2>2. asked'[c] = asked[c] /\ connection'[c] = connection[c]
      BY <1>5 DEF Arrives
    <2>3. \/ /\ Starts(m) /\ remaining'[c] = m.nb
             /\ since'[c] = since[c] /\ pending'[c] = pending[c]
          \/ /\ remaining[c] = 1 /\ since'[c] = pending[c] /\ pending'[c] = 0
          \/ /\ remaining'[c] = IF remaining[c] > 0 THEN remaining[c] - 1 ELSE 0
             /\ since'[c] = since[c] /\ pending'[c] = pending[c]
      BY <1>5 DEF Arrives
    <2>4. CASE n = 0 /\ t <= since'[c]
      <3>1. CASE since'[c] = since[c]
        BY <2>4, <3>1 DEF Within
      <3>2. CASE remaining[c] = 1 /\ since'[c] = pending[c]
        <4>1. Completes(channel[c], remaining[c], 1)
          BY <2>1, <3>2 DEF Completes
        <4>2. Within(c, t, 1) /\ 1 = n + 1
          BY <2>4, <3>2, <4>1 DEF Within
        <4>3. QED
          BY <4>2
      <3>3. QED
        BY <2>3, <3>1, <3>2
    <2>5. CASE Completes(channel'[c], remaining'[c], n) /\ t <= pending'[c]
      <3>1. /\ pending'[c] = pending[c]
            /\ \/ Starts(m) /\ remaining'[c] = m.nb
               \/ remaining'[c] = IF remaining[c] > 0 THEN remaining[c] - 1 ELSE 0
        BY <2>3, <2>5
      <3>2. n \in 1..(Len(channel[c]) - 1) /\ n + 1 \in DOMAIN channel[c]
        BY <2>1, <2>5 DEF Completes
      <3>3. ASSUME n = remaining'[c] PROVE Completes(channel[c], remaining[c], n + 1)
        <4>1. CASE Starts(m) /\ remaining'[c] = m.nb
          <5>1. 1 \in DOMAIN channel[c] /\ Starts(channel[c][1]) /\ n + 1 = 1 + channel[c][1].nb
            BY <2>1, <3>2, <3>3, <4>1
          <5>2. QED
            BY <3>2, <5>1 DEF Completes
        <4>2. CASE remaining'[c] = IF remaining[c] > 0 THEN remaining[c] - 1 ELSE 0
          <5>1. n + 1 = remaining[c]
            BY <1>1, <3>2, <3>3, <4>2 DEF ClientTyped
          <5>2. QED
            BY <3>2, <5>1 DEF Completes
        <4>3. QED
          BY <3>1, <4>1, <4>2
      <3>4. ASSUME NEW p \in DOMAIN channel'[c], Starts(channel'[c][p]), n = p + channel'[c][p].nb
            PROVE  Completes(channel[c], remaining[c], n + 1)
        <4>1. /\ p \in Nat /\ p + 1 \in DOMAIN channel[c] /\ channel'[c][p] = channel[c][p + 1]
          BY <2>1
        <4>2. channel'[c][p].nb \in Nat
          BY <1>1, <3>4 DEF ClientTyped
        <4>3. n + 1 = (p + 1) + channel[c][p + 1].nb
          BY <3>4, <4>1, <4>2
        <4>4. QED
          BY <3>2, <3>4, <4>1, <4>3 DEF Completes
      <3>5. Completes(channel[c], remaining[c], n + 1)
        BY <2>5, <3>3, <3>4 DEF Completes
      <3>6. n + 1 \in Nat /\ Within(c, t, n + 1)
        BY <2>5, <3>1, <3>5 DEF Within
      <3>7. QED
        BY <3>6
    <2>6. CASE n = Len(channel'[c]) /\ connection[c] = "on" /\ asked[c]
      <3>1. n + 1 = Len(channel[c]) /\ n + 1 \in Nat
        BY <2>1, <2>6
      <3>2. Within(c, t, n + 1)
        BY <2>6, <3>1 DEF Within
      <3>3. QED
        BY <3>1, <3>2
    <2>7. QED
      BY <2>2, <2>4, <2>5, <2>6 DEF Within
  <1>6. QED
    BY <1>2, <1>3, <1>4, <1>5

-----------------------------------------------------------------------------
(* What the steps do to what a client will know and hold.                  *)

\* It keeps what it will know, whatever happens to it but a request.
LEMMA KnowsKept ==
  ASSUME Typed, Typed', NEW c \in Clients, Promised(c),
         \/ Spared(c) \/ Connected(c) \/ Disconnected(c) \/ Tells(c)
         \/ \E m \in Messages : Arrives(c, m),
         NEW u, NEW t \in Nat \ {0}, Knows(c, u, t)
  PROVE  Knows(c, u, t)'
  <1> SUFFICES ASSUME NEW n \in Nat, Within(c, t, n)'
               PROVE  Told(channel'[c], known'[c], u, n)
    BY DEF Knows
  <1>0. ClientTyped(c)
    BY TypedClient
  <1>1. CASE Spared(c) \/ Connected(c)
    <2>1. Told(channel[c], known[c], u, n)
      BY <1>1, WithinBefore DEF Knows
    <2>2. channel'[c] = channel[c] /\ known'[c] = known[c]
      BY <1>1 DEF Spared, Connected
    <2>3. QED
      BY <2>1, <2>2
  <1>2. CASE Disconnected(c)
    <2>1. n = 0 /\ Told(channel[c], known[c], u, 0)
      BY <1>2, WithinBefore DEF Knows
    <2>2. known'[c] = known[c]
      BY <1>2 DEF Disconnected
    <2>3. QED
      BY <2>1, <2>2 DEF Told
  <1>3. CASE Tells(c)
    <2>1. PICK m \in Nat : m <= n /\ Within(c, t, m)
      BY <1>3, WithinBefore
    <2>2. Told(channel[c], known[c], u, m)
      BY <2>1 DEF Knows
    <2>3. Longer(channel[c], channel'[c]) /\ known'[c] = known[c]
      BY <1>0, <1>3, TellsIsCommand, Appended DEF Tells, Longer, ClientTyped
    <2>4. QED
      BY <2>1, <2>2, <2>3, ToldLonger
  <1>4. ASSUME NEW msg \in Messages, Arrives(c, msg)
        PROVE  Told(channel'[c], known'[c], u, n)
    <2>1. PICK m \in Nat : ((m = 0 /\ n = 0) \/ m = n + 1) /\ Within(c, t, m)
      BY <1>4, WithinBefore
    <2>2. Told(channel[c], known[c], u, m)
      BY <2>1 DEF Knows
    <2>3. /\ channel[c] \in Seq(Messages) /\ channel[c] # <<>> /\ channel'[c] = Tail(channel[c])
          /\ msg = Head(channel[c])
          /\ known[c] \subseteq known'[c] /\ (Says(msg, u) => u \in known'[c])
      BY <1>0, <1>4 DEF Arrives, ClientTyped, Says, Starts
    <2>4. Told(Tail(channel[c]), known'[c], u, n)
      BY <2>1, <2>2, <2>3, ToldThen
    <2>5. QED
      BY <2>3, <2>4
  <1>5. QED
    BY <1>1, <1>2, <1>3, <1>4

\* It keeps what it will hold, unless it is told of another value.
LEMMA GetsKept ==
  ASSUME Typed, Typed', NEW c \in Clients, Promised(c),
         \/ Spared(c) \/ Connected(c) \/ Disconnected(c) \/ Tells(c)
         \/ \E m \in Messages : Arrives(c, m),
         NEW k \in Keys, NEW v, NEW t \in Nat \ {0}, Gets(c, k, v, t),
         Tells(c) => KeyOf(handling.command) # k
  PROVE  Gets(c, k, v, t)'
  <1> SUFFICES ASSUME NEW n \in Nat, Within(c, t, n)'
               PROVE  Reaches(channel'[c], local'[c][k], k, v, n)
    BY DEF Gets
  <1>0. ClientTyped(c)
    BY TypedClient
  <1>1. CASE Spared(c) \/ Connected(c)
    <2>1. Reaches(channel[c], local[c][k], k, v, n)
      BY <1>1, WithinBefore DEF Gets
    <2>2. channel'[c] = channel[c] /\ local'[c] = local[c]
      BY <1>1 DEF Spared, Connected
    <2>3. QED
      BY <2>1, <2>2
  <1>2. CASE Disconnected(c)
    <2>1. n = 0 /\ Reaches(channel[c], local[c][k], k, v, 0)
      BY <1>2, WithinBefore DEF Gets
    <2>2. local'[c] = local[c] /\ channel'[c] = <<>>
      BY <1>2 DEF Disconnected
    <2>3. QED
      BY <2>1, <2>2 DEF Reaches, Settles
  <1>3. CASE Tells(c)
    <2>1. PICK m \in Nat : m <= n /\ Within(c, t, m)
      BY <1>3, WithinBefore
    <2>2. Reaches(channel[c], local[c][k], k, v, m)
      BY <2>1 DEF Gets
    <2>3. handling.command \in Commands /\ ~Carries(TellOf(handling.command), k)
      BY <1>3, TellsIsCommand DEF Tells
    <2>4. /\ Longer(channel[c], channel'[c]) /\ local'[c] = local[c]
          /\ \A q \in DOMAIN channel'[c] : q \notin DOMAIN channel[c] => ~Carries(channel'[c][q], k)
      <3>1. /\ DOMAIN channel[c] = 1..Len(channel[c]) /\ Len(channel[c]) \in Nat
            /\ DOMAIN channel'[c] = 1..(Len(channel[c]) + 1)
            /\ \A i \in 1..Len(channel[c]) : channel'[c][i] = channel[c][i]
            /\ channel'[c][Len(channel[c]) + 1] = TellOf(handling.command)
        BY <1>0, <1>3, TellsIsCommand, Appended DEF Tells, ClientTyped
      <3>2. \A q \in DOMAIN channel'[c] : q \notin DOMAIN channel[c] => q = Len(channel[c]) + 1
        BY <3>1
      <3>3. QED
        BY <1>3, <2>3, <3>1, <3>2 DEF Longer, Tells
    <2>5. QED
      BY <2>1, <2>2, <2>4, ReachesLonger
  <1>4. ASSUME NEW msg \in Messages, Arrives(c, msg)
        PROVE  Reaches(channel'[c], local'[c][k], k, v, n)
    <2>1. PICK m \in Nat : ((m = 0 /\ n = 0) \/ m = n + 1) /\ Within(c, t, m)
      BY <1>4, WithinBefore
    <2>2. Reaches(channel[c], local[c][k], k, v, m)
      BY <2>1 DEF Gets
    <2>3. /\ channel[c] \in Seq(Messages) /\ channel[c] # <<>> /\ channel'[c] = Tail(channel[c])
          /\ msg = Head(channel[c])
          /\ local'[c][k] = IF Carries(msg, k) THEN msg.item.value ELSE local[c][k]
      BY <1>0, <1>4 DEF Arrives, ClientTyped, Carries, Starts
    <2>4. Reaches(Tail(channel[c]), local'[c][k], k, v, n)
      BY <2>1, <2>2, <2>3, ReachesThen
    <2>5. QED
      BY <2>3, <2>4
  <1>5. QED
    BY <1>1, <1>2, <1>3, <1>4

\* After its request it has within reach what it had asked for before, or
\* all of it, when all could be read.
LEMMA WithinAnswer ==
  ASSUME Inv, Typed, Typed', NEW c \in Clients, Promised(c),
         NEW rows \in Seq(Operation), NEW sent \in Nat, Answered(c, rows, sent),
         NEW t, NEW n \in Nat, Within(c, t, n)'
  PROVE  \/ n = 0 /\ t <= since[c]
         \/ sent = Len(rows) /\ n = Len(channel'[c])
  <1>1. ClientTyped(c) /\ ClientTyped(c)'
    BY TypedClient, PTL
  <1>2. /\ remaining'[c] = 0 /\ since'[c] = since[c]
        /\ connection'[c] = IF sent = Len(rows) THEN "on" ELSE "closing"
    BY DEF Answered, Promised
  <1>3. CASE Completes(channel'[c], remaining'[c], n)
    <2>1. n \in DOMAIN channel'[c] /\ n # remaining'[c] /\ n <= Len(channel'[c])
      BY <1>1, <1>2, <1>3 DEF Completes, ClientTyped
    <2>2. PICK p \in DOMAIN channel'[c] : Starts(channel'[c][p]) /\ n = p + channel'[c][p].nb
      BY <1>3, <2>1 DEF Completes
    <2>3. /\ n = Len(channel[c]) + 1 + Len(rows)
          /\ Len(channel'[c]) = Len(channel[c]) + 1 + sent
          /\ sent \in Nat /\ Len(rows) \in Nat /\ Len(channel[c]) \in Nat
      BY <2>2, AnswerIsAnnounced
    <2>4. sent <= Len(rows)
      BY DEF Answered
    <2>5. sent = Len(rows)
      BY <2>1, <2>3, <2>4
    <2>6. QED
      BY <2>3, <2>5
  <1>4. QED
    BY <1>2, <1>3 DEF Within

\* The rows that a client asks for: those of a later time that concern it.
LEMMA AnswerRows ==
  ASSUME Inv, Typed, NEW c \in Clients, NEW rows \in Seq(Operation), NEW sent \in Nat,
         Answered(c, rows, sent)
  PROVE  /\ \A i \in DOMAIN operations :
              /\ operations[i].time > since[c]
              /\ Concerns(operations[i].ownership, operations[i].user, c)
              => \E k \in 1..Len(rows) : rows[k] = operations[i]
         /\ \A k \in 1..Len(rows) : \E i \in DOMAIN operations : rows[k] = operations[i]
  <1>1. Selected(c) \in SUBSET DOMAIN operations /\ rows \in Results(Selected(c))
    BY DEF Selected, Answered
  <1>2. /\ \A i \in Selected(c) : \E k \in 1..Len(rows) : rows[k] = operations[i]
        /\ \A k \in 1..Len(rows) : \E i \in Selected(c) : rows[k] = operations[i]
    BY <1>1, SelectedRows DEF Inv
  <1>3. QED
    BY <1>1, <1>2 DEF Selected

LEMMA AnswerKnows ==
  ASSUME Inv, Typed, Typed', NEW c \in Clients, Promised(c),
         NEW rows \in Seq(Operation), NEW sent \in Nat, Answered(c, rows, sent),
         NEW i \in DOMAIN operations,
         Concerns(operations[i].ownership, operations[i].user, c),
         NEW u, u = operations[i].key, NEW t \in Nat, t = operations[i].time, Knows(c, u, t)
  PROVE  Knows(c, u, t)'
  <1> SUFFICES ASSUME NEW n \in Nat, Within(c, t, n)'
               PROVE  Told(channel'[c], known'[c], u, n)
    BY DEF Knows
  <1>1. PICK old : old = Len(channel[c])
    OBVIOUS
  <1>2. Extends(c, rows, sent, old)
    BY <1>1, AnswerShape
  <1>3. known'[c] = known[c] /\ Longer(channel[c], channel'[c])
    BY <1>2 DEF Answered, Extends, Longer
  <1>4. CASE t <= since[c]
    <2>1. Told(channel[c], known[c], u, 0)
      BY <1>4 DEF Knows, Within
    <2>2. QED
      BY <1>3, <2>1, ToldLonger
  <1>5. CASE ~(t <= since[c])
    <2>1. sent = Len(rows) /\ n = Len(channel'[c])
      BY <1>5, WithinAnswer
    <2>2. t > since[c]
      BY <1>5, TypedClient DEF ClientTyped
    <2>3. PICK k \in 1..Len(rows) : rows[k] = operations[i]
      BY <2>2, AnswerRows
    <2>4. /\ old + 1 + k \in DOMAIN channel'[c]
          /\ channel'[c][old + 1 + k] = SyncMessage(rows[k])
      BY <1>2, <2>1 DEF Extends
    <2>5. Says(channel'[c][old + 1 + k], u)
      BY <2>3, <2>4 DEF SyncMessage, Message, Says
    <2>6. old + 1 + k \in 1..n
      BY <1>2, <2>1, <2>4 DEF Extends
    <2>7. QED
      BY <2>4, <2>5, <2>6 DEF Told
  <1>6. QED
    BY <1>4, <1>5

RowTells(i, c) == Concerns(operations[i].ownership, operations[i].user, c)

\* The operation i is the last on the item with this key.
Newest(i, k) ==
    /\ KeyOf(operations[i].key) = k
    /\ \A j \in DOMAIN operations :
         KeyOf(operations[j].key) = k => operations[j].time <= operations[i].time

LEMMA AnswerGets ==
  ASSUME Inv, Typed, Typed', NEW c \in Clients, Promised(c),
         NEW rows \in Seq(Operation), NEW sent \in Nat, Answered(c, rows, sent),
         NEW k \in Keys, NEW w \in DOMAIN operations, NEW j \in DOMAIN items,
         KeyOf(operations[w].key) = k, RefersTo(operations[w]), RowTells(w, c),
         items[j].key = k,
         NEW t \in Nat, t = operations[w].time, NEW v, v = items[j].value, Gets(c, k, v, t)
  PROVE  Gets(c, k, v, t)'
  <1> SUFFICES ASSUME NEW n \in Nat, Within(c, t, n)'
               PROVE  Reaches(channel'[c], local'[c][k], k, v, n)
    BY DEF Gets
  <1>1. PICK old : old = Len(channel[c])
    OBVIOUS
  <1>2. Extends(c, rows, sent, old)
    BY <1>1, AnswerShape
  <1>3. local'[c] = local[c] /\ Longer(channel[c], channel'[c]) /\ sent <= Len(rows)
        /\ old \in Nat /\ DOMAIN channel[c] = 1..old
    BY <1>2 DEF Answered, Extends, Longer
  \* Every message sent tells of the item's present value.
  <1>4. ASSUME NEW q \in DOMAIN channel'[c], q \notin DOMAIN channel[c], Carries(channel'[c][q], k)
        PROVE  channel'[c][q].item.value = v
    <2>1. q > old
      BY <1>2, <1>3, <1>4 DEF Extends
    <2>2. channel'[c][q] # Announcement(rows)
      BY <1>4 DEF Announcement, Carries
    <2>3. PICK x \in 1..sent : channel'[c][q] = SyncMessage(rows[x])
      BY <1>2, <2>1, <2>2 DEF Extends
    <2>4. Readable(rows[x])
      BY <2>3 DEF Answered, IsReadUpTo
    <2>5. items[rows[x].item].key = k
      BY <1>4, <2>3 DEF SyncMessage, Message, Carries
    <2>6. rows[x].item = j
      BY <2>4, <2>5 DEF Readable, Inv, RowsAreUnique, Unique
    <2>7. QED
      BY <2>3, <2>6 DEF SyncMessage, Message
  <1>5. CASE t <= since[c]
    <2>1. Reaches(channel[c], local[c][k], k, v, 0)
      BY <1>5 DEF Gets, Within
    <2>2. QED
      BY <1>3, <1>4, <2>1, ReachesLonger
  <1>6. CASE ~(t <= since[c])
    <2>1. sent = Len(rows) /\ n = Len(channel'[c])
      BY <1>6, WithinAnswer
    <2>2. t > since[c]
      BY <1>6, TypedClient DEF ClientTyped
    <2>3. PICK x \in 1..Len(rows) : rows[x] = operations[w]
      BY <2>2, AnswerRows DEF RowTells
    <2>4. /\ old + 1 + x \in DOMAIN channel'[c]
          /\ channel'[c][old + 1 + x] = SyncMessage(rows[x])
      BY <1>2, <2>1 DEF Extends
    <2>5. Carries(channel'[c][old + 1 + x], k) /\ old + 1 + x \notin DOMAIN channel[c]
      <3>1. Carries(channel'[c][old + 1 + x], k)
        BY <2>3, <2>4 DEF SyncMessage, Message, Carries, RefersTo
      <3>2. old + 1 + x \notin 1..old
        BY <1>3
      <3>3. QED
        BY <1>3, <3>1, <3>2
    <2>6. channel'[c][old + 1 + x].item.value = v
      BY <1>4, <2>4, <2>5
    <2>7. old + 1 + x \in 0..n /\ old + 1 + x # 0
      BY <1>2, <2>1, <2>4 DEF Extends
    <2>8. Settles(channel'[c], k, v, old + 1 + x)
      <3>1. \A q \in DOMAIN channel'[c] : q > old + 1 + x => q \notin DOMAIN channel[c]
        BY <1>2, <1>3 DEF Extends
      <3>2. QED
        BY <1>4, <3>1 DEF Settles
    <2>9. QED
      BY <2>4, <2>5, <2>6, <2>7, <2>8 DEF Reaches
  <1>7. QED
    BY <1>5, <1>6

-----------------------------------------------------------------------------
(* The invariant of convergence.                                           *)

\* Nobody has asked for, or is about to ask from, the present instant; and
\* what an operation says of its item and its audience is its command's.
RowsMatch ==
    /\ \A c \in Clients : since[c] < now /\ pending[c] < now
    /\ \A i \in DOMAIN operations :
         LET row == operations[i] IN
           /\ row.time <= now
           /\ row.ownership = Definition[row.key].ownership
           /\ row.user = RelatedUser(row.key)
           /\ KeyOf(row.key) \in Keys => row.item # 0

\* The item of the command being handled is written, as it is auto-saved.
Written ==
    handling.step \in {"process", "register", "post"} /\ KindOf(handling.command) = "auto"
      => \E j \in DOMAIN items : items[j] = Item(handling.command)

\* A client that is connected is told of the command.
IsTold(c, u) ==
    connection[c] = "on" =>
      /\ Told(channel[c], known[c], u, Len(channel[c]))
      /\ KeyOf(u) \in Keys =>
           Reaches(channel[c], local[c][KeyOf(u)], KeyOf(u), u, Len(channel[c]))

Propagated ==
    handling.step \in {"register", "post"} /\ KindOf(handling.command) # "bare"
      => \A c \in Audience(handling.command) : IsTold(c, handling.command)

\* Its operation is the last of all, and nobody has asked for it yet.
Registered ==
    handling.step = "post" =>
      \E i \in DOMAIN operations :
        /\ operations[i].key = handling.command
        /\ \A j \in DOMAIN operations : operations[j].time <= operations[i].time
        /\ \A c \in Clients : since[c] < operations[i].time /\ pending[c] < operations[i].time

\* The item with this key is not between two steps of its command, or left
\* there.
Writing(k) == Halfway /\ KeyOf(handling.command) = k
Done(k) ==
    handling.step = "post" /\ KeyOf(handling.command) = k /\ KindOf(handling.command) = "auto"
Fresh(k) == ~Writing(k) /\ (k \notin stale \/ Done(k))

\* The last operation on such an item refers to it.
LastRefers ==
    \A k \in Keys :
      Fresh(k) /\ (\E i \in DOMAIN operations : KeyOf(operations[i].key) = k)
        => \E i \in DOMAIN operations : Newest(i, k) /\ RefersTo(operations[i])

OperationsReach ==
    \A c \in Clients : \A i \in DOMAIN operations :
      RowTells(i, c) => Knows(c, operations[i].key, operations[i].time)

ValuesReach ==
    \A c \in Clients, k \in Keys : \A i \in DOMAIN operations, j \in DOMAIN items :
      Fresh(k) /\ OneAudience(k) /\ Newest(i, k) /\ RowTells(i, c) /\ items[j].key = k
        => Gets(c, k, items[j].value, operations[i].time)

Converging ==
    /\ RowsMatch
    /\ Written
    /\ Propagated
    /\ Registered
    /\ LastRefers
    /\ OperationsReach
    /\ ValuesReach

Base == Inv /\ Typed /\ AllPromised

LEMMA RowTyped ==
  ASSUME Inv, NEW i \in DOMAIN operations
  PROVE  operations[i].key \in Commands /\ operations[i].time \in Nat \ {0}
  <1>1. operations[i] \in Operation
    BY LenProperties, ElementOfSeq DEF Inv, TablesTyped
  <1>2. QED
    BY <1>1, OperationsAssumption DEF Operation

\* The operations that concern a client are those of the commands that do.
LEMMA AudienceOfRow ==
  ASSUME Inv, RowsMatch, NEW i \in DOMAIN operations, NEW c \in Clients
  PROVE  /\ operations[i].key \in Commands /\ operations[i].time \in Nat \ {0}
         /\ RowTells(i, c) <=> c \in Audience(operations[i].key)
  BY RowTyped DEF RowTells, Audience, RowsMatch

\* Two last operations of an item are of the same time, and concern the same
\* clients when its writers do.
LEMMA NewestAgree ==
  ASSUME Inv, RowsMatch, NEW k, NEW i \in DOMAIN operations, NEW w \in DOMAIN operations,
         Newest(i, k), Newest(w, k), NEW c \in Clients
  PROVE  /\ operations[i].time = operations[w].time
         /\ OneAudience(k) => (RowTells(i, c) <=> RowTells(w, c))
  <1>1. operations[i].time \in Nat /\ operations[w].time \in Nat
        /\ operations[i].key \in Commands /\ operations[w].key \in Commands
    BY AudienceOfRow
  <1>2. operations[i].time = operations[w].time
    BY <1>1 DEF Newest
  <1>3. OneAudience(k) => Audience(operations[i].key) = Audience(operations[w].key)
    BY <1>1 DEF OneAudience, Newest
  <1>4. QED
    BY <1>2, <1>3, AudienceOfRow

LEMMA InitConverging == Init => Converging
  <1> SUFFICES ASSUME Init PROVE Converging
    OBVIOUS
  <1> USE OperationsAssumption DEF Init
  <1>1. RowsMatch
    BY DEF RowsMatch
  <1>2. Written /\ Propagated /\ Registered
    BY DEF Written, Propagated, Registered, Idle
  <1>3. LastRefers /\ OperationsReach /\ ValuesReach
    BY DEF LastRefers, OperationsReach, ValuesReach
  <1>4. QED
    BY <1>1, <1>2, <1>3 DEF Converging

-----------------------------------------------------------------------------
(* Steps that leave the tables alone.                                      *)

\* Whatever happens to the clients, they keep what they will have, as long as
\* no other value of the item is sent.
LEMMA TablesAlone ==
  ASSUME Base, Base', Converging, UNCHANGED tables,
         \A k \in Keys : Fresh(k)' => Fresh(k),
         \A c \in Clients : /\ ClientStep(c)
                            /\ Tells(c) => \A k \in Keys : Fresh(k)' => KeyOf(handling.command) # k
  PROVE  LastRefers' /\ OperationsReach' /\ ValuesReach'
  <1> USE DEF tables
  <1>0. Inv /\ Typed /\ Typed' /\ \A c \in Clients : Promised(c)
    BY DEF Base, AllPromised
  <1>1. LastRefers'
    <2>1. \A i \in DOMAIN operations, k \in Keys : Newest(i, k) => Newest(i, k)'
      BY DEF Newest, KeyOf
    <2>2. \A i \in DOMAIN operations : RefersTo(operations[i]) => RefersTo(operations[i])'
      BY DEF RefersTo, KeyOf
    <2>3. QED
      BY <2>1, <2>2 DEF Converging, LastRefers, KeyOf
  <1>2. OperationsReach'
    <2>1. ASSUME NEW c \in Clients, NEW i \in DOMAIN operations, RowTells(i, c),
                 NEW u, u = operations[i].key, NEW t, t = operations[i].time
          PROVE  Knows(c, u, t)'
      <3>1. Knows(c, u, t) /\ t \in Nat \ {0}
        BY <1>0, <2>1, AudienceOfRow DEF Converging, OperationsReach
      <3>2. ClientStep(c) /\ Promised(c)
        BY <1>0
      <3>3. ASSUME NEW rows \in Seq(Operation), NEW sent \in Nat, Answered(c, rows, sent)
            PROVE  Knows(c, u, t)'
        BY <1>0, <2>1, <3>1, <3>2, <3>3, AnswerKnows DEF RowTells
      <3>4. ASSUME \/ Spared(c) \/ Connected(c) \/ Disconnected(c) \/ Tells(c)
                   \/ \E m \in Messages : Arrives(c, m)
            PROVE  Knows(c, u, t)'
        BY <1>0, <3>1, <3>2, <3>4, KnowsKept
      <3>5. QED
        BY <3>2, <3>3, <3>4 DEF ClientStep
    <2>2. \A c \in Clients : \A i \in DOMAIN operations :
            RowTells(i, c) => \A u, t : u = operations'[i].key /\ t = operations'[i].time => Knows(c, u, t)'
      BY <2>1
    <2>3. QED
      BY <2>2 DEF OperationsReach, RowTells
  <1>3. ValuesReach'
    <2>1. ASSUME NEW c \in Clients, NEW k \in Keys, NEW i \in DOMAIN operations,
                 NEW j \in DOMAIN items,
                 Fresh(k)', OneAudience(k), Newest(i, k), RowTells(i, c), items[j].key = k,
                 NEW v, v = items[j].value, NEW t, t = operations[i].time
          PROVE  Gets(c, k, v, t)'
      <3>0. Fresh(k)
        BY <2>1
      <3>1. Gets(c, k, v, t) /\ t \in Nat \ {0}
        BY <1>0, <2>1, <3>0, AudienceOfRow DEF Converging, ValuesReach
      <3>2. ClientStep(c) /\ Promised(c) /\ (Tells(c) => KeyOf(handling.command) # k)
        BY <1>0, <2>1
      <3>3. ASSUME NEW rows \in Seq(Operation), NEW sent \in Nat, Answered(c, rows, sent)
            PROVE  Gets(c, k, v, t)'
        <4>1. PICK w \in DOMAIN operations : Newest(w, k) /\ RefersTo(operations[w])
          BY <2>1, <3>0 DEF Converging, LastRefers, Newest
        <4>2. operations[w].time = t /\ RowTells(w, c) /\ KeyOf(operations[w].key) = k
          BY <1>0, <2>1, <4>1, NewestAgree DEF Converging, Newest
        <4>3. QED
          BY <1>0, <2>1, <3>1, <3>2, <3>3, <4>1, <4>2, AnswerGets
      <3>4. ASSUME \/ Spared(c) \/ Connected(c) \/ Disconnected(c) \/ Tells(c)
                   \/ \E m \in Messages : Arrives(c, m)
            PROVE  Gets(c, k, v, t)'
        BY <1>0, <3>1, <3>2, <3>4, GetsKept
      <3>5. QED
        BY <3>2, <3>3, <3>4 DEF ClientStep
    <2>2. \A c \in Clients, k \in Keys : \A i \in DOMAIN operations, j \in DOMAIN items :
            Fresh(k)' /\ OneAudience(k) /\ Newest(i, k) /\ RowTells(i, c) /\ items[j].key = k
            => \A v, t : v = items'[j].value /\ t = operations'[i].time => Gets(c, k, v, t)'
      BY <2>1
    <2>3. QED
      BY <2>2 DEF ValuesReach, RowTells, OneAudience, Newest, KeyOf, Audience, RelatedUser, Concerns
  <1>4. QED
    BY <1>1, <1>2, <1>3

-----------------------------------------------------------------------------
(* Steps of the network, the clients and the clock preserve the invariant. *)

\* Whatever is asked for is of an earlier instant.
LEMMA ClientsBehind ==
  ASSUME Base, Base', Converging, now <= now', NEW c \in Clients, ClientStep(c)
  PROVE  since'[c] < now' /\ pending'[c] < now'
  <1>1. /\ now \in Nat \ {0} /\ now' \in Nat \ {0}
        /\ since[c] < now /\ pending[c] < now
        /\ since[c] \in Nat /\ pending[c] \in Nat
    BY TypedClient, OperationsAssumption DEF Base, Inv, TablesTyped, Converging, RowsMatch, ClientTyped
  <1>2. /\ since'[c] = since[c] \/ since'[c] = pending[c]
        /\ pending'[c] = pending[c] \/ pending'[c] = 0 \/ pending'[c] = now - 1
    BY DEF ClientStep, Spared, Connected, Disconnected, Tells, Arrives, Answered
  <1>3. QED
    BY <1>1, <1>2

LEMMA RowsMatchKept ==
  ASSUME Base, Base', Converging, now <= now', UNCHANGED operations,
         \A c \in Clients : ClientStep(c)
  PROVE  RowsMatch'
  <1>1. \A c \in Clients : since'[c] < now' /\ pending'[c] < now'
    BY ClientsBehind
  <1>2. now \in Nat /\ now' \in Nat
    BY OperationsAssumption DEF Base, Inv, TablesTyped
  <1>3. \A i \in DOMAIN operations : operations[i].time <= now'
    BY <1>2, RowTyped DEF Base, Converging, RowsMatch
  <1>4. QED
    BY <1>1, <1>3 DEF Converging, RowsMatch, RelatedUser, KeyOf

\* What is on its way to a client stays so while the command is handled.
LEMMA IsToldKept ==
  ASSUME Typed, Typed', NEW c \in Clients, NEW u, IsTold(c, u),
         \/ Spared(c) \/ Disconnected(c)
         \/ \E m \in Messages : Arrives(c, m)
  PROVE  IsTold(c, u)'
  <1>1. CASE Spared(c)
    BY <1>1 DEF Spared, IsTold, KeyOf
  <1>2. CASE Disconnected(c)
    BY <1>2 DEF Disconnected, IsTold
  <1>3. ASSUME NEW m \in Messages, Arrives(c, m) PROVE IsTold(c, u)'
    <2> SUFFICES ASSUME connection[c] = "on"
                 PROVE  /\ Told(channel'[c], known'[c], u, Len(channel'[c]))
                        /\ KeyOf(u) \in Keys =>
                             Reaches(channel'[c], local'[c][KeyOf(u)], KeyOf(u), u, Len(channel'[c]))
      BY <1>3 DEF IsTold, Arrives, KeyOf
    <2>1. /\ channel[c] \in Seq(Messages) /\ channel[c] # <<>> /\ channel'[c] = Tail(channel[c])
          /\ m = Head(channel[c])
          /\ Len(channel[c]) \in Nat /\ Len(channel'[c]) \in Nat
          /\ Len(channel[c]) = Len(channel'[c]) + 1
      BY <1>3, TypedClient, TailOf DEF Arrives, ClientTyped
    <2>2. known[c] \subseteq known'[c] /\ (Says(m, u) => u \in known'[c])
      BY <1>3 DEF Arrives, Says, Starts
    <2>3. \A k \in Keys : local'[c][k] = IF Carries(m, k) THEN m.item.value ELSE local[c][k]
      BY <1>3 DEF Arrives, Carries, Starts
    <2>4. Told(channel'[c], known'[c], u, Len(channel'[c]))
      BY <2>1, <2>2, ToldThen DEF IsTold
    <2>5. ASSUME KeyOf(u) \in Keys
          PROVE  Reaches(channel'[c], local'[c][KeyOf(u)], KeyOf(u), u, Len(channel'[c]))
      BY <2>1, <2>3, <2>5, ReachesThen DEF IsTold
    <2>6. QED
      BY <2>4, <2>5
  <1>4. QED
    BY <1>1, <1>2, <1>3

\* The steps of the network, the clients and the clock; those that end a
\* command or begin one.
LEMMA QuietStep ==
  ASSUME Base, Base', Converging, UNCHANGED tables, now <= now',
         \/ /\ UNCHANGED <<handling, history>>
            /\ handling.step \in {"register", "post"} =>
                 \A c \in Clients : \/ Spared(c) \/ Disconnected(c)
                                    \/ \E m \in Messages : Arrives(c, m)
         \/ handling'.step \in {"none", "save"},
         \A k \in Keys : Fresh(k)' => Fresh(k),
         \A c \in Clients : ClientStep(c) /\ ~Tells(c)
  PROVE  Converging'
  <1>1. RowsMatch'
    BY RowsMatchKept DEF tables
  <1>2. LastRefers' /\ OperationsReach' /\ ValuesReach'
    BY TablesAlone
  <1>3. CASE handling'.step \in {"none", "save"}
    <2>1. Written' /\ Propagated' /\ Registered'
      BY <1>3 DEF Written, Propagated, Registered
    <2>2. QED
      BY <1>1, <1>2, <2>1 DEF Converging
  <1>4. CASE /\ UNCHANGED <<handling, history>>
             /\ handling.step \in {"register", "post"} =>
                  \A c \in Clients : \/ Spared(c) \/ Disconnected(c)
                                     \/ \E m \in Messages : Arrives(c, m)
    <2>1. Written'
      BY <1>4 DEF Converging, Written, tables, KindOf, Item, KeyOf
    <2>2. Propagated'
      <3> SUFFICES ASSUME handling.step \in {"register", "post"},
                          KindOf(handling.command) # "bare",
                          NEW c \in Audience(handling.command)
                   PROVE  IsTold(c, handling.command)'
        BY <1>4 DEF Propagated, KindOf, Audience, RelatedUser, Concerns
      <3>1. PICK u : u = handling.command
        OBVIOUS
      <3>2. c \in Clients /\ IsTold(c, u)
        BY <3>1 DEF Audience, Converging, Propagated
      <3>3. IsTold(c, u)'
        BY <1>4, <3>2, IsToldKept DEF Base
      <3>4. QED
        BY <1>4, <3>1, <3>3
    <2>3. Registered'
      <3> SUFFICES ASSUME handling.step = "post" PROVE Registered'
        BY <1>4 DEF Registered
      <3>1. PICK i \in DOMAIN operations :
              /\ operations[i].key = handling.command
              /\ \A j \in DOMAIN operations : operations[j].time <= operations[i].time
              /\ \A c \in Clients : since[c] < operations[i].time /\ pending[c] < operations[i].time
        BY DEF Converging, Registered
      <3>2. operations[i].time \in Nat \ {0}
        BY RowTyped DEF Base
      <3>3. ASSUME NEW c \in Clients
            PROVE  since'[c] < operations[i].time /\ pending'[c] < operations[i].time
        <4>1. /\ since'[c] = since[c] \/ since'[c] = pending[c]
              /\ pending'[c] = pending[c] \/ pending'[c] = 0
          BY <1>4 DEF Spared, Disconnected, Arrives
        <4>2. QED
          BY <3>1, <3>2, <4>1
      <3>4. QED
        BY <1>4, <3>1, <3>3 DEF Registered, tables
    <2>4. QED
      BY <1>1, <1>2, <2>1, <2>2, <2>3 DEF Converging
  <1>5. QED
    BY <1>3, <1>4

\* An item that is not the command's, or is complete already, is as fresh
\* after a handler has ended as it was before.
LEMMA InterruptedFresh ==
  ASSUME Interrupted
  PROVE  \A k \in Keys : Fresh(k)' => Fresh(k)
  <1>1. \A k \in Keys : Writing(k) => k \in stale'
    BY DEF Interrupted, Writing, Halfway, Idle
  <1>2. stale \subseteq stale'
    BY DEF Interrupted, history
  <1>3. handling'.step = "none"
    BY DEF Interrupted, Idle
  <1>4. QED
    BY <1>1, <1>2, <1>3 DEF Fresh, Done

LEMMA ReceiveConverging ==
  ASSUME Base, Base', Converging, NEW d \in Clients, NEW u \in Commands, Receive(d, u),
         \A c \in Clients : ClientStep(c)
  PROVE  Converging'
  <1> USE DEF Receive
  <1>1. UNCHANGED tables /\ now' = now /\ now \in Nat /\ handling'.step = "save"
    BY OperationsAssumption DEF Base, Inv, TablesTyped
  <1>2. \A k \in Keys : Fresh(k)' => Fresh(k)
    BY DEF Fresh, Writing, Halfway, Done, Idle, history
  <1>3. \A c \in Clients : ~Tells(c)
    BY OperationsAssumption DEF Tells, Idle
  <1>4. QED
    BY <1>1, <1>2, <1>3, QuietStep

\* A client that is told of the command has one more message on its way.
LEMMA NotTold ==
  ASSUME Typed, NEW c \in Clients,
         Spared(c) \/ Disconnected(c) \/ \E m \in Messages : Arrives(c, m)
  PROVE  ~Tells(c)
  <1>1. ClientTyped(c)
    BY TypedClient
  <1>2. Tells(c) => Len(channel'[c]) = Len(channel[c]) + 1
    BY <1>1, TellsIsCommand, Appended DEF Tells, ClientTyped
  <1>3. (\E m \in Messages : Arrives(c, m)) => Len(channel'[c]) = Len(channel[c]) - 1
    BY <1>1, TailOf DEF Arrives, ClientTyped
  <1>4. Spared(c) \/ Disconnected(c) => Len(channel'[c]) <= Len(channel[c])
    BY <1>1, EmptySeq DEF Spared, Disconnected, ClientTyped
  <1>5. QED
    BY <1>1, <1>2, <1>3, <1>4 DEF ClientTyped

\* The steps of the network and the clients.
LEMMA NetworkConverging ==
  ASSUME Base, Base', Converging, [Next]_vars, NEW d \in Clients,
         ExecuteSyncRequest(d) \/ Deliver(d) \/ Connect(d) \/ Disconnect(d)
  PROVE  Converging'
  <1> USE DEF tables, network, clientVars, history
  <1>0. Inv /\ Typed /\ now \in Nat /\ \A c \in Clients : ClientStep(c)
    BY StepOfClient, OperationsAssumption DEF Base, Inv, TablesTyped
  <1>1. UNCHANGED <<tables, now, handling, history>> /\ now' = now
    BY DEF ExecuteSyncRequest, Deliver, Connect, Disconnect
  <1>2. \A k \in Keys : Fresh(k)' => Fresh(k)
    BY <1>1 DEF Fresh, Writing, Halfway, Done, KeyOf, KindOf
  <1>3. handling # Idle =>
          \A c \in Clients : Spared(c) \/ Disconnected(c) \/ \E m \in Messages : Arrives(c, m)
    <2>1. Deliver(d) => \A c \in Clients : Spared(c) \/ \E m \in Messages : Arrives(c, m)
      BY <1>0, DeliverStep
    <2>2. Disconnect(d) => \A c \in Clients : Spared(c) \/ Disconnected(c)
      BY <1>0 DEF Disconnect, Spared, Disconnected, Typed, NetworkTyped, ClientsTyped
    <2>3. QED
      BY <2>1, <2>2 DEF ExecuteSyncRequest, Connect
  <1>4. \A c \in Clients : ~Tells(c)
    <2>1. handling = Idle => \A c \in Clients : ~Tells(c)
      BY OperationsAssumption DEF Tells, Idle
    <2>2. QED
      BY <1>0, <1>3, <2>1, NotTold
  <1>5. QED
    BY <1>0, <1>1, <1>2, <1>3, <1>4, QuietStep DEF Idle

LEMMA TickConverging ==
  ASSUME Base, Base', Converging, Tick \/ UNCHANGED vars
  PROVE  Converging'
  <1> USE DEF Tick, vars, tables, network, clientVars, history
  <1>0. now \in Nat /\ now <= now' /\ UNCHANGED <<tables, handling, history, network, clientVars>>
    BY OperationsAssumption DEF Base, Inv, TablesTyped
  <1>1. \A c \in Clients : Spared(c) /\ ClientStep(c)
    BY <1>0 DEF Spared, ClientStep
  <1>2. \A k \in Keys : Fresh(k)' => Fresh(k)
    BY <1>0 DEF Fresh, Writing, Halfway, Done, KeyOf, KindOf
  <1>3. \A c \in Clients : ~Tells(c)
    BY <1>1, NotTold DEF Base
  <1>4. QED
    BY <1>0, <1>1, <1>2, <1>3, QuietStep

LEMMA CrashConverging ==
  ASSUME Base, Base', Converging, [Next]_vars, Crash
  PROVE  Converging'
  <1>1. now' = now /\ now \in Nat /\ UNCHANGED tables
    BY OperationsAssumption DEF Crash, Base, Inv, TablesTyped, tables
  <1>2. \A c \in Clients : ClientStep(c) /\ ~Tells(c)
    BY StepOfClient DEF Base, Crash, Tells
  <1>3. \A k \in Keys : Fresh(k)' => Fresh(k)
    BY InterruptedFresh DEF Crash
  <1>4. handling'.step = "none"
    BY DEF Crash, Interrupted, Idle
  <1>5. QED
    BY <1>1, <1>2, <1>3, <1>4, QuietStep

-----------------------------------------------------------------------------
(* The steps of the pipeline preserve the invariant.                       *)

LEMMA WrittenKept ==
  ASSUME Converging, UNCHANGED items,
         handling'.step \in {"process", "register", "post"} =>
           /\ handling.step \in {"process", "register", "post"}
           /\ handling'.command = handling.command
  PROVE  Written'
  BY DEF Converging, Written, KindOf, Item, KeyOf

\* The application sends the command to those whom it concerns.
LEMMA ProcessConverging ==
  ASSUME Base, Base', Converging, [Next]_vars, Process
  PROVE  Converging'
  <1>0. /\ Inv /\ Typed /\ now' = now /\ now \in Nat /\ UNCHANGED tables
        /\ handling.step = "process" /\ handling.command \in Commands
        /\ \A c \in Clients : ClientStep(c)
    BY StepOfClient, OperationsAssumption
    DEF Base, Inv, TablesTyped, HandlingTyped, Process, Handling, tables
  <1> DEFINE u == handling.command
  <1>1. CASE CutShort
    <2>1. handling' = Idle /\ Interrupted
      BY <1>1 DEF CutShort, Interrupted
    <2>2. \A c \in Clients : ~Tells(c)
      <3>1. \A c \in Clients : Spared(c)
        BY <1>0, <2>1, ProcessStep DEF Idle
      <3>2. QED
        BY <1>0, <3>1, NotTold
    <2>3. QED
      BY <1>0, <2>1, <2>2, InterruptedFresh, QuietStep DEF Idle
  <1>2. CASE Continue("register") /\ UNCHANGED history
    <2>1. handling'.step = "register" /\ handling'.command = u
      BY <1>2 DEF Continue, Base, Inv, HandlingTyped
    <2>2. \A c \in Clients :
            /\ connection'[c] = connection[c]
            /\ KindOf(u) = "bare" => Spared(c)
            /\ KindOf(u) # "bare" =>
                 IF connection[c] = "on" /\ c \in Audience(u) THEN Tells(c) ELSE Spared(c)
      BY <1>0, <2>1, ProcessStep DEF Idle
    <2>3. \A c \in Clients : Tells(c) => KindOf(u) # "bare"
      BY <1>0, <2>2, NotTold
    <2>4. \A k \in Keys : Fresh(k)' => Fresh(k)
      BY <1>0, <1>2, <2>1 DEF Fresh, Writing, Halfway, Done, history, KindOf, KeyOf
    <2>5. ASSUME NEW c \in Clients, Tells(c), NEW k \in Keys, Fresh(k)'
          PROVE  KeyOf(u) # k
      <3>1. KeyOf(u) = k => KindOf(u) \in {"auto", "late"}
        BY <1>0, OperationsAssumption DEF KeyOf, KindOf
      <3>2. KeyOf(u) = k => Writing(k)'
        BY <2>1, <3>1 DEF Writing, Halfway, KeyOf, KindOf
      <3>3. QED
        BY <2>5, <3>2 DEF Fresh
    <2>6. RowsMatch'
      BY <1>0, RowsMatchKept DEF tables
    <2>7. LastRefers' /\ OperationsReach' /\ ValuesReach'
      BY <1>0, <2>4, <2>5, TablesAlone
    <2>8. Written' /\ Registered'
      BY <1>0, <2>1, WrittenKept DEF Registered, tables
    <2>9. Propagated'
      <3> SUFFICES ASSUME KindOf(u) # "bare", NEW c \in Audience(u), NEW v, v = u
                   PROVE  IsTold(c, v)'
        BY <2>1 DEF Propagated, KindOf, Audience, RelatedUser, Concerns
      <3> SUFFICES ASSUME connection'[c] = "on"
                   PROVE  /\ Told(channel'[c], known'[c], v, Len(channel'[c]))
                          /\ KeyOf(v) \in Keys =>
                               Reaches(channel'[c], local'[c][KeyOf(v)], KeyOf(v), v, Len(channel'[c]))
        BY DEF IsTold, KeyOf
      <3>1. c \in Clients
        BY DEF Audience
      <3>2. Tells(c) /\ ClientTyped(c)
        BY <1>0, <2>2, <3>1, TypedClient
      <3>3. PICK n : n = Len(channel'[c])
        OBVIOUS
      <3>4. /\ n \in Nat \ {0} /\ DOMAIN channel'[c] = 1..n
            /\ channel'[c][n] = TellOf(v)
        BY <1>0, <3>2, <3>3, TellsIsCommand, Appended DEF Tells, ClientTyped
      <3>5. Told(channel'[c], known'[c], v, n)
        BY <1>0, <3>4, TellsIsCommand DEF Told
      <3>6. KeyOf(v) \in Keys => Reaches(channel'[c], local'[c][KeyOf(v)], KeyOf(v), v, n)
        BY <1>0, <3>4, TellsIsCommand DEF Reaches, Settles
      <3>7. QED
        BY <3>3, <3>5, <3>6
    <2>10. QED
      BY <2>6, <2>7, <2>8, <2>9 DEF Converging
  <1>3. QED
    BY <1>1, <1>2 DEF Process

\* Of what is later than its requests, a client has within reach only all
\* that is on its way.
LEMMA LatestReached ==
  ASSUME Typed, NEW c \in Clients, NEW u, IsTold(c, u),
         NEW t \in Nat, since[c] < t, pending[c] < t
  PROVE  /\ Knows(c, u, t)
         /\ KeyOf(u) \in Keys => Gets(c, KeyOf(u), u, t)
  <1>1. since[c] \in Nat /\ pending[c] \in Nat
    BY TypedClient DEF ClientTyped
  <1>2. \A n \in Nat : Within(c, t, n) => n = Len(channel[c]) /\ connection[c] = "on"
    BY <1>1 DEF Within
  <1>3. QED
    BY <1>2 DEF IsTold, Knows, Gets

LEMMA AllSpared ==
  ASSUME UNCHANGED <<network, clientVars>>
  PROVE  \A c \in Clients : Spared(c) /\ ClientStep(c)
  BY DEF network, clientVars, Spared, ClientStep

\* What concerns a client of the operations that were there.
LEMMA OldKnown ==
  ASSUME Base, Base', Converging, NEW c \in Clients, Spared(c),
         NEW i \in DOMAIN operations, RowTells(i, c),
         NEW u, u = operations[i].key, NEW t, t = operations[i].time
  PROVE  Knows(c, u, t)'
  <1>1. Knows(c, u, t) /\ t \in Nat \ {0}
    BY RowTyped DEF Base, Converging, OperationsReach
  <1>2. QED
    BY <1>1, KnowsKept DEF Base, AllPromised

LEMMA OldGot ==
  ASSUME Base, Base', Converging, NEW c \in Clients, Spared(c), NEW k \in Keys,
         Fresh(k), OneAudience(k),
         NEW i \in DOMAIN operations, Newest(i, k), RowTells(i, c),
         NEW j \in DOMAIN items, items[j].key = k,
         NEW v, v = items[j].value, NEW t, t = operations[i].time
  PROVE  Gets(c, k, v, t)'
  <1>1. Gets(c, k, v, t) /\ t \in Nat \ {0}
    BY RowTyped DEF Base, Converging, ValuesReach
  <1>2. ~Tells(c)
    BY NotTold DEF Base
  <1>3. QED
    BY <1>1, <1>2, GetsKept DEF Base, AllPromised

\* How the three last parts of the invariant are shown of a next state.
LEMMA ReachNext ==
  ASSUME \A c \in Clients : \A i \in DOMAIN operations' :
           RowTells(i, c)' => \A u, t : u = operations'[i].key /\ t = operations'[i].time
                                        => Knows(c, u, t)'
  PROVE  OperationsReach'
  BY DEF OperationsReach

LEMMA ValueNext ==
  ASSUME \A c \in Clients, k \in Keys : \A i \in DOMAIN operations', j \in DOMAIN items' :
           Fresh(k)' /\ OneAudience(k) /\ Newest(i, k)' /\ RowTells(i, c)' /\ items'[j].key = k
           => \A v, t : v = items'[j].value /\ t = operations'[i].time => Gets(c, k, v, t)'
  PROVE  ValuesReach'
  BY DEF ValuesReach, OneAudience, Audience, RelatedUser, Concerns, KeyOf

\* An auto-saved item is written; nobody is told yet.
LEMMA SaveConverging ==
  ASSUME Base, Base', Converging, Save
  PROVE  Converging'
  <1>0. /\ Inv /\ Typed /\ now' = now /\ now \in Nat /\ UNCHANGED operations
        /\ handling.step = "save" /\ handling.command \in Commands
        /\ handling'.step = "process" /\ handling'.command = handling.command
        /\ UNCHANGED <<network, clientVars, history>>
    BY OperationsAssumption
    DEF Base, Inv, TablesTyped, HandlingTyped, Save, Handling, Continue
  <1> DEFINE u == handling.command
  <1>1. \A c \in Clients : Spared(c) /\ ClientStep(c) /\ ~Tells(c)
    BY <1>0, AllSpared, NotTold
  <1>2. RowsMatch'
    BY <1>0, <1>1, RowsMatchKept
  <1>3. Propagated' /\ Registered'
    BY <1>0 DEF Propagated, Registered
  <1>4. \A k \in Keys : Fresh(k)' => Fresh(k) /\ ~(KindOf(u) = "auto" /\ KeyOf(u) = k)
    BY <1>0 DEF Fresh, Writing, Halfway, Done, history, KindOf, KeyOf
  <1>5. CASE KindOf(u) # "auto"
    <2>1. UNCHANGED tables
      BY <1>0, <1>5 DEF Save, tables
    <2>2. LastRefers' /\ OperationsReach' /\ ValuesReach'
      BY <1>1, <1>4, <2>1, TablesAlone
    <2>3. Written'
      BY <1>0, <1>5 DEF Written, KindOf
    <2>4. QED
      BY <1>2, <1>3, <2>2, <2>3 DEF Converging
  <1>6. CASE KindOf(u) = "auto"
    <2>1. Item(u) \in Items /\ Item(u).key = KeyOf(u) /\ SavedIn(Items, items, Item(u), items')
      BY <1>0, <1>6, ItemTyped, SavedTable DEF Save, Inv, TablesTyped, RowsAreUnique
    <2>2. Written'
      <3>1. \E j \in DOMAIN items' : items'[j] = Item(u)
        BY <2>1 DEF SavedIn, Present
      <3>2. QED
        BY <1>0, <3>1 DEF Written, Item, KeyOf
    <2>3. LastRefers'
      <3>1. \A i \in DOMAIN operations : RefersTo(operations[i]) => RefersTo(operations[i])'
        BY <1>0, <2>1 DEF SavedIn, RefersTo, KeyOf
      <3>2. QED
        BY <1>0, <1>4, <3>1 DEF Converging, LastRefers, Newest, KeyOf
    <2>4. OperationsReach'
      BY <1>0, <1>1, OldKnown, ReachNext DEF RowTells
    <2>5. ValuesReach'
      <3>1. \A k \in Keys : k # KeyOf(u) => \A j \in DOMAIN items' : items'[j].key = k
              => j \in DOMAIN items /\ items'[j] = items[j]
        BY <2>1 DEF SavedIn
      <3>2. ASSUME NEW c \in Clients, NEW k \in Keys, NEW i \in DOMAIN operations',
                   NEW j \in DOMAIN items', Fresh(k)', OneAudience(k), Newest(i, k)',
                   RowTells(i, c)', items'[j].key = k,
                   NEW v, v = items'[j].value, NEW t, t = operations'[i].time
            PROVE  Gets(c, k, v, t)'
        <4>1. Fresh(k) /\ j \in DOMAIN items /\ items'[j] = items[j]
          BY <1>4, <1>6, <3>1, <3>2
        <4>2. i \in DOMAIN operations /\ Newest(i, k) /\ RowTells(i, c) /\ t = operations[i].time
          BY <1>0, <3>2 DEF Newest, RowTells, KeyOf
        <4>3. QED
          BY <1>1, <3>2, <4>1, <4>2, OldGot
      <3>3. QED
        BY <3>2, ValueNext
    <2>6. QED
      BY <1>2, <1>3, <2>2, <2>3, <2>4, <2>5 DEF Converging
  <1>7. QED
    BY <1>5, <1>6

\* The operation becomes the last one on its item.
LEMMA RegisterConverging ==
  ASSUME Base, Base', Converging, [Next]_vars, RegisterOperation
  PROVE  Converging'
  <1>0. /\ Inv /\ Typed /\ now' = now /\ now \in Nat /\ UNCHANGED items
        /\ handling.step = "register" /\ handling.command \in Commands
        /\ UNCHANGED <<asked, channel, clientVars>>
    BY OperationsAssumption
    DEF Base, Inv, TablesTyped, HandlingTyped, RegisterOperation, Handling
  <1> DEFINE u == handling.command
             row == OperationRow(u)
  <1>1. CASE KindOf(u) = "bare"
    <2>1. Interrupted /\ handling'.step = "none" /\ UNCHANGED tables
      BY <1>0, <1>1 DEF RegisterOperation, CutShort, Interrupted, Idle, tables
    <2>2. ASSUME NEW c \in Clients PROVE ClientStep(c) /\ ~Tells(c)
      <3>1. connection'[c] = connection[c] \/ (connection[c] = "on" /\ connection'[c] = "closing")
        BY <1>1 DEF RegisterOperation, CutShort, Base, Typed, NetworkTyped
      <3>2. Spared(c)
        BY <1>0, <3>1 DEF Spared, clientVars
      <3>3. QED
        BY <1>0, <3>2, NotTold DEF ClientStep
    <2>3. QED
      BY <1>0, <2>1, <2>2, InterruptedFresh, QuietStep
  <1>2. CASE KindOf(u) # "bare"
    <2>0. /\ handling'.step = "post" /\ handling'.command = u
          /\ operations' = SaveToDatabase(operations, row)
          /\ UNCHANGED <<network, clientVars, history>>
      BY <1>0, <1>2 DEF RegisterOperation, Continue, Inv, HandlingTyped, network
    <2>1. \A c \in Clients : Spared(c) /\ ClientStep(c)
      BY <2>0, AllSpared
    <2>2. /\ row.key = u /\ row.time = now /\ row.ownership = Definition[u].ownership
          /\ row.user = RelatedUser(u)
          /\ KeyOf(u) \in Keys => row.item = GetDbId(KeyOf(u)) /\ row.item # 0
      <3>1. GetDbId(KeyOf(u)) # 0
        BY <1>0, GetDbIdIsItsId, LenProperties DEF Inv, TablesTyped
      <3>2. QED
        BY <3>1 DEF OperationRow
    <2>3. /\ \A i \in DOMAIN operations :
               operations[i].key # u => i \in DOMAIN operations' /\ operations'[i] = operations[i]
          /\ \A i \in DOMAIN operations' :
               \/ operations'[i] = row
               \/ i \in DOMAIN operations /\ operations'[i] = operations[i] /\ operations[i].key # u
          /\ \E i \in DOMAIN operations' : operations'[i] = row
      <3>1. SavedIn(Operation, operations, row, operations')
        BY <1>0, <2>0, SavedTable, OperationRowKnown DEF Inv, TablesTyped, RowsAreUnique
      <3>2. QED
        BY <2>2, <3>1 DEF SavedIn, Present
    <2> HIDE DEF row
    <2>4. RowsMatch'
      <3>1. \A c \in Clients : since'[c] < now' /\ pending'[c] < now'
        BY <1>0, <2>1, ClientsBehind
      <3>2. ASSUME NEW i \in DOMAIN operations'
            PROVE  /\ operations'[i].time <= now'
                   /\ operations'[i].ownership = Definition[operations'[i].key].ownership
                   /\ operations'[i].user = RelatedUser(operations'[i].key)
                   /\ KeyOf(operations'[i].key) \in Keys => operations'[i].item # 0
        BY <1>0, <2>2, <2>3 DEF Converging, RowsMatch
      <3>3. QED
        BY <3>1, <3>2 DEF RowsMatch, RelatedUser, KeyOf
    <2>5. Written'
      BY <1>0, <2>0, WrittenKept
    <2>6. \A c \in Audience(u) : c \in Clients /\ IsTold(c, u)
      BY <1>0, <1>2 DEF Converging, Propagated, Audience
    <2>7. Propagated'
      <3>1. \A c \in Audience(u) : \A v : v = u => IsTold(c, v)'
        BY <1>0, <2>1, <2>6, IsToldKept DEF Base
      <3>2. QED
        BY <2>0, <3>1 DEF Propagated, KindOf, Audience, RelatedUser, Concerns
    <2>8. /\ \A j \in DOMAIN operations' : operations'[j].time <= now
          /\ \A c \in Clients : since[c] < now /\ pending[c] < now
          /\ \A c \in Clients : since'[c] < now /\ pending'[c] < now
      BY <1>0, <2>4 DEF Converging, RowsMatch
    <2>9. Registered'
      BY <2>0, <2>2, <2>3, <2>8 DEF Registered
    \* The rows of the other items are as they were.
    <2>10. ASSUME NEW k \in Keys, k # KeyOf(u)
           PROVE  /\ Fresh(k)' => Fresh(k)
                  /\ \A i \in DOMAIN operations : KeyOf(operations[i].key) = k =>
                       i \in DOMAIN operations' /\ operations'[i] = operations[i]
                  /\ \A i \in DOMAIN operations' : KeyOf(operations'[i].key) = k =>
                       i \in DOMAIN operations /\ operations'[i] = operations[i]
      <3>1. Fresh(k)' => Fresh(k)
        BY <1>0, <2>0, <2>10 DEF Fresh, Writing, Done, history, KindOf, KeyOf
      <3>2. QED
        BY <2>2, <2>3, <2>10, <3>1
    <2>11. ASSUME NEW k \in Keys, k # KeyOf(u), NEW i \in DOMAIN operations'
           PROVE  Newest(i, k)' => i \in DOMAIN operations /\ Newest(i, k)
                                   /\ operations'[i] = operations[i]
      BY <2>10, <2>11 DEF Newest, KeyOf
    \* Of its own item, the row just written is the last.
    <2>12. ASSUME NEW k \in Keys, k = KeyOf(u), NEW i \in DOMAIN operations', Newest(i, k)'
           PROVE  operations'[i].time = now
      <3>1. PICK w \in DOMAIN operations' : operations'[w] = row
        BY <2>3
      <3>2. operations'[i].time <= now /\ now <= operations'[i].time
        BY <2>2, <2>8, <2>12, <3>1 DEF Newest, KeyOf
      <3>3. operations'[i] \in Operation
        BY LenProperties, ElementOfSeq DEF Base, Inv, TablesTyped
      <3>4. QED
        BY <1>0, <3>2, <3>3, OperationsAssumption DEF Operation
    \* If it is fresh it was auto-saved.
    <2>13. ASSUME NEW k \in Keys, k = KeyOf(u), Fresh(k)'
           PROVE  \E j \in DOMAIN items : items[j] = Item(u)
      <3>1. KindOf(u) \in {"auto", "late"}
        BY <1>0, <2>13, OperationsAssumption DEF KeyOf, KindOf
      <3>2. KindOf(u) # "late"
        BY <2>0, <2>13 DEF Fresh, Writing, Halfway, KindOf, KeyOf
      <3>3. QED
        BY <1>0, <3>1, <3>2 DEF Converging, Written
    <2>14. LastRefers'
      <3>1. ASSUME NEW k \in Keys, k # KeyOf(u), Fresh(k)',
                   NEW x \in DOMAIN operations', KeyOf(operations'[x].key) = k
            PROVE  \E i \in DOMAIN operations' : Newest(i, k)' /\ RefersTo(operations[i])'
        <4>1. PICK i \in DOMAIN operations : Newest(i, k) /\ RefersTo(operations[i])
          BY <2>10, <3>1 DEF Converging, LastRefers
        <4>2. i \in DOMAIN operations' /\ operations'[i] = operations[i]
          BY <2>10, <3>1, <4>1 DEF Newest
        <4>3. Newest(i, k)'
          BY <2>10, <3>1, <4>1, <4>2 DEF Newest, KeyOf
        <4>4. RefersTo(operations[i])'
          BY <1>0, <4>1, <4>2 DEF RefersTo, KeyOf
        <4>5. QED
          BY <4>2, <4>3, <4>4
      <3>2. ASSUME NEW k \in Keys, k = KeyOf(u), Fresh(k)'
            PROVE  \E i \in DOMAIN operations' : Newest(i, k)' /\ RefersTo(operations[i])'
        <4>1. PICK i \in DOMAIN operations' : operations'[i] = row
          BY <2>3
        <4>2. Newest(i, k)'
          BY <2>2, <2>8, <3>2, <4>1 DEF Newest, KeyOf
        <4>3. Present(items, k)
          BY <2>13, <3>2 DEF Present, Item
        <4>4. RefersTo(operations[i])'
          BY <1>0, <2>2, <3>2, <4>1, <4>3, GetDbIdIsItsId DEF RefersTo, KeyOf, Inv
        <4>5. QED
          BY <4>1, <4>2, <4>4
      <3>3. QED
        BY <3>1, <3>2 DEF LastRefers, KeyOf
    <2>15. OperationsReach'
      <3>1. ASSUME NEW c \in Clients, NEW i \in DOMAIN operations', RowTells(i, c)',
                   NEW v, v = operations'[i].key, NEW t, t = operations'[i].time
            PROVE  Knows(c, v, t)'
        <4>1. CASE operations'[i] = row
          <5>1. c \in Audience(u)
            BY <2>2, <3>1, <4>1 DEF RowTells, Concerns, Audience
          <5>2. Knows(c, v, t) /\ t \in Nat \ {0}
            BY <1>0, <2>2, <2>6, <2>8, <3>1, <4>1, <5>1, LatestReached
            DEF Base, Inv, TablesTyped
          <5>3. QED
            BY <2>1, <5>2, KnowsKept DEF Base, AllPromised
        <4>2. CASE i \in DOMAIN operations /\ operations'[i] = operations[i]
          BY <2>1, <3>1, <4>2, OldKnown DEF RowTells, Concerns
        <4>3. QED
          BY <2>3, <4>1, <4>2
      <3>2. QED
        BY <3>1, ReachNext
    <2>16. ValuesReach'
      <3>1. ASSUME NEW c \in Clients, NEW k \in Keys, NEW i \in DOMAIN operations',
                   NEW j \in DOMAIN items', Fresh(k)', OneAudience(k), Newest(i, k)',
                   RowTells(i, c)', items'[j].key = k,
                   NEW v, v = items'[j].value, NEW t, t = operations'[i].time
            PROVE  Gets(c, k, v, t)'
        <4>1. CASE k # KeyOf(u)
          <5>1. Fresh(k) /\ i \in DOMAIN operations /\ Newest(i, k) /\ operations'[i] = operations[i]
            BY <2>10, <2>11, <3>1, <4>1
          <5>2. RowTells(i, c)
            BY <3>1, <5>1 DEF RowTells, Concerns
          <5>3. QED
            BY <1>0, <2>1, <3>1, <5>1, <5>2, OldGot
        <4>2. CASE k = KeyOf(u)
          <5>1. t = now /\ now \in Nat \ {0}
            BY <1>0, <2>12, <3>1, <4>2 DEF Inv, TablesTyped
          <5>2. c \in Audience(u)
            <6>0. operations'[i] \in Operation
              BY LenProperties, ElementOfSeq DEF Base, Inv, TablesTyped
            <6>1. operations'[i].key \in Commands /\ KeyOf(operations'[i].key) = k
              BY <3>1, <6>0 DEF Operation, Newest, KeyOf
            <6>2. c \in Audience(operations'[i].key)
              BY <2>4, <3>1 DEF RowsMatch, RowTells, Audience, Concerns, RelatedUser
            <6>3. QED
              BY <1>0, <3>1, <4>2, <6>1, <6>2 DEF OneAudience
          <5>3. v = u
            <6>1. PICK x \in DOMAIN items : items[x] = Item(u)
              BY <2>13, <3>1, <4>2
            <6>2. x = j
              BY <1>0, <3>1, <4>2, <6>1 DEF Inv, RowsAreUnique, Unique, Item
            <6>3. QED
              BY <1>0, <3>1, <6>1, <6>2 DEF Item
          <5>4. Gets(c, k, v, t)
            BY <1>0, <2>6, <2>8, <4>2, <5>1, <5>2, <5>3, LatestReached
          <5>5. ~Tells(c)
            BY <1>0, <2>1, NotTold
          <5>6. QED
            BY <2>1, <5>1, <5>4, <5>5, GetsKept DEF Base, AllPromised
        <4>3. QED
          BY <4>1, <4>2
      <3>2. QED
        BY <3>1, ValueNext
    <2>17. QED
      BY <2>4, <2>5, <2>7, <2>9, <2>14, <2>15, <2>16 DEF Converging
  <1>3. QED
    BY <1>1, <1>2

\* The item that the application saves last is complete.
LEMMA PostConverging ==
  ASSUME Base, Base', Converging, PostProcess
  PROVE  Converging'
  <1>0. /\ Inv /\ Typed /\ now' = now /\ now \in Nat /\ UNCHANGED operations
        /\ handling.step = "post" /\ handling.command \in Commands
        /\ handling'.step = "none"
        /\ UNCHANGED <<network, clientVars>>
        /\ stale' = stale \ {KeyOf(handling.command)} /\ cut' = cut \ {handling.command}
    BY OperationsAssumption
    DEF Base, Inv, TablesTyped, HandlingTyped, PostProcess, Handling, Idle
  <1> DEFINE u == handling.command
  <1>1. \A c \in Clients : Spared(c) /\ ClientStep(c)
    BY <1>0, AllSpared
  <1>2. RowsMatch'
    BY <1>0, <1>1, RowsMatchKept
  <1>3. Written' /\ Propagated' /\ Registered'
    BY <1>0 DEF Written, Propagated, Registered
  <1>4. OperationsReach'
    BY <1>0, <1>1, OldKnown, ReachNext DEF RowTells
  <1>5. /\ \A j \in DOMAIN items : j \in DOMAIN items' /\ items'[j].key = items[j].key
        /\ \A j \in DOMAIN items' :
             \/ KindOf(u) = "late" /\ items'[j] = Item(u)
             \/ j \in DOMAIN items /\ items'[j] = items[j]
                /\ (KindOf(u) = "late" => items[j].key # KeyOf(u))
    <2>1. CASE KindOf(u) = "late"
      <3>1. Item(u) \in Items /\ Item(u).key = KeyOf(u) /\ SavedIn(Items, items, Item(u), items')
        BY <1>0, <2>1, ItemTyped, SavedTable DEF PostProcess, Inv, TablesTyped, RowsAreUnique
      <3>2. QED
        BY <2>1, <3>1 DEF SavedIn
    <2>2. CASE KindOf(u) # "late"
      BY <2>2 DEF PostProcess
    <2>3. QED
      BY <2>1, <2>2
  \* An item that was not fresh before is the one just saved.
  <1>6. ASSUME NEW k \in Keys, Fresh(k)'
        PROVE  \/ Fresh(k) /\ (k # KeyOf(u) \/ KindOf(u) # "late")
               \/ k = KeyOf(u) /\ KindOf(u) = "late"
    <2>1. k # KeyOf(u) => Fresh(k)
      BY <1>0, <1>6 DEF Fresh, Writing, Done
    <2>2. k = KeyOf(u) => KindOf(u) \in {"auto", "late"}
      BY <1>0, OperationsAssumption DEF KeyOf, KindOf
    <2>3. k = KeyOf(u) /\ KindOf(u) = "auto" => Fresh(k)
      BY <1>0 DEF Fresh, Writing, Halfway, Done
    <2>4. QED
      BY <2>1, <2>2, <2>3
  <1>7. \A i \in DOMAIN operations : RefersTo(operations[i]) => RefersTo(operations[i])'
    BY <1>0, <1>5 DEF RefersTo, KeyOf
  <1>8. PICK last \in DOMAIN operations :
          /\ operations[last].key = u
          /\ \A j \in DOMAIN operations : operations[j].time <= operations[last].time
          /\ \A c \in Clients : since[c] < operations[last].time /\ pending[c] < operations[last].time
    BY <1>0 DEF Converging, Registered
  <1>9. LastRefers'
    <2> SUFFICES ASSUME NEW k \in Keys, Fresh(k)',
                        NEW x \in DOMAIN operations, KeyOf(operations[x].key) = k
                 PROVE  \E i \in DOMAIN operations : Newest(i, k)' /\ RefersTo(operations[i])'
      BY <1>0 DEF LastRefers, KeyOf
    <2>1. CASE Fresh(k)
      <3>1. PICK i \in DOMAIN operations : Newest(i, k) /\ RefersTo(operations[i])
        BY <2>1 DEF Converging, LastRefers
      <3>2. Newest(i, k)'
        BY <1>0, <3>1 DEF Newest, KeyOf
      <3>3. QED
        BY <1>7, <3>1, <3>2
    <2>2. CASE k = KeyOf(u) /\ KindOf(u) = "late"
      <3>1. Newest(last, k)'
        BY <1>0, <1>8, <2>2 DEF Newest, KeyOf
      <3>2. operations[last].item # 0
        BY <1>8, <2>2 DEF Converging, RowsMatch
      <3>3. ItemKnown(operations[last])'
        BY <1>0 DEF Base, Inv, RowsKnown
      <3>4. RefersTo(operations[last])'
        BY <1>0, <1>8, <3>2, <3>3 DEF ItemKnown, Predicted, Registering
      <3>5. QED
        BY <3>1, <3>4
    <2>3. QED
      BY <1>6, <2>1, <2>2
  <1>10. ValuesReach'
    <2>1. ASSUME NEW c \in Clients, NEW k \in Keys, NEW i \in DOMAIN operations',
                 NEW j \in DOMAIN items', Fresh(k)', OneAudience(k), Newest(i, k)',
                 RowTells(i, c)', items'[j].key = k,
                 NEW v, v = items'[j].value, NEW t, t = operations'[i].time
          PROVE  Gets(c, k, v, t)'
      <3>0. i \in DOMAIN operations /\ Newest(i, k) /\ RowTells(i, c) /\ t = operations[i].time
        BY <1>0, <2>1 DEF Newest, RowTells, KeyOf
      <3>1. CASE Fresh(k) /\ (k # KeyOf(u) \/ KindOf(u) # "late")
        <4>1. j \in DOMAIN items /\ items'[j] = items[j]
          BY <1>0, <1>5, <2>1, <3>1 DEF Item
        <4>2. QED
          BY <1>1, <2>1, <3>0, <3>1, <4>1, OldGot
      <3>2. CASE k = KeyOf(u) /\ KindOf(u) = "late"
        <4>1. v = u
          BY <1>5, <2>1, <3>2 DEF Item
        <4>2. Newest(last, k)
          BY <1>8, <3>2 DEF Newest
        <4>3. t = operations[last].time /\ RowTells(last, c)
          BY <1>0, <2>1, <3>0, <4>2, NewestAgree DEF Converging
        <4>4. c \in Audience(u) /\ t \in Nat \ {0}
          BY <1>0, <1>8, <4>3, AudienceOfRow DEF Converging
        <4>5. IsTold(c, u)
          BY <1>0, <3>2, <4>4 DEF Converging, Propagated
        <4>6. Gets(c, k, v, t)
          BY <1>0, <1>8, <3>2, <4>1, <4>3, <4>4, <4>5, LatestReached
        <4>7. ~Tells(c)
          BY <1>0, <1>1, NotTold
        <4>8. QED
          BY <1>1, <4>4, <4>6, <4>7, GetsKept DEF Base, AllPromised
      <3>3. QED
        BY <1>6, <2>1, <3>1, <3>2
    <2>2. QED
      BY <2>1, ValueNext
  <1>11. QED
    BY <1>2, <1>3, <1>4, <1>9, <1>10 DEF Converging

-----------------------------------------------------------------------------
(* A synchronised client has what concerns it.                             *)

LEMMA NextConverging == Base /\ Base' /\ Converging /\ [Next]_vars => Converging'
  <1> SUFFICES ASSUME Base, Base', Converging, [Next]_vars PROVE Converging'
    OBVIOUS
  <1>1. ASSUME NEW c \in Clients, NEW u \in Commands, Receive(c, u) PROVE Converging'
    BY <1>1, ReceiveConverging, StepOfClient DEF Base
  <1>2. CASE Save
    BY <1>2, SaveConverging
  <1>3. CASE Process
    BY <1>3, ProcessConverging
  <1>4. CASE RegisterOperation
    BY <1>4, RegisterConverging
  <1>5. CASE PostProcess
    BY <1>5, PostConverging
  <1>6. ASSUME NEW c \in Clients,
               ExecuteSyncRequest(c) \/ Deliver(c) \/ Connect(c) \/ Disconnect(c)
        PROVE  Converging'
    BY <1>6, NetworkConverging
  <1>7. CASE Crash
    BY <1>7, CrashConverging
  <1>8. CASE Tick \/ UNCHANGED vars
    BY <1>8, TickConverging
  <1>9. QED
    BY <1>1, <1>2, <1>3, <1>4, <1>5, <1>6, <1>7, <1>8 DEF Next

\* A synchronised client with nothing on its way has within reach, at once,
\* all that concerns it.
LEMMA ConvergingConverges == Base /\ Converging => Converges
  <1> SUFFICES ASSUME Base, Converging, handling = Idle, NEW c \in Clients,
                      connection[c] = "on", asked[c], channel[c] = <<>>,
                      NEW i \in DOMAIN operations,
                      Concerns(operations[i].ownership, operations[i].user, c),
                      NEW k, k = KeyOf(operations[i].key)
               PROVE  /\ operations[i].key \in known[c]
                      /\ k \in Keys \ stale /\ OneAudience(k) =>
                           \E j \in DOMAIN items : items[j].key = k /\ local[c][k] = items[j].value
    BY DEF Converges
  <1>1. RowTells(i, c) /\ operations[i].time \in Nat
    BY RowTyped DEF RowTells, Base
  <1>2. Len(channel[c]) = 0
    BY EmptySeq
  <1>3. \A t : Within(c, t, 0)
    BY <1>2 DEF Within
  <1>4. operations[i].key \in known[c]
    BY <1>1, <1>3 DEF Converging, OperationsReach, Knows, Told
  <1>5. ASSUME k \in Keys \ stale, OneAudience(k)
        PROVE  \E j \in DOMAIN items : items[j].key = k /\ local[c][k] = items[j].value
    <2>1. Fresh(k)
      BY <1>5 DEF Fresh, Writing, Halfway, Idle
    <2>2. PICK w \in DOMAIN operations : Newest(w, k) /\ RefersTo(operations[w])
      BY <1>5, <2>1 DEF Converging, LastRefers
    <2>3. PICK j \in DOMAIN items : items[j].key = k
      BY <2>2 DEF RefersTo, Newest
    \* The operation that concerns the client may be an earlier one: the last
    \* concerns it too.
    <2>4. RowTells(w, c)
      <3>1. operations[i].key \in Commands /\ operations[w].key \in Commands
        BY RowTyped DEF Base
      <3>2. Audience(operations[i].key) = Audience(operations[w].key)
        BY <1>5, <2>2, <3>1 DEF OneAudience, Newest
      <3>3. QED
        BY <1>1, <3>2, AudienceOfRow DEF Base, Converging
    <2>5. Gets(c, k, items[j].value, operations[w].time)
      BY <1>5, <2>1, <2>2, <2>3, <2>4 DEF Converging, ValuesReach
    <2>6. Reaches(channel[c], local[c][k], k, items[j].value, 0)
      BY <1>3, <2>5 DEF Gets
    <2>7. QED
      BY <2>3, <2>6 DEF Reaches
  <1>6. QED
    BY <1>4, <1>5

\* A synchronised client has what concerns it.
THEOREM Convergence == Spec => []Converges
  <1>1. Init => Converging
    BY InitConverging
  <1>2. Base /\ Base' /\ Converging /\ [Next]_vars => Converging'
    BY NextConverging
  <1>3. Spec => []Base
    BY PromisedInvariance DEF Base
  <1>4. QED
    BY <1>1, <1>2, <1>3, ConvergingConverges, PTL DEF Spec
=============================================================================
