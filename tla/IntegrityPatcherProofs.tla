----------------------- MODULE IntegrityPatcherProofs -----------------------
(***************************************************************************)
(* Theorems about the database.  About IntegrityPatcher, which makes its   *)
(* tables: for any tables, any versions of their structures, and any       *)
(* number of starts and interruptions.  And, in the second part, about     *)
(* DataStructure, which saves a structure in a row of such a table: for    *)
(* any definitions, structures and rows.                                   *)
(***************************************************************************)
EXTENDS IntegrityPatcher, FiniteSetTheorems, WellFoundedInduction, SequenceTheorems, TLAPS

CONSTANTS CustomTypes, Schema   \* the definitions, in the second part

Data == INSTANCE DataStructure

Stored == ToSet(Tables)

Column == [name : STRING, type : STRING,
           keywords : SUBSET {"NOT NULL", "UNIQUE", "PRIMARY KEY"}]

Row(columns) == [id : 1 .. MaxRows, val : [Names(columns) \ {"id"} -> Values \cup {Null}]]

\* A table the program can have made: its rows fit its columns, and obey them.
Sound(table) ==
    /\ table = [columns |-> table.columns, rows |-> table.rows]
    /\ table.columns \in Seq(Column)
    /\ table.rows \subseteq Row(table.columns)
    /\ Constrained(table.columns, table.rows)

Database(db) ==
    /\ db = [t \in Stored |-> db[t]]
    /\ \A t \in Stored : Sound(db[t])

Typed ==
    /\ Database(main)
    /\ Database(temp)
    /\ wanted = [t \in Stored |-> wanted[t]]
    /\ \A t \in Stored : Declarable(wanted[t])
    /\ pc \in {"down", "select", "rename", "create", "createNew", "populate", "drop", "running"}
    /\ at \in DOMAIN Tables
    /\ written \in [Stored -> SUBSET (1 .. MaxRows)]
    /\ starts \in 0 .. MaxStarts
    /\ incident \in BOOLEAN

\* The table has the fields the running version declares.
Matches(t) == SameTable(Parse(main[t].columns), wanted[t])

\* How far CheckAndResolve has come: the tables before the current one match,
\* and the current one is where the next statement expects it.
Progress ==
    /\ pc # "down" => \A i \in DOMAIN Tables : i < at => Matches(Tables[i])
    /\ pc = "running" => \A t \in Stored : Matches(t)
    /\ pc \in {"create", "createNew"} => main[Current] = Absent
    /\ pc \in {"populate", "drop"} => main[Current].columns = Generate(wanted[Current])
    /\ pc = "populate" => main[Current].rows = {}
    /\ pc = "drop" => Ids(temp[Current]) \subseteq Ids(main[Current])

\* Without an incident the rows are in the table or, while it is being rebuilt,
\* in the temporary one, which is gone afterwards.
Clean ==
    ~incident =>
      \A t \in Stored :
        IF t = Current /\ pc \in {"create", "populate"}
          THEN Ids(temp[t]) = written[t]
          ELSE /\ Ids(main[t]) = written[t]
               /\ ~(t = Current /\ pc = "drop") => temp[t] = Absent

Inv == Typed /\ Progress /\ NothingDestroyed /\ Clean
-----------------------------------------------------------------------------
(* Columns, fields and rows.                                               *)

LEMMA SameTruth ==
  ASSUME NEW a \in BOOLEAN, NEW b \in BOOLEAN, a <=> b
  PROVE  a = b
  OBVIOUS

\* What is read back from the line of a field is the field.
LEMMA FieldIsReadBack ==
  ASSUME NEW f \in Field, f.primary => ~f.canBeNull
  PROVE  FieldOf(ColumnOf(f)) = f /\ ColumnOf(f) \in Column
  <1>1. /\ f = [name |-> f.name, type |-> f.type, canBeNull |-> f.canBeNull,
                unique |-> f.unique, primary |-> f.primary]
        /\ f.name \in STRING /\ f.type \in STRING
        /\ f.canBeNull \in BOOLEAN /\ f.unique \in BOOLEAN /\ f.primary \in BOOLEAN
    BY DEF Field
  <1> DEFINE words == (IF f.canBeNull THEN {} ELSE {"NOT NULL"})
                        \cup (IF f.unique THEN {"UNIQUE"} ELSE {})
                        \cup (IF f.primary THEN {"PRIMARY KEY"} ELSE {})
  <1>2. ("NOT NULL" \notin words /\ "PRIMARY KEY" \notin words) <=> f.canBeNull
    <2>1. CASE f.canBeNull
      BY <2>1
    <2>2. CASE ~f.canBeNull
      BY <2>2
    <2>3. QED
      BY <2>1, <2>2
  <1>3. ("UNIQUE" \in words <=> f.unique) /\ ("PRIMARY KEY" \in words <=> f.primary)
    BY <1>1
  <1>4. words \in SUBSET {"NOT NULL", "UNIQUE", "PRIMARY KEY"}
    OBVIOUS
  <1>5. ColumnOf(f) = [name |-> f.name, type |-> f.type, keywords |-> words]
    BY DEF ColumnOf
  <1> HIDE DEF words
  <1> DEFINE c == ColumnOf(f)
  <1>6. c.name = f.name /\ c.type = f.type /\ c.keywords = words
    BY <1>5
  <1> HIDE DEF c
  <1>7. c \in Column
    <2>1. c = [name |-> c.name, type |-> c.type, keywords |-> c.keywords]
      BY <1>5, <1>6 DEF c
    <2>2. c.name \in STRING /\ c.type \in STRING
      BY <1>1, <1>6
    <2>3. c.keywords \in SUBSET {"NOT NULL", "UNIQUE", "PRIMARY KEY"}
      BY <1>4, <1>6
    <2>4. QED
      BY <2>1, <2>2, <2>3 DEF Column
  <1>8. FieldOf(c) = f
    <2> DEFINE canBeNull == "NOT NULL" \notin words /\ "PRIMARY KEY" \notin words
               unique == "UNIQUE" \in words
               primary == "PRIMARY KEY" \in words
    <2>1. /\ canBeNull \in BOOLEAN /\ unique \in BOOLEAN /\ primary \in BOOLEAN
          /\ canBeNull <=> f.canBeNull
          /\ unique <=> f.unique
          /\ primary <=> f.primary
      <3>1. canBeNull \in BOOLEAN
        OBVIOUS
      <3>2. unique \in BOOLEAN
        OBVIOUS
      <3>3. primary \in BOOLEAN
        OBVIOUS
      <3>4. canBeNull <=> f.canBeNull
        BY <1>2
      <3>5. unique <=> f.unique
        BY <1>3
      <3>6. primary <=> f.primary
        BY <1>3
      <3> HIDE DEF canBeNull, unique, primary
      <3>7. QED
        BY <3>1, <3>2, <3>3, <3>4, <3>5, <3>6
    <2>2. FieldOf(c) = [name |-> f.name, type |-> f.type, canBeNull |-> canBeNull,
                        unique |-> unique, primary |-> primary]
      BY <1>6 DEF FieldOf
    <2> HIDE DEF canBeNull, unique, primary
    <2>3. canBeNull = f.canBeNull
      <3>1. canBeNull \in BOOLEAN /\ f.canBeNull \in BOOLEAN /\ (canBeNull <=> f.canBeNull)
        BY <1>1, <2>1
      <3>2. QED
        BY <3>1, SameTruth
    <2>4. unique = f.unique
      <3>1. unique \in BOOLEAN /\ f.unique \in BOOLEAN /\ (unique <=> f.unique)
        BY <1>1, <2>1
      <3>2. QED
        BY <3>1, SameTruth
    <2>5. primary = f.primary
      <3>1. primary \in BOOLEAN /\ f.primary \in BOOLEAN /\ (primary <=> f.primary)
        BY <1>1, <2>1
      <3>2. QED
        BY <3>1, SameTruth
    <2>6. QED
      BY <1>1, <2>2, <2>3, <2>4, <2>5
  <1>9. QED
    BY <1>7, <1>8 DEF c

\* A table that was created from a structure matches it.
LEMMA GeneratedMatches ==
  ASSUME NEW schema, Declarable(schema)
  PROVE  /\ Generate(schema) \in Seq(Column)
         /\ SameTable(Parse(Generate(schema)), schema)
  <1>1. schema \in Seq(Field) /\ Len(schema) \in Nat /\ DOMAIN schema = 1 .. Len(schema)
    BY DEF Declarable
  <1>2. ASSUME NEW i \in 1 .. Len(schema)
        PROVE  FieldOf(ColumnOf(schema[i])) = schema[i] /\ ColumnOf(schema[i]) \in Column
    <2>1. schema[i] \in Field
      BY <1>1, ElementOfSeq
    <2>2. schema[i].primary => ~schema[i].canBeNull
      BY <1>1 DEF Declarable
    <2>3. QED
      BY <2>1, <2>2, FieldIsReadBack
  <1>3. Generate(schema) = [i \in 1 .. Len(schema) |-> ColumnOf(schema[i])]
    BY <1>1 DEF Generate
  <1>4. Generate(schema) \in [1 .. Len(schema) -> Column]
    BY <1>2, <1>3
  <1>5. Generate(schema) \in Seq(Column)
    BY <1>1, <1>4, SeqDef
  <1>6. Parse(Generate(schema)) = [i \in 1 .. Len(schema) |-> FieldOf(ColumnOf(schema[i]))]
    BY <1>3 DEF Parse
  <1>7. \A i \in 1 .. Len(schema) : Parse(Generate(schema))[i] = schema[i]
    BY <1>2, <1>6
  <1>8. Len(Parse(Generate(schema))) = Len(schema) /\ DOMAIN Parse(Generate(schema)) = 1 .. Len(schema)
    BY <1>1, <1>6
  <1>9. QED
    BY <1>5, <1>7, <1>8 DEF SameTable, SameField

LEMMA NamesAreParsed ==
  ASSUME NEW columns
  PROVE  Names(Parse(columns)) = Names(columns)
  BY DEF Names, Parse, FieldOf

\* The copy of rows keeps their ids, and gives each row the new columns.
LEMMA CopyKeepsIds ==
  ASSUME NEW old, Sound(old), NEW columns
  PROVE  LET rows == Copied(old.rows, Parse(old.columns), columns) IN
           /\ rows \subseteq Row(columns)
           /\ {r.id : r \in rows} = Ids(old)
  <1> DEFINE rows == Copied(old.rows, Parse(old.columns), columns)
             copy(r) == [id |-> r.id,
                         val |-> [n \in Names(columns) \ {"id"} |->
                                    IF n \in Names(old.columns) THEN r.val[n] ELSE Null]]
  <1>1. rows = {copy(r) : r \in old.rows}
    BY NamesAreParsed DEF Copied
  <1>2. ASSUME NEW r \in old.rows
        PROVE  copy(r) \in Row(columns) /\ copy(r).id = r.id
    <2>1. r.id \in 1 .. MaxRows /\ r.val \in [Names(old.columns) \ {"id"} -> Values \cup {Null}]
      BY DEF Sound, Row
    <2>2. QED
      BY <2>1 DEF Row
  <1> HIDE DEF copy, rows
  <1>3. rows \subseteq Row(columns)
    BY <1>1, <1>2
  <1>4. {r.id : r \in rows} = Ids(old)
    BY <1>1, <1>2 DEF Ids
  <1>5. QED
    BY <1>3, <1>4 DEF rows

LEMMA CurrentIsStored ==
  ASSUME at \in DOMAIN Tables
  PROVE  Current \in Stored
  BY DEF Current, Stored, ToSet

LEMMA EmptyTables ==
  /\ Sound(Absent) /\ Ids(Absent) = {}
  /\ \A columns \in Seq(Column) :
       LET table == [columns |-> columns, rows |-> {}] IN Sound(table) /\ Ids(table) = {}
  <1>1. <<>> \in Seq(Column)
    BY EmptySeq
  <1>2. ASSUME NEW columns \in Seq(Column)
        PROVE  LET table == [columns |-> columns, rows |-> {}] IN Sound(table) /\ Ids(table) = {}
    BY DEF Sound, Constrained, Ids
  <1>3. QED
    BY <1>1, <1>2 DEF Absent

\* One table of a database is replaced.
LEMMA Replaced ==
  ASSUME NEW db, Database(db), NEW t \in Stored, NEW table, Sound(table)
  PROVE  /\ Database([db EXCEPT ![t] = table])
         /\ [db EXCEPT ![t] = table][t] = table
         /\ \A u \in Stored : u # t => [db EXCEPT ![t] = table][u] = db[u]
  <1> DEFINE next == [db EXCEPT ![t] = table]
  <1>1. db = [u \in Stored |-> db[u]]
    BY DEF Database
  <1>2. next = [u \in Stored |-> IF u = t THEN table ELSE db[u]]
    BY <1>1
  <1> HIDE DEF next
  <1>3. \A u \in Stored : next[u] = IF u = t THEN table ELSE db[u]
    BY <1>2
  <1>4. next = [u \in Stored |-> next[u]]
    BY <1>2
  <1>5. \A u \in Stored : Sound(next[u])
    BY <1>3 DEF Database
  <1>6. Database(next)
    BY <1>4, <1>5 DEF Database
  <1>7. QED
    BY <1>3, <1>6 DEF next

-----------------------------------------------------------------------------
(* The invariant.                                                          *)

LEMMA InitInv == Init => Inv
  <1>1. SUFFICES ASSUME Init PROVE Inv
    OBVIOUS
  <1>2. Database(main) /\ Database(temp)
    BY <1>1, EmptyTables DEF Init, Database, Stored
  <1>3. \A t \in Stored : Declarable(wanted[t])
    BY <1>1, EmptySeq DEF Init, Stored, Declarable
  <1>4. Typed
    <2>1. at \in DOMAIN Tables
      BY <1>1, PatcherAssumption, EmptySeq DEF Init
    <2>2. starts \in 0 .. MaxStarts
      BY <1>1, PatcherAssumption DEF Init
    <2>3. wanted = [t \in Stored |-> wanted[t]] /\ written \in [Stored -> SUBSET (1 .. MaxRows)]
      BY <1>1 DEF Init, Stored
    <2>4. pc = "down" /\ incident = FALSE
      BY <1>1 DEF Init
    <2>5. QED
      BY <1>2, <1>3, <2>1, <2>2, <2>3, <2>4 DEF Typed
  <1>5. Progress
    BY <1>1 DEF Init, Progress
  <1>6. \A t \in Stored : written[t] = {} /\ main[t] = Absent /\ temp[t] = Absent
    BY <1>1 DEF Init, Stored
  <1>7. NothingDestroyed
    BY <1>6 DEF NothingDestroyed, Stored
  <1>8. Clean
    BY <1>1, <1>6, EmptyTables DEF Init, Clean
  <1>9. QED
    BY <1>4, <1>5, <1>7, <1>8 DEF Inv

\* A statement about the current table leaves the ones before it as they were.
LEMMA OthersMatch ==
  ASSUME Inv, pc # "down", wanted' = wanted,
         \A t \in Stored : t # Current => main'[t].columns = main[t].columns
  PROVE  \A i \in DOMAIN Tables : i < at => Matches(Tables[i])'
  <1>1. SUFFICES ASSUME NEW i \in DOMAIN Tables, i < at
                 PROVE  Matches(Tables[i])'
    OBVIOUS
  <1>2. Matches(Tables[i]) /\ at \in DOMAIN Tables
    BY <1>1 DEF Inv, Typed, Progress
  <1>3. Tables[i] # Current
    <2>1. i # at
      BY <1>1, PatcherAssumption
    <2>2. QED
      BY <1>2, <2>1, PatcherAssumption DEF Current, IsInjective
  <1>4. Tables[i] \in Stored
    BY DEF Stored, ToSet
  <1>5. QED
    BY <1>2, <1>3, <1>4 DEF Matches

\* The current table matches: the loop goes on, or ends.
LEMMA TableDone ==
  ASSUME Inv, pc # "down", wanted' = wanted, NextTable,
         \A t \in Stored : t # Current => main'[t].columns = main[t].columns,
         SameTable(Parse(main'[Current].columns), wanted[Current])
  PROVE  Progress' /\ at' \in DOMAIN Tables /\ pc' \in {"select", "running"}
  <1>1. at \in DOMAIN Tables /\ DOMAIN Tables = 1 .. Len(Tables) /\ Len(Tables) \in Nat
    BY PatcherAssumption DEF Inv, Typed
  <1>2. \A i \in DOMAIN Tables : i < at => Matches(Tables[i])'
    BY OthersMatch
  <1>3. \A i \in DOMAIN Tables : i = at => Matches(Tables[i])'
    BY DEF Matches, Current
  <1>4. ASSUME NEW i \in DOMAIN Tables, i <= at
        PROVE  Matches(Tables[i])'
    BY <1>1, <1>2, <1>3, <1>4
  <1>5. CASE at = Len(Tables)
    <2>1. pc' = "running" /\ at' = at
      BY <1>5 DEF NextTable
    <2>2. ASSUME NEW i \in DOMAIN Tables
          PROVE  Matches(Tables[i])'
      BY <1>1, <1>4, <1>5, <2>2
    <2>3. (\A t \in Stored : Matches(t))'
      BY <2>2 DEF Stored, ToSet
    <2>4. QED
      BY <1>1, <2>1, <2>2, <2>3 DEF Progress
  <1>6. CASE at # Len(Tables)
    <2>1. pc' = "select" /\ at' = at + 1
      BY <1>6 DEF NextTable
    <2>2. at' \in DOMAIN Tables
      BY <1>1, <1>6, <2>1
    <2>3. \A i \in DOMAIN Tables : i < at' => Matches(Tables[i])'
      BY <1>1, <1>4, <2>1
    <2>4. QED
      BY <2>1, <2>2, <2>3 DEF Progress
  <1>7. QED
    BY <1>5, <1>6

LEMMA StartKeeps ==
  ASSUME Inv, Start
  PROVE  Inv'
  <1>1. /\ main' = main /\ temp' = temp /\ written' = written /\ incident' = incident
        /\ pc = "down" /\ pc' = "select" /\ at' = 1 /\ wanted' \in [Stored -> Schemas]
    BY DEF Start, Stored
  <1>2. Typed'
    <2>1. at' \in DOMAIN Tables
      BY <1>1, PatcherAssumption, EmptySeq
    <2>2. starts' \in 0 .. MaxStarts
      BY PatcherAssumption DEF Inv, Typed, Start
    <2>3. \A t \in Stored : Declarable(wanted'[t])
      BY <1>1, PatcherAssumption
    <2>4. QED
      BY <1>1, <2>1, <2>2, <2>3 DEF Inv, Typed, Database
  <1>3. Progress'
    <2>1. \A i \in DOMAIN Tables : ~(i < 1)
      BY PatcherAssumption
    <2>2. QED
      BY <1>1, <2>1 DEF Progress
  <1>4. NothingDestroyed' /\ Clean'
    BY <1>1 DEF Inv, NothingDestroyed, Clean
  <1>5. QED
    BY <1>2, <1>3, <1>4 DEF Inv

LEMMA SelectKeeps ==
  ASSUME Inv, Select
  PROVE  Inv'
  <1>1. /\ main' = main /\ temp' = temp /\ wanted' = wanted /\ written' = written
        /\ incident' = incident /\ starts' = starts /\ pc = "select"
    BY DEF Select
  <1>2. Progress' /\ at' \in DOMAIN Tables /\ pc' \in {"select", "running", "createNew", "rename"}
    <2>1. CASE main[Current] = Absent /\ pc' = "createNew" /\ UNCHANGED at
      <3>1. \A i \in DOMAIN Tables : i < at => Matches(Tables[i])'
        BY <1>1, OthersMatch
      <3>2. Current' = Current /\ at \in DOMAIN Tables
        BY <2>1 DEF Current, Inv, Typed
      <3>3. QED
        BY <1>1, <2>1, <3>1, <3>2 DEF Progress
    <2>2. CASE SameTable(Parse(main[Current].columns), wanted[Current]) /\ NextTable
      BY <1>1, <2>2, TableDone
    <2>3. CASE pc' = "rename" /\ UNCHANGED at
      <3>1. \A i \in DOMAIN Tables : i < at => Matches(Tables[i])'
        BY <1>1, OthersMatch
      <3>2. QED
        BY <1>1, <2>3, <3>1 DEF Progress, Inv, Typed
    <2>4. QED
      BY <2>1, <2>2, <2>3 DEF Select
  <1>3. Typed'
    BY <1>1, <1>2 DEF Inv, Typed, Database
  <1>4. NothingDestroyed' /\ Clean'
    BY <1>1, <1>2 DEF Inv, NothingDestroyed, Clean
  <1>5. QED
    BY <1>2, <1>3, <1>4 DEF Inv

\* The program ends after a statement that failed, or did not happen.
LEMMA GiveUpKeeps ==
  ASSUME Inv, GiveUp, UNCHANGED <<main, temp, wanted, at, written, starts>>
  PROVE  Inv'
  <1>1. Typed' /\ Progress' /\ Clean'
    BY DEF Inv, GiveUp, Typed, Database, Progress, Clean
  <1>2. NothingDestroyed'
    BY DEF Inv, NothingDestroyed
  <1>3. QED
    BY <1>1, <1>2 DEF Inv

LEMMA RenameKeeps ==
  ASSUME Inv, Rename
  PROVE  Inv'
  <1> DEFINE c == Current
  <1>1. c \in Stored /\ at \in DOMAIN Tables /\ Database(main) /\ Database(temp)
    BY CurrentIsStored DEF Inv, Typed
  <1>2. CASE /\ temp[c] = Absent
             /\ temp' = [temp EXCEPT ![c] = main[c]]
             /\ main' = [main EXCEPT ![c] = Absent]
             /\ pc' = "create" /\ incident' = incident
    <2>1. /\ wanted' = wanted /\ at' = at /\ written' = written /\ starts' = starts
          /\ pc = "rename" /\ Current' = c
      BY DEF Rename, Current
    <2> HIDE DEF c
    <2>2. Sound(main[c])
      BY <1>1 DEF Database
    <2>3. /\ Database(temp') /\ temp'[c] = main[c]
          /\ \A u \in Stored : u # c => temp'[u] = temp[u]
      <3> DEFINE next == [temp EXCEPT ![c] = main[c]]
      <3>1. Database(next) /\ next[c] = main[c] /\ \A u \in Stored : u # c => next[u] = temp[u]
        BY <1>1, <2>2, Replaced
      <3>2. temp' = next
        BY <1>2
      <3> HIDE DEF next
      <3>3. QED
        BY <3>1, <3>2
    <2>4. /\ Database(main') /\ main'[c] = Absent
          /\ \A u \in Stored : u # c => main'[u] = main[u]
      <3> DEFINE next == [main EXCEPT ![c] = Absent]
      <3>1. Database(next) /\ next[c] = Absent /\ \A u \in Stored : u # c => next[u] = main[u]
        BY <1>1, EmptyTables, Replaced
      <3>2. main' = next
        BY <1>2
      <3> HIDE DEF next
      <3>3. QED
        BY <3>1, <3>2
    <2>5. Database(main)' /\ Database(temp)'
      BY <2>3, <2>4 DEF Database
    <2>6. Typed'
      BY <1>2, <2>1, <2>5 DEF Inv, Typed
    <2>7. Progress'
      <3>1. \A i \in DOMAIN Tables : i < at => Matches(Tables[i])'
        BY <2>1, <2>4, OthersMatch DEF c
      <3>2. QED
        BY <1>2, <2>1, <2>4, <3>1 DEF Progress
    <2>8. NothingDestroyed'
      <3>1. ASSUME NEW t \in Stored
            PROVE  written[t] \subseteq Ids(main'[t]) \cup Ids(temp'[t])
        <4>1. written[t] \subseteq Ids(main[t]) \cup Ids(temp[t])
          BY DEF Inv, NothingDestroyed, Stored
        <4>2. CASE t = c
          BY <1>2, <2>3, <4>1, <4>2, EmptyTables
        <4>3. CASE t # c
          BY <2>3, <2>4, <4>1, <4>3
        <4>4. QED
          BY <4>2, <4>3
      <3>2. QED
        BY <2>1, <3>1 DEF NothingDestroyed, Stored
    <2>9. Clean'
      <3>1. SUFFICES ASSUME ~incident, NEW t \in Stored
                     PROVE  IF t = c THEN Ids(temp'[t]) = written[t]
                            ELSE Ids(main'[t]) = written[t] /\ temp'[t] = Absent
        BY <1>2, <2>1 DEF Clean
      <3>2. Ids(main[t]) = written[t] /\ temp[t] = Absent
        BY <2>1, <3>1 DEF Inv, Clean
      <3>3. QED
        BY <2>3, <2>4, <3>1, <3>2
    <2>10. QED
      BY <2>6, <2>7, <2>8, <2>9 DEF Inv
  <1>3. CASE GiveUp /\ UNCHANGED <<main, temp>>
    BY <1>3, GiveUpKeeps DEF Rename
  <1>4. QED
    BY <1>2, <1>3 DEF Rename
\* What the rows have to do with the statements when no table is being rebuilt.
LEMMA CleanBetweenTables ==
  ASSUME pc' \in {"select", "running"},
         ~incident' => \A t \in Stored : Ids(main'[t]) = written'[t] /\ temp'[t] = Absent
  PROVE  Clean'
  BY DEF Clean

LEMMA CreateKeeps ==
  ASSUME Inv, Create
  PROVE  Inv'
  <1> DEFINE c == Current
             table == [columns |-> Generate(wanted[c]), rows |-> {}]
             next == [main EXCEPT ![c] = table]
  <1>1. c \in Stored /\ at \in DOMAIN Tables /\ Database(main) /\ Database(temp) /\ Declarable(wanted[c])
    BY CurrentIsStored DEF Inv, Typed
  <1>2. /\ temp' = temp /\ wanted' = wanted /\ written' = written /\ starts' = starts
        /\ incident' = incident /\ pc \in {"create", "createNew"} /\ main' = next
    BY DEF Create
  <1>3. main[c] = Absent
    BY <1>2 DEF Inv, Progress
  <1>4. /\ Sound(table) /\ Ids(table) = {} /\ table.columns = Generate(wanted[c]) /\ table.rows = {}
        /\ SameTable(Parse(table.columns), wanted[c])
    BY <1>1, GeneratedMatches, EmptyTables
  <1> HIDE DEF table
  <1>5. Database(next) /\ next[c] = table /\ \A u \in Stored : u # c => next[u] = main[u]
    BY <1>1, <1>4, Replaced
  <1> HIDE DEF next
  <1>6. /\ Database(main') /\ main'[c] = table
        /\ \A u \in Stored : u # c => main'[u] = main[u]
    BY <1>2, <1>5
  <1>7. Database(main)' /\ Database(temp)'
    BY <1>1, <1>2, <1>6 DEF Database
  <1>8. NothingDestroyed'
    <2>1. ASSUME NEW t \in Stored
          PROVE  written[t] \subseteq Ids(main'[t]) \cup Ids(temp[t])
      <3>1. written[t] \subseteq Ids(main[t]) \cup Ids(temp[t])
        BY DEF Inv, NothingDestroyed, Stored
      <3>2. t = c => Ids(main[t]) = {}
        BY <1>3, EmptyTables
      <3>3. QED
        BY <1>6, <3>1, <3>2
    <2>2. QED
      BY <1>2, <2>1 DEF NothingDestroyed, Stored
  <1>9. CASE pc = "create"
    <2>1. pc' = "populate" /\ at' = at /\ Current' = c
      BY <1>9 DEF Create, Current
    <2>2. Typed'
      BY <1>2, <1>7, <2>1 DEF Inv, Typed
    <2>3. Progress'
      <3>1. \A i \in DOMAIN Tables : i < at => Matches(Tables[i])'
        BY <1>2, <1>6, OthersMatch DEF c
      <3>2. QED
        BY <1>2, <1>4, <1>6, <2>1, <3>1 DEF Progress
    <2>4. Clean'
      <3>1. SUFFICES ASSUME ~incident, NEW t \in Stored
                     PROVE  IF t = c THEN Ids(temp[t]) = written[t]
                            ELSE Ids(main'[t]) = written[t] /\ temp[t] = Absent
        BY <1>2, <2>1 DEF Clean
      <3>2. IF t = c THEN Ids(temp[t]) = written[t]
            ELSE Ids(main[t]) = written[t] /\ temp[t] = Absent
        BY <1>9, <3>1 DEF Inv, Clean, c
      <3>3. QED
        BY <1>6, <3>2
    <2>5. QED
      BY <1>8, <2>2, <2>3, <2>4 DEF Inv
  <1>10. CASE pc = "createNew"
    <2>1. Progress' /\ at' \in DOMAIN Tables /\ pc' \in {"select", "running"}
      <3>1. NextTable /\ pc # "down"
        BY <1>10 DEF Create
      <3>2. SameTable(Parse(main'[Current].columns), wanted[Current])
        BY <1>4, <1>6 DEF c
      <3>3. \A t \in Stored : t # Current => main'[t].columns = main[t].columns
        BY <1>6 DEF c
      <3>4. QED
        BY <1>2, <3>1, <3>2, <3>3, TableDone
    <2>2. Typed'
      BY <1>2, <1>7, <2>1 DEF Inv, Typed
    <2>3. Clean'
      <3>1. ASSUME ~incident, NEW t \in Stored
            PROVE  Ids(main'[t]) = written[t] /\ temp[t] = Absent
        <4>1. Ids(main[t]) = written[t] /\ temp[t] = Absent
          BY <1>10, <3>1 DEF Inv, Clean
        <4>2. t = c => Ids(main'[t]) = Ids(main[t])
          BY <1>3, <1>4, <1>6, EmptyTables
        <4>3. QED
          BY <1>6, <4>1, <4>2
      <3>2. QED
        BY <1>2, <2>1, <3>1, CleanBetweenTables
    <2>4. QED
      BY <1>8, <2>1, <2>2, <2>3 DEF Inv
  <1>11. QED
    BY <1>2, <1>9, <1>10

LEMMA PopulateKeeps ==
  ASSUME Inv, Populate
  PROVE  Inv'
  <1> DEFINE c == Current
             rows == Copied(temp[c].rows, Parse(temp[c].columns), main[c].columns)
             table == [main[c] EXCEPT !.rows = rows]
             next == [main EXCEPT ![c] = table]
  <1>1. c \in Stored /\ at \in DOMAIN Tables /\ Database(main) /\ Database(temp)
        /\ Sound(main[c]) /\ Sound(temp[c])
    BY CurrentIsStored DEF Inv, Typed, Database
  <1>2. CASE GiveUp /\ UNCHANGED main
    BY <1>2, GiveUpKeeps DEF Populate
  <1>3. CASE /\ Constrained(main[c].columns, rows)
             /\ main' = next /\ pc' = "drop" /\ incident' = incident
    <2>1. /\ temp' = temp /\ wanted' = wanted /\ at' = at /\ written' = written
          /\ starts' = starts /\ pc = "populate" /\ Current' = c
      BY DEF Populate, Current
    <2>2. main[c].columns = Generate(wanted[c]) /\ main[c].rows = {}
      BY <2>1 DEF Inv, Progress
    <2>3. rows \subseteq Row(main[c].columns) /\ {r.id : r \in rows} = Ids(temp[c])
      BY <1>1, CopyKeepsIds
    <2> HIDE DEF rows
    <2>4. /\ table = [columns |-> main[c].columns, rows |-> rows]
          /\ table.columns = main[c].columns /\ table.rows = rows
      BY <1>1 DEF Sound
    <2> HIDE DEF table
    <2>5. Sound(table) /\ Ids(table) = Ids(temp[c])
      BY <1>1, <1>3, <2>3, <2>4 DEF Sound, Ids
    <2>6. Database(next) /\ next[c] = table /\ \A u \in Stored : u # c => next[u] = main[u]
      BY <1>1, <2>5, Replaced
    <2> HIDE DEF next
    <2>7. /\ Database(main') /\ main'[c] = table
          /\ \A u \in Stored : u # c => main'[u] = main[u]
      BY <1>3, <2>6
    <2>8. Database(main)' /\ Database(temp)'
      BY <1>1, <2>1, <2>7 DEF Database
    <2>9. Typed'
      BY <1>3, <2>1, <2>8 DEF Inv, Typed
    <2>10. Progress'
      <3>1. \A i \in DOMAIN Tables : i < at => Matches(Tables[i])'
        BY <2>1, <2>7, OthersMatch DEF c
      <3>2. QED
        BY <1>3, <2>1, <2>2, <2>4, <2>5, <2>7, <3>1 DEF Progress
    <2>11. NothingDestroyed'
      <3>1. ASSUME NEW t \in Stored
            PROVE  written[t] \subseteq Ids(main'[t]) \cup Ids(temp[t])
        <4>1. written[t] \subseteq Ids(main[t]) \cup Ids(temp[t])
          BY DEF Inv, NothingDestroyed, Stored
        <4>2. t = c => Ids(main[t]) = {}
          BY <2>2 DEF Ids
        <4>3. QED
          BY <2>7, <4>1, <4>2
      <3>2. QED
        BY <2>1, <3>1 DEF NothingDestroyed, Stored
    <2>12. Clean'
      <3>1. SUFFICES ASSUME ~incident, NEW t \in Stored
                     PROVE  /\ Ids(main'[t]) = written[t]
                            /\ t # c => temp[t] = Absent
        BY <1>3, <2>1 DEF Clean
      <3>2. IF t = c THEN Ids(temp[t]) = written[t]
            ELSE Ids(main[t]) = written[t] /\ temp[t] = Absent
        BY <2>1, <3>1 DEF Inv, Clean, c
      <3>3. QED
        BY <2>5, <2>7, <3>2
    <2>13. QED
      BY <2>9, <2>10, <2>11, <2>12 DEF Inv
  <1>4. QED
    BY <1>2, <1>3 DEF Populate

LEMMA DropKeeps ==
  ASSUME Inv, Drop
  PROVE  Inv'
  <1> DEFINE c == Current
             next == [temp EXCEPT ![c] = Absent]
  <1>1. c \in Stored /\ at \in DOMAIN Tables /\ Database(main) /\ Database(temp) /\ Declarable(wanted[c])
    BY CurrentIsStored DEF Inv, Typed
  <1>2. /\ main' = main /\ wanted' = wanted /\ written' = written /\ starts' = starts
        /\ incident' = incident /\ pc = "drop" /\ temp' = next /\ NextTable
    BY DEF Drop
  <1>3. main[c].columns = Generate(wanted[c]) /\ Ids(temp[c]) \subseteq Ids(main[c])
    BY <1>2 DEF Inv, Progress
  <1>4. Database(next) /\ next[c] = Absent /\ \A u \in Stored : u # c => next[u] = temp[u]
    BY <1>1, EmptyTables, Replaced
  <1> HIDE DEF next
  <1>5. /\ Database(temp') /\ temp'[c] = Absent
        /\ \A u \in Stored : u # c => temp'[u] = temp[u]
    BY <1>2, <1>4
  <1>6. Database(main)' /\ Database(temp)'
    BY <1>1, <1>2, <1>5 DEF Database
  <1>7. Progress' /\ at' \in DOMAIN Tables /\ pc' \in {"select", "running"}
    <2>1. SameTable(Parse(main'[Current].columns), wanted[Current])
      BY <1>1, <1>2, <1>3, GeneratedMatches
    <2>2. QED
      BY <1>2, <2>1, TableDone
  <1>8. Typed'
    BY <1>2, <1>6, <1>7 DEF Inv, Typed
  <1>9. NothingDestroyed'
    <2>1. ASSUME NEW t \in Stored
          PROVE  written[t] \subseteq Ids(main[t]) \cup Ids(temp'[t])
      <3>1. written[t] \subseteq Ids(main[t]) \cup Ids(temp[t])
        BY DEF Inv, NothingDestroyed, Stored
      <3>2. QED
        BY <1>3, <1>5, <3>1
    <2>2. QED
      BY <1>2, <2>1 DEF NothingDestroyed, Stored
  <1>10. Clean'
    <2>1. ASSUME ~incident, NEW t \in Stored
          PROVE  Ids(main[t]) = written[t] /\ temp'[t] = Absent
      <3>1. Ids(main[t]) = written[t] /\ (t # c => temp[t] = Absent)
        BY <1>2, <2>1 DEF Inv, Clean
      <3>2. QED
        BY <1>5, <3>1
    <2>2. QED
      BY <1>2, <1>7, <2>1, CleanBetweenTables
  <1>11. QED
    BY <1>7, <1>8, <1>9, <1>10 DEF Inv

LEMMA StopKeeps ==
  ASSUME Inv, Stop
  PROVE  Inv'
  <1>1. /\ main' = main /\ temp' = temp /\ wanted' = wanted /\ at' = at /\ written' = written
        /\ starts' = starts /\ incident' = incident /\ pc = "running" /\ pc' = "down"
    BY DEF Stop
  <1>2. Typed' /\ Progress'
    BY <1>1 DEF Inv, Typed, Database, Progress
  <1>3. NothingDestroyed' /\ Clean'
    BY <1>1 DEF Inv, NothingDestroyed, Clean
  <1>4. QED
    BY <1>2, <1>3 DEF Inv
\* The id of a new row is a number of rows plus one.
LEMMA NewIdIsNatural ==
  ASSUME Typed
  PROVE  Cardinality(UNION {written[u] : u \in Stored}) + 1 \in Nat \ {0}
  <1>1. UNION {written[u] : u \in Stored} \subseteq 1 .. MaxRows
    BY DEF Typed
  <1>2. IsFiniteSet(1 .. MaxRows)
    BY PatcherAssumption, FS_Interval
  <1>3. IsFiniteSet(UNION {written[u] : u \in Stored})
    BY <1>1, <1>2, FS_Subset
  <1>4. Cardinality(UNION {written[u] : u \in Stored}) \in Nat
    BY <1>3, FS_CardinalityType
  <1>5. QED
    BY <1>4

LEMMA InsertKeeps ==
  ASSUME Inv, Insert
  PROVE  Inv'
  <1>1. Typed /\ Database(main) /\ Database(temp)
    BY DEF Inv, Typed
  <1>2. /\ temp' = temp /\ wanted' = wanted /\ pc' = pc /\ at' = at /\ starts' = starts
        /\ incident' = incident /\ pc = "running"
    BY DEF Insert
  <1> DEFINE id == Cardinality(UNION {written[u] : u \in Stored}) + 1
  <1>3. PICK t \in Stored :
          /\ id <= MaxRows
          /\ \E val \in [Names(main[t].columns) \ {"id"} -> Values \cup {Null}] :
               LET rows == main[t].rows \cup {[id |-> id, val |-> val]} IN
                 /\ Constrained(main[t].columns, rows)
                 /\ main' = [main EXCEPT ![t].rows = rows]
          /\ written' = [written EXCEPT ![t] = @ \cup {id}]
    BY DEF Insert, Stored
  <1>4. PICK val \in [Names(main[t].columns) \ {"id"} -> Values \cup {Null}] :
          /\ Constrained(main[t].columns, main[t].rows \cup {[id |-> id, val |-> val]})
          /\ main' = [main EXCEPT ![t].rows = main[t].rows \cup {[id |-> id, val |-> val]}]
    BY <1>3
  <1>5. id \in 1 .. MaxRows
    BY <1>1, <1>3, NewIdIsNatural, PatcherAssumption
  <1> HIDE DEF id
  <1> DEFINE row == [id |-> id, val |-> val]
             rows == main[t].rows \cup {row}
             table == [main[t] EXCEPT !.rows = rows]
             next == [main EXCEPT ![t] = table]
  <1>6. row \in Row(main[t].columns) /\ row.id = id
    BY <1>5 DEF Row
  <1>7. Sound(main[t])
    BY <1>1 DEF Database
  <1>8. Constrained(main[t].columns, rows) /\ main' = next
    BY <1>4
  <1> HIDE DEF row
  <1>9. rows \subseteq Row(main[t].columns) /\ {r.id : r \in rows} = Ids(main[t]) \cup {id}
    BY <1>6, <1>7 DEF Sound, Ids
  <1> HIDE DEF rows
  <1>10. /\ table = [columns |-> main[t].columns, rows |-> rows]
         /\ table.columns = main[t].columns /\ table.rows = rows
    BY <1>7 DEF Sound
  <1> HIDE DEF table
  <1>11. Sound(table) /\ Ids(table) = Ids(main[t]) \cup {id}
    BY <1>7, <1>8, <1>9, <1>10 DEF Sound, Ids
  <1>12. Database(next) /\ next[t] = table /\ \A u \in Stored : u # t => next[u] = main[u]
    BY <1>1, <1>11, Replaced
  <1> HIDE DEF next
  <1>13. /\ Database(main)' /\ Database(temp)'
         /\ Ids(main'[t]) = Ids(main[t]) \cup {id}
         /\ \A u \in Stored : u # t => main'[u] = main[u]
         /\ \A u \in Stored : main'[u].columns = main[u].columns
    BY <1>1, <1>2, <1>8, <1>10, <1>11, <1>12 DEF Database
  <1>14. /\ written' \in [Stored -> SUBSET (1 .. MaxRows)]
         /\ written'[t] = written[t] \cup {id}
         /\ \A u \in Stored : u # t => written'[u] = written[u]
    BY <1>1, <1>3, <1>5 DEF Typed
  <1>15. Typed'
    BY <1>1, <1>2, <1>13, <1>14 DEF Typed
  <1>16. Progress'
    <2>1. \A i \in DOMAIN Tables : Tables[i] \in Stored
      BY DEF Stored, ToSet
    <2>2. \A u \in Stored : Matches(u)'
      BY <1>2, <1>13 DEF Inv, Progress, Matches
    <2>3. QED
      BY <1>2, <2>1, <2>2 DEF Progress
  <1>17. NothingDestroyed'
    <2>1. ASSUME NEW u \in Stored
          PROVE  written'[u] \subseteq Ids(main'[u]) \cup Ids(temp[u])
      <3>1. written[u] \subseteq Ids(main[u]) \cup Ids(temp[u])
        BY DEF Inv, NothingDestroyed, Stored
      <3>2. QED
        BY <1>13, <1>14, <3>1
    <2>2. QED
      BY <1>2, <2>1 DEF NothingDestroyed, Stored
  <1>18. Clean'
    <2>1. ASSUME ~incident, NEW u \in Stored
          PROVE  Ids(main'[u]) = written'[u] /\ temp[u] = Absent
      <3>1. Ids(main[u]) = written[u] /\ temp[u] = Absent
        BY <1>2, <2>1 DEF Inv, Clean
      <3>2. QED
        BY <1>13, <1>14, <3>1
    <2>2. QED
      BY <1>2, <2>1, CleanBetweenTables
  <1>19. QED
    BY <1>15, <1>16, <1>17, <1>18 DEF Inv

LEMMA NextInv == Inv /\ [Next]_vars => Inv'
  <1>1. SUFFICES ASSUME Inv, [Next]_vars PROVE Inv'
    OBVIOUS
  <1>2. CASE Start
    BY <1>1, <1>2, StartKeeps
  <1>3. CASE Select
    BY <1>1, <1>3, SelectKeeps
  <1>4. CASE Rename
    BY <1>1, <1>4, RenameKeeps
  <1>5. CASE Create
    BY <1>1, <1>5, CreateKeeps
  <1>6. CASE Populate
    BY <1>1, <1>6, PopulateKeeps
  <1>7. CASE Drop
    BY <1>1, <1>7, DropKeeps
  <1>8. CASE Interrupt
    BY <1>1, <1>8, GiveUpKeeps DEF Interrupt
  <1>9. CASE Insert
    BY <1>1, <1>9, InsertKeeps
  <1>10. CASE Stop
    BY <1>1, <1>10, StopKeeps
  <1>11. CASE UNCHANGED vars
    <2>1. Typed' /\ Progress'
      BY <1>1, <1>11 DEF vars, Inv, Typed, Database, Progress, Matches, Current
    <2>2. NothingDestroyed' /\ Clean'
      BY <1>1, <1>11 DEF vars, Inv, NothingDestroyed, Clean, Current
    <2>3. QED
      BY <2>1, <2>2 DEF Inv
  <1>12. QED
    BY <1>1, <1>2, <1>3, <1>4, <1>5, <1>6, <1>7, <1>8, <1>9, <1>10, <1>11 DEF Next, Patch

\* The inductive invariant: where CheckAndResolve is tells which tables match
\* and in which of its two tables the rows of the current one are.
THEOREM Invariance == Spec => []Inv
  BY InitInv, NextInv, PTL DEF Spec

-----------------------------------------------------------------------------
(* The theorems.                                                           *)

\* The types of the variables; the rows of a table, temporary or not, have a
\* value for each of its columns.
THEOREM TypeCorrect == Spec => []TypeOK
  <1>1. Inv => TypeOK
    <2>1. SUFFICES ASSUME Inv PROVE TypeOK
      OBVIOUS
    <2>2. ASSUME NEW table, Sound(table)
          PROVE  WellFormed(table)
      BY <2>2 DEF Sound, Row, WellFormed
    <2>3. ASSUME NEW t \in Stored
          PROVE  WellFormed(main[t]) /\ WellFormed(temp[t]) /\ written[t] \subseteq 1 .. MaxRows
      BY <2>1, <2>2 DEF Inv, Typed, Database
    <2>4. QED
      BY <2>1, <2>3 DEF Inv, Typed, TypeOK, Stored
  <1>2. QED
    BY <1>1, Invariance, PTL

\* A row that the application has inserted is in its table or in the temporary
\* copy of it, at whatever statements the starts were interrupted.
THEOREM RowsAreKept == Spec => []NothingDestroyed
  <1>1. Inv => NothingDestroyed
    BY DEF Inv
  <1>2. QED
    BY <1>1, Invariance, PTL

\* A program that runs has the tables it declares, types excepted, and their
\* rows obey its constraints, whichever versions and failures came before.
THEOREM PatchedBeforeRunning == Spec => []RunningOnWantedTables
  <1>1. Inv => RunningOnWantedTables
    <2>1. SUFFICES ASSUME Inv, pc = "running", NEW t \in Stored
                   PROVE  LET fields == Parse(main[t].columns) IN
                            /\ DOMAIN fields = DOMAIN wanted[t]
                            /\ \A i \in DOMAIN fields :
                                 wanted[t][i] = [fields[i] EXCEPT !.type = wanted[t][i].type]
                            /\ Constrained(main[t].columns, main[t].rows)
      BY DEF RunningOnWantedTables, Stored
    <2> DEFINE fields == Parse(main[t].columns)
    <2>2. /\ Sound(main[t]) /\ Declarable(wanted[t])
          /\ Len(fields) = Len(wanted[t])
          /\ \A i \in DOMAIN fields : SameField(fields[i], wanted[t][i])
      BY <2>1 DEF Inv, Typed, Database, Progress, Matches, SameTable
    <2>3. /\ fields = [i \in 1 .. Len(main[t].columns) |-> FieldOf(main[t].columns[i])]
          /\ Len(main[t].columns) \in Nat
      BY <2>2 DEF Parse, Sound
    <2> HIDE DEF fields
    <2>4. DOMAIN fields = 1 .. Len(main[t].columns) /\ Len(fields) = Len(main[t].columns)
      BY <2>3
    <2>5. DOMAIN wanted[t] = 1 .. Len(wanted[t]) /\ wanted[t] \in Seq(Field)
      BY <2>2 DEF Declarable
    <2>6. DOMAIN fields = DOMAIN wanted[t]
      BY <2>2, <2>4, <2>5
    <2>7. ASSUME NEW i \in DOMAIN fields
          PROVE  wanted[t][i] = [fields[i] EXCEPT !.type = wanted[t][i].type]
      <3> DEFINE f == fields[i]
                 w == wanted[t][i]
      <3>1. w \in Field
        BY <2>5, <2>6, ElementOfSeq
      <3>2. f = [name |-> f.name, type |-> f.type, canBeNull |-> f.canBeNull,
                 unique |-> f.unique, primary |-> f.primary]
        BY <2>3, <2>4 DEF FieldOf
      <3>3. f.name = w.name /\ f.primary = w.primary /\ f.unique = w.unique
            /\ f.canBeNull = w.canBeNull
        BY <2>2 DEF SameField
      <3>4. w = [name |-> w.name, type |-> w.type, canBeNull |-> w.canBeNull,
                 unique |-> w.unique, primary |-> w.primary]
        BY <3>1 DEF Field
      <3> HIDE DEF f, w
      <3>5. w = [f EXCEPT !.type = w.type]
        BY <3>2, <3>3, <3>4
      <3>6. QED
        BY <3>5 DEF f, w
    <2>8. QED
      BY <2>2, <2>6, <2>7 DEF Sound, fields
  <1>2. QED
    BY <1>1, Invariance, PTL

\* Starts that are not interrupted, and whose copies succeed, keep every row in
\* its table and leave no temporary table behind.
THEOREM CleanStartsLoseNothing == Spec => []CleanStartsKeepRows
  <1>1. Inv => CleanStartsKeepRows
    BY DEF Inv, Clean, CleanStartsKeepRows, Stored
  <1>2. QED
    BY <1>1, Invariance, PTL

-----------------------------------------------------------------------------
(* DataStructure.  What a cell keeps.                                      *)

\* The least of a set of indices: NatLessThanWellFounded and WFMin give it.
LEMMA LeastIndex ==
  ASSUME NEW I \in SUBSET Nat, I # {}
  PROVE  Data!Min(I) \in I /\ \A j \in I : Data!Min(I) <= j
  <1> DEFINE R == OpToRel(<, Nat)
  <1>1. IsWellFoundedOn(R, Nat)
    BY NatLessThanWellFounded
  <1>2. R = {ss \in Nat \X Nat : ss[1] < ss[2]}
    BY Zenon DEF OpToRel
  <1> HIDE DEF R
  <1>3. PICK x \in I : \A y \in I : <<y, x>> \notin R
    BY <1>1, WFMin
  <1>4. ASSUME NEW y \in I, ~(x <= y) PROVE FALSE
    <2>1. x \in Nat /\ y \in Nat /\ y < x
      BY <1>4
    <2>2. <<y, x>> \in R
      BY <1>2, <2>1
    <2>3. QED
      BY <1>3, <2>2
  <1>5. QED
    BY <1>4 DEF Data!Min

\* A text is bound without a NUL, and as it is when it has none.
LEMMA BoundText ==
  ASSUME NEW v \in Seq(Nat)
  PROVE  /\ Data!UpToNul(v) \in Seq(Nat)
         /\ 0 \notin Data!Range(Data!UpToNul(v))
         /\ 0 \notin Data!Range(v) => Data!UpToNul(v) = v
  <1> DEFINE I == {i \in 1..Len(v) : v[i] = 0}
             nul == IF I # {} THEN Data!Min(I) ELSE 0
  <1>1. Data!UpToNul(v) = IF nul = 0 THEN v ELSE SubSeq(v, 1, nul - 1)
    BY DEF Data!UpToNul, Data!SelectInSeq
  <1>2. CASE I = {}
    <2>1. Data!UpToNul(v) = v
      BY <1>1, <1>2
    <2>2. \A i \in 1..Len(v) : v[i] # 0
      BY <1>2
    <2> HIDE DEF I
    <2>3. QED
      BY <2>1, <2>2 DEF Data!Range
  <1>3. CASE I # {}
    <2>0. I \in SUBSET Nat
      OBVIOUS
    <2>1. nul \in I /\ \A j \in I : nul <= j
      <3> HIDE DEF I
      <3> QED BY <1>3, <2>0, LeastIndex
    <2> HIDE DEF nul
    <2>2. nul \in 1..Len(v) /\ v[nul] = 0 /\ Data!UpToNul(v) = SubSeq(v, 1, nul - 1)
      BY <1>1, <2>1
    <2>3. /\ SubSeq(v, 1, nul - 1) \in Seq(Nat)
          /\ Len(SubSeq(v, 1, nul - 1)) = nul - 1
          /\ \A i \in 1..nul - 1 : SubSeq(v, 1, nul - 1)[i] = v[i]
      BY <2>2
    <2>4. \A i \in 1..nul - 1 : v[i] # 0
      BY <2>1, <2>2
    <2>5. QED
      BY <2>2, <2>3, <2>4 DEF Data!Range
  <1>4. QED
    BY <1>2, <1>3

\* What is bound for a value is a cell of its column.
LEMMA BoundCell ==
  ASSUME NEW f \in Data!DataField, NEW v, Data!IsValue(f, v)
  PROVE  Data!IsCell(f, Data!Cell(f, v))
  <1>1. CASE f.basicType \in {"boolean", "integer"}
    <2>1. Data!Cell(f, v) = {[type |-> "INTEGER", of |-> v]}
      BY <1>1 DEF Data!Cell
    <2>2. QED
      BY <2>1 DEF Data!IsCell
  <1>2. CASE f.basicType = "text"
    <2>1. v \in Seq(Nat)
      BY <1>2 DEF Data!IsValue
    <2>2. Data!Cell(f, v) = {[type |-> "TEXT", of |-> Data!UpToNul(v)]}
      BY <1>2 DEF Data!Cell
    <2>3. Data!UpToNul(v) \in Seq(Nat) /\ Data!UpToNul(Data!UpToNul(v)) = Data!UpToNul(v)
      BY <2>1, BoundText
    <2>4. Data!Cell(f, Data!UpToNul(v)) = Data!Cell(f, v)
      BY <1>2, <2>3 DEF Data!Cell
    <2>5. Data!IsValue(f, Data!UpToNul(v))
      BY <1>2, <2>3 DEF Data!IsValue
    <2>6. QED
      BY <2>2, <2>4, <2>5 DEF Data!IsCell
  <1>3. CASE f.basicType = "byte_blob" /\ v # <<>>
    <2>1. Data!Cell(f, v) = {[type |-> "BLOB", of |-> v]}
      BY <1>3 DEF Data!Cell
    <2>2. QED
      BY <2>1 DEF Data!IsCell
  <1>4. CASE f.basicType \notin {"boolean", "integer", "text"} /\ ~(f.basicType = "byte_blob" /\ v # <<>>)
    BY <1>4 DEF Data!Cell, Data!IsCell
  <1>5. QED
    BY <1>1, <1>2, <1>3, <1>4

\* It is read back as it was, but for what the database alters.
LEMMA BoundIsRead ==
  ASSUME NEW f \in Data!DataField, NEW v, Data!IsValue(f, v), ~Data!Altered(f, v)
  PROVE  Data!Cell(f, v) # {} /\ Data!FromCell(f, Data!Cell(f, v)) = {v}
  <1>1. f.basicType \in {"boolean", "integer", "text", "byte_blob"}
    BY DEF Data!Altered, Data!DataField, Data!BasicTypes, Data!Range
  <1>2. CASE f.basicType = "boolean"
    <2>1. Data!Cell(f, v) = {[type |-> "INTEGER", of |-> v]}
      BY <1>2 DEF Data!Cell
    <2>2. v \in {<<0>>, <<1>>} /\ <<0>> # <<1>>
      BY <1>2 DEF Data!IsValue
    <2>3. Data!FromCell(f, Data!Cell(f, v)) = {<<IF v = <<1>> THEN 1 ELSE 0>>}
      BY <1>2, <2>1 DEF Data!FromCell
    <2>4. QED
      BY <2>1, <2>2, <2>3
  <1>3. CASE f.basicType = "integer"
    <2>1. Data!Cell(f, v) = {[type |-> "INTEGER", of |-> v]}
      BY <1>3 DEF Data!Cell
    <2>2. QED
      BY <1>3, <2>1 DEF Data!FromCell
  <1>4. CASE f.basicType = "text"
    <2>1. Data!UpToNul(v) = v
      BY <1>4, BoundText DEF Data!IsValue, Data!Altered
    <2>2. Data!Cell(f, v) = {[type |-> "TEXT", of |-> v]}
      BY <1>4, <2>1 DEF Data!Cell
    <2>3. QED
      BY <1>4, <2>2 DEF Data!FromCell
  <1>5. CASE f.basicType = "byte_blob"
    <2>1. Data!Cell(f, v) = {[type |-> "BLOB", of |-> v]}
      BY <1>5 DEF Data!Cell, Data!Altered
    <2>2. QED
      BY <1>5, <2>1 DEF Data!FromCell
  <1>6. QED
    BY <1>1, <1>2, <1>3, <1>4, <1>5

\* What is read from a cell is bound as that cell.
LEMMA ReadIsBound ==
  ASSUME NEW f \in Data!DataField, NEW cell, Data!IsCell(f, cell), cell # {}
  PROVE  \E v : /\ Data!IsValue(f, v) /\ Data!FromCell(f, cell) = {v}
                /\ Data!Cell(f, v) = cell
  <1>1. PICK c \in cell : cell = Data!Cell(f, c.of) /\ Data!IsValue(f, c.of)
    BY DEF Data!IsCell
  <1>2. CASE f.basicType = "boolean"
    <2>1. cell = {[type |-> "INTEGER", of |-> c.of]}
      BY <1>1, <1>2 DEF Data!Cell
    <2>2. c.of \in {<<0>>, <<1>>} /\ <<0>> # <<1>>
      BY <1>1, <1>2 DEF Data!IsValue
    <2>3. Data!FromCell(f, cell) = {<<IF c.of = <<1>> THEN 1 ELSE 0>>}
      BY <1>2, <2>1 DEF Data!FromCell
    <2>4. QED
      BY <1>1, <2>2, <2>3
  <1>3. CASE f.basicType = "integer"
    <2>1. cell = {[type |-> "INTEGER", of |-> c.of]}
      BY <1>1, <1>3 DEF Data!Cell
    <2>2. QED
      BY <1>1, <1>3, <2>1 DEF Data!FromCell
  <1>4. CASE f.basicType = "text"
    <2>1. cell = {[type |-> "TEXT", of |-> Data!UpToNul(c.of)]}
      BY <1>1, <1>4 DEF Data!Cell
    <2>2. cell = {c}
      BY <2>1
    <2>3. QED
      BY <1>1, <1>4, <2>2 DEF Data!FromCell
  <1>5. CASE f.basicType = "byte_blob" /\ c.of # <<>>
    <2>1. cell = {[type |-> "BLOB", of |-> c.of]}
      BY <1>1, <1>5 DEF Data!Cell
    <2>2. QED
      BY <1>1, <1>5, <2>1 DEF Data!FromCell
  <1>6. CASE f.basicType \notin {"boolean", "integer", "text"} /\ ~(f.basicType = "byte_blob" /\ c.of # <<>>)
    BY <1>1, <1>6 DEF Data!Cell
  <1>7. QED
    BY <1>2, <1>3, <1>4, <1>5, <1>6

\* NULL is read as no value.
LEMMA NullIsRead ==
  ASSUME NEW f
  PROVE  Data!FromCell(f, {}) = {}
  BY DEF Data!FromCell

-----------------------------------------------------------------------------
(* Structures and rows.                                                    *)

\* The structure has a primary field, p, with a value that the database gives
\* back as it is.  It is a hypothesis of the theorems: without a primary field
\* a save inserts a row each time, and so does it for a blob of no bytes; a
\* text with a NUL is not found under its own value when it is loaded.
Identifies(p, data) ==
    /\ Data!WellDefined(data.name) /\ Data!IsStructure(data)
    /\ Data!GetPrimaryField(data) = {p} /\ ~Data!Altered(p, Data!Value(data, p))

\* What a row of a column is read as.
ReadOf(side, name, row) == Data!ReadFromDbResult(side, name, row).values

\* The row is read with, or holds, the value of the structure.
IsReadAs(side, data, p, row) == ReadOf(side, data.name, row)[p.name] = data.values[p.name]
HoldsCellOf(data, p, row) == row[p.name] = Data!CellOf(data, p)

\* A table, but for the constraints.
RowsTyped(side, name, table) ==
    /\ table \in Seq(Data!Range(table))
    /\ \A i \in DOMAIN table :
         /\ DOMAIN table[i] = {f.name : f \in Data!Columns(name, side)}
         /\ \A f \in Data!Columns(name, side) : Data!IsCell(f, table[i][f.name])

\* A table satisfies this, and the constraints.
LEMMA TableIsTyped ==
  ASSUME NEW side, NEW name, NEW table, Data!IsTable(side, name, table)
  PROVE  RowsTyped(side, name, table)
  BY DEF Data!IsTable, RowsTyped

\* The instance has a copy of Cardinality; FiniteSetTheorems is about this one.
LEMMA SameCardinality ==
  ASSUME NEW S
  PROVE  Data!Cardinality(S) = Cardinality(S)
  BY DEF Data!Cardinality, Cardinality

\* A column is a field of the structure, and the only one of its name.
LEMMA ColumnIsField ==
  ASSUME NEW name, Data!WellDefined(name), NEW side, NEW f \in Data!Columns(name, side)
  PROVE  /\ f \in Data!DataField /\ f \in Data!Range(Data!Fields(name))
         /\ \A g \in Data!Range(Data!Fields(name)) : g.name = f.name => g = f
  BY DEF Data!WellDefined, Data!Columns, Data!Range

\* The primary field is unique, has a value, and a column on both sides.
LEMMA PrimaryColumn ==
  ASSUME NEW data, NEW p, Data!WellDefined(data.name), Data!GetPrimaryField(data) = {p}
  PROVE  /\ p \in Data!Range(Data!Fields(data.name)) /\ p \in Data!DataField
         /\ p.isDataUnique /\ p.server /\ p.client /\ Data!HasValue(data, p)
         /\ \A side : p \in Data!Columns(data.name, side)
  <1> DEFINE fields == Data!Fields(data.name)
             usable(f) == Data!HasValue(data, f) /\ f.isDataUnique /\ f.name # "operation_uuid"
             I == {i \in 1..Len(fields) : usable(fields[i])}
             first == IF I # {} THEN Data!Min(I) ELSE 0
  <1>1. {p} = IF first = 0 THEN {} ELSE {fields[first]}
    BY DEF Data!GetPrimaryField, Data!SelectInSeq
  <1>2. I # {}
    BY <1>1
  <1>3. I \in SUBSET Nat
    OBVIOUS
  <1>4. first \in I
    <2> HIDE DEF I
    <2> QED BY <1>2, <1>3, LeastIndex
  <1> HIDE DEF first
  <1>5. p = fields[first] /\ usable(fields[first]) /\ first \in 1..Len(fields)
    BY <1>1, <1>4
  <1> HIDE DEF I
  <1>6. fields \in Seq(Data!DataField)
    BY DEF Data!WellDefined
  <1>7. p \in Data!Range(fields) /\ p \in Data!DataField
    BY <1>5, <1>6 DEF Data!Range
  <1>8. p.isDataUnique /\ Data!HasValue(data, p)
    BY <1>5
  <1>9. p.server /\ p.client
    BY <1>7, <1>8 DEF Data!WellDefined
  <1>10. \A side : p \in Data!Columns(data.name, side)
    BY <1>7, <1>9 DEF Data!Columns, Data!Stored
  <1>11. QED
    BY <1>7, <1>8, <1>9, <1>10

\* A column of a row is read by the conversion of its field.
LEMMA ReadColumn ==
  ASSUME NEW name, Data!WellDefined(name), NEW side, NEW row, NEW f \in Data!Columns(name, side)
  PROVE  ReadOf(side, name, row)[f.name] = Data!FromCell(f, row[f.name])
  <1>1. \A c \in Data!Columns(name, side) : c.name = f.name => c = f
    BY ColumnIsField
  <1>2. {c \in Data!Columns(name, side) : c.name = f.name} = {f}
    BY <1>1
  <1>3. f.name \in {g.name : g \in Data!Range(Data!Fields(name))}
    BY ColumnIsField
  <1>4. ReadOf(side, name, row)[f.name] =
          UNION {Data!FromCell(c, row[f.name]) :
                   c \in {c \in Data!Columns(name, side) : c.name = f.name}}
    BY <1>3 DEF ReadOf, Data!ReadFromDbResult, Data!NewStructure
  <1>5. QED
    BY <1>2, <1>4

\* What is saved of a structure is a cell of its column.
LEMMA SavedCell ==
  ASSUME NEW data, Data!WellDefined(data.name), Data!IsStructure(data),
         NEW f \in Data!Range(Data!Fields(data.name))
  PROVE  /\ Data!IsCell(f, Data!CellOf(data, f))
         /\ Data!HasValue(data, f) /\ ~Data!Altered(f, Data!Value(data, f))
              => /\ Data!CellOf(data, f) # {}
                 /\ Data!FromCell(f, Data!CellOf(data, f)) = data.values[f.name]
         /\ ~Data!HasValue(data, f) => Data!CellOf(data, f) = {}
  <1>1. f \in Data!DataField
    BY DEF Data!WellDefined, Data!Range
  <1>2. CASE ~Data!HasValue(data, f)
    BY <1>2 DEF Data!CellOf, Data!IsCell
  <1>3. CASE Data!HasValue(data, f)
    <2>1. Data!IsValue(f, Data!Value(data, f)) /\ data.values[f.name] = {Data!Value(data, f)}
      BY <1>3 DEF Data!IsStructure
    <2>2. Data!CellOf(data, f) = Data!Cell(f, Data!Value(data, f))
      BY <1>3 DEF Data!CellOf
    <2>3. QED
      BY <1>1, <1>3, <2>1, <2>2, BoundCell, BoundIsRead
  <1>4. QED
    BY <1>2, <1>3

\* The rows that WHERE selects are those with the cell of the structure.
LEMMA MatchingIs ==
  ASSUME NEW data, NEW p, Identifies(p, data), NEW table
  PROVE  \A i : i \in Data!Matching(table, data, p)
                  <=> i \in DOMAIN table /\ HoldsCellOf(data, p, table[i])
  <1>1. Data!HasValue(data, p) /\ p \in Data!Range(Data!Fields(data.name))
    BY PrimaryColumn DEF Identifies
  <1>2. Data!CellOf(data, p) = Data!Cell(p, Data!Value(data, p))
    BY <1>1 DEF Data!CellOf
  <1>3. Data!CellOf(data, p) # {}
    BY <1>1, SavedCell DEF Identifies
  <1>4. QED
    BY <1>2, <1>3 DEF Data!Matching, HoldsCellOf

\* They are those that are read with the value of the structure.
LEMMA MatchingIsRead ==
  ASSUME NEW data, NEW p, Identifies(p, data), NEW side, NEW table,
         RowsTyped(side, data.name, table), NEW i \in DOMAIN table
  PROVE  IsReadAs(side, data, p, table[i]) <=> HoldsCellOf(data, p, table[i])
  <1>1. /\ p \in Data!DataField /\ p \in Data!Columns(data.name, side) /\ Data!HasValue(data, p)
        /\ p \in Data!Range(Data!Fields(data.name))
    BY PrimaryColumn DEF Identifies
  <1>2. /\ Data!IsValue(p, Data!Value(data, p)) /\ data.values[p.name] = {Data!Value(data, p)}
        /\ Data!CellOf(data, p) = Data!Cell(p, Data!Value(data, p))
    BY <1>1 DEF Identifies, Data!IsStructure, Data!CellOf
  <1>3. Data!FromCell(p, Data!CellOf(data, p)) = data.values[p.name]
    BY <1>1, SavedCell DEF Identifies
  <1>4. ReadOf(side, data.name, table[i])[p.name] = Data!FromCell(p, table[i][p.name])
    BY <1>1, ReadColumn DEF Identifies
  <1>5. Data!IsCell(p, table[i][p.name])
    BY <1>1 DEF RowsTyped
  <1>6. ASSUME Data!FromCell(p, table[i][p.name]) = data.values[p.name]
        PROVE  table[i][p.name] = Data!CellOf(data, p)
    <2>1. table[i][p.name] # {}
      BY <1>2, <1>6, NullIsRead
    <2>2. PICK v : /\ Data!FromCell(p, table[i][p.name]) = {v}
                   /\ Data!Cell(p, v) = table[i][p.name]
      BY <1>1, <1>5, <2>1, ReadIsBound
    <2>3. v = Data!Value(data, p)
      BY <1>2, <1>6, <2>2
    <2>4. QED
      BY <1>2, <2>2, <2>3
  <1>7. QED
    BY <1>3, <1>4, <1>6 DEF IsReadAs, HoldsCellOf

\* What is loaded of an item is what its row, if any, is read as.
LEMMA LoadedRows ==
  ASSUME NEW data, NEW p, Identifies(p, data), NEW side, NEW table,
         RowsTyped(side, data.name, table)
  PROVE  Data!Loaded(side, table, data) =
           {ReadOf(side, data.name, table[i]) : i \in Data!Matching(table, data, p)}
  <1> DEFINE M == Data!Matching(table, data, p)
  <1>1. Data!Loaded(side, table, data) =
          {read \in {ReadOf(side, data.name, table[i]) : i \in DOMAIN table} :
             read[p.name] = data.values[p.name]}
    BY DEF Data!Loaded, Identifies, ReadOf
  <1>2. \A i : i \in M <=> i \in DOMAIN table /\ IsReadAs(side, data, p, table[i])
    BY MatchingIs, MatchingIsRead
  <1> HIDE DEF M
  <1>3. QED
    BY <1>1, <1>2 DEF M, IsReadAs

\* When one row is that of the item, what is loaded is what it is read as.
LEMMA OneLoaded ==
  ASSUME NEW data, NEW p, Identifies(p, data), NEW side, NEW table,
         RowsTyped(side, data.name, table), NEW k,
         \A i : i \in Data!Matching(table, data, p) <=> i = k
  PROVE  Data!Loaded(side, table, data) = {ReadOf(side, data.name, table[k])}
  BY LoadedRows

\* UNIQUE leaves at most one row to be that of the item.
LEMMA OneMatches ==
  ASSUME NEW data, NEW p, Identifies(p, data), NEW table,
         NEW side, Data!IsTable(side, data.name, table)
  PROVE  Data!Matching(table, data, p) = {} \/ \E k \in DOMAIN table : Data!Matching(table, data, p) = {k}
  <1>1. p \in Data!Columns(data.name, side) /\ p.isDataUnique
    BY PrimaryColumn DEF Identifies
  <1>2. Data!OneRowEach(table, p)
    BY <1>1 DEF Data!IsTable, Data!Constraints
  <1>3. QED
    BY <1>2 DEF Data!OneRowEach, Data!Matching

\* An inserted row has, in each column, the cell of the structure.
LEMMA RowInserted ==
  ASSUME NEW data, Data!WellDefined(data.name), NEW side
  PROVE  /\ DOMAIN Data!InsertedRow(side, data) = {f.name : f \in Data!Columns(data.name, side)}
         /\ \A f \in Data!Columns(data.name, side) :
              Data!InsertedRow(side, data)[f.name] = Data!CellOf(data, f)
  <1>1. ASSUME NEW f \in Data!Columns(data.name, side)
        PROVE  (CHOOSE g \in Data!Columns(data.name, side) : g.name = f.name) = f
    BY ColumnIsField DEF Data!Columns
  <1>2. QED
    BY <1>1 DEF Data!InsertedRow

\* An updated row has it where the structure has a value, and what it had elsewhere.
LEMMA RowUpdated ==
  ASSUME NEW data, Data!WellDefined(data.name), NEW side, NEW row,
         DOMAIN row = {f.name : f \in Data!Columns(data.name, side)}
  PROVE  /\ DOMAIN Data!UpdatedRow(side, row, data) = DOMAIN row
         /\ \A f \in Data!Columns(data.name, side) :
              Data!UpdatedRow(side, row, data)[f.name] =
                IF Data!HasValue(data, f) THEN Data!CellOf(data, f) ELSE row[f.name]
  <1> DEFINE saved == Data!ToSave(side, data)
  <1>1. \A f \in saved : f \in Data!Columns(data.name, side)
    BY DEF Data!ToSave
  <1>2. ASSUME NEW f \in Data!Columns(data.name, side)
        PROVE  /\ (\E g \in saved : g.name = f.name) <=> Data!HasValue(data, f)
               /\ Data!HasValue(data, f) => (CHOOSE g \in saved : g.name = f.name) = f
    <2>1. \A g \in saved : g.name = f.name => g = f
      BY <1>1, ColumnIsField
    <2>2. f \in saved <=> Data!HasValue(data, f)
      BY DEF Data!ToSave
    <2>3. QED
      BY <2>1, <2>2
  <1>3. \A c \in DOMAIN row :
          Data!UpdatedRow(side, row, data)[c] =
            IF \E f \in saved : f.name = c
            THEN Data!CellOf(data, CHOOSE f \in saved : f.name = c) ELSE row[c]
    BY DEF Data!UpdatedRow
  <1>4. DOMAIN Data!UpdatedRow(side, row, data) = DOMAIN row
    BY DEF Data!UpdatedRow
  <1> HIDE DEF saved
  <1>5. QED
    BY <1>2, <1>3, <1>4

\* The two tables that a save can make, if the database does not refuse them.
Inserted(side, table, data) == Append(table, Data!InsertedRow(side, data))

Updated(side, table, data, k) ==
    [i \in DOMAIN table |-> IF i = k THEN Data!UpdatedRow(side, table[i], data) ELSE table[i]]

Writes(side, data, after, result) ==
    result = {rows \in {after} : Data!Constraints(side, data.name, rows)}

\* The row of the item is updated, or one is inserted.
LEMMA SaveIs ==
  ASSUME NEW data, NEW p, Identifies(p, data), NEW side \in Data!Sides, NEW table
  PROVE  /\ Data!Matching(table, data, p) = {} =>
              Writes(side, data, Inserted(side, table, data), Data!SaveToDatabase(side, table, data))
         /\ \A k : Data!Matching(table, data, p) = {k} =>
              Writes(side, data, Updated(side, table, data, k), Data!SaveToDatabase(side, table, data))
  <1> DEFINE rows == Data!Matching(table, data, p)
             updated(r) == [i \in DOMAIN table |->
                              IF i \in r THEN Data!UpdatedRow(side, table[i], data) ELSE table[i]]
             saved(r) == IF Data!Cardinality(r) = 1 THEN updated(r) ELSE Inserted(side, table, data)
  <1>1. /\ p \in Data!Range(Data!Fields(data.name)) /\ p.server /\ p.client
        /\ p \in Data!Columns(data.name, side) /\ Data!HasValue(data, p)
    BY PrimaryColumn DEF Identifies
  <1>2. \E f \in Data!Range(Data!Fields(data.name)) :
           (f.client <=> side = "client") \/ (f.server /\ side = "server")
    BY <1>1 DEF Data!Sides
  <1>3. Data!ToSave(side, data) # {}
    BY <1>1 DEF Data!ToSave
  <1>4. Data!Registered(table, data) = rows
    BY DEF Data!Registered, Identifies
  <1>5. Writes(side, data, saved(Data!Registered(table, data)), Data!SaveToDatabase(side, table, data))
    BY <1>2, <1>3 DEF Data!SaveToDatabase, Inserted, Writes
  <1>6. rows = {} => saved(rows) = Inserted(side, table, data)
    <2>1. rows = {} => Data!Cardinality(rows) # 1
      BY FS_EmptySet, SameCardinality
    <2>2. QED
      BY <2>1
  <1>7. ASSUME NEW k, rows = {k}
        PROVE  saved(rows) = Updated(side, table, data, k)
    <2>1. Data!Cardinality(rows) = 1
      BY <1>7, FS_Singleton, SameCardinality
    <2>2. updated(rows) = Updated(side, table, data, k)
      BY <1>7 DEF Updated
    <2> HIDE DEF updated
    <2>3. QED
      BY <2>1, <2>2
  <1> HIDE DEF rows, saved
  <1>8. QED
    BY <1>4, <1>5, <1>6, <1>7 DEF rows

\* What a save puts in a column is a cell of that column.
LEMMA CellOfColumn ==
  ASSUME NEW data, NEW p, Identifies(p, data), NEW side,
         NEW f \in Data!Columns(data.name, side)
  PROVE  Data!IsCell(f, Data!CellOf(data, f))
  BY ColumnIsField, SavedCell DEF Identifies

\* The rows after an insertion are those before it and the new one.
LEMMA InsertedRows ==
  ASSUME NEW data, NEW side, NEW table, RowsTyped(side, data.name, table)
  PROVE  /\ Len(table) \in Nat /\ DOMAIN table = 1..Len(table)
         /\ DOMAIN Inserted(side, table, data) = 1..Len(table) + 1
         /\ Len(Inserted(side, table, data)) = Len(table) + 1
         /\ \A i \in 1..Len(table) : Inserted(side, table, data)[i] = table[i]
         /\ Inserted(side, table, data)[Len(table) + 1] = Data!InsertedRow(side, data)
         /\ Inserted(side, table, data) \in Seq(Data!Range(Inserted(side, table, data)))
  <1> DEFINE after == Inserted(side, table, data)
             row == Data!InsertedRow(side, data)
             n == Len(table)
  <1> HIDE DEF row
  <1>1. table \in Seq(Data!Range(table) \cup {row})
    BY DEF RowsTyped
  <1>2. after = Append(table, row)
    BY DEF Inserted, row
  <1> HIDE DEF after
  <1>3. /\ n \in Nat /\ DOMAIN table = 1..n
        /\ DOMAIN after = 1..n + 1 /\ Len(after) = n + 1
        /\ \A i \in 1..n : after[i] = table[i]
        /\ after[n + 1] = row
        /\ after \in Seq(Data!Range(table) \cup {row})
    BY <1>1, <1>2
  <1>4. \A i \in DOMAIN after : after[i] \in Data!Range(after)
    BY DEF Data!Range
  <1>5. after \in Seq(Data!Range(after))
    BY <1>3, <1>4
  <1>6. QED
    BY <1>3, <1>5 DEF after, row

\* An insertion, when no row is that of the item.
LEMMA InsertSaves ==
  ASSUME NEW data, NEW p, Identifies(p, data), NEW side \in Data!Sides, NEW table,
         Data!IsTable(side, data.name, table), Data!Matching(table, data, p) = {}
  PROVE  /\ RowsTyped(side, data.name, Inserted(side, table, data))
         /\ Data!Saved(side, table, Inserted(side, table, data), data)
  <1> DEFINE after == Inserted(side, table, data)
             row == Data!InsertedRow(side, data)
             cols == Data!Columns(data.name, side)
             n == Len(table)
             read == ReadOf(side, data.name, row)
  <1>1. /\ p \in cols /\ Data!HasValue(data, p)
        /\ Data!WellDefined(data.name) /\ Data!IsStructure(data)
    BY PrimaryColumn DEF Identifies
  <1>2. DOMAIN row = {f.name : f \in cols} /\ \A f \in cols : row[f.name] = Data!CellOf(data, f)
    BY <1>1, RowInserted
  <1>3. /\ table \in Seq(Data!Range(table))
        /\ \A i \in DOMAIN table : DOMAIN table[i] = {f.name : f \in cols}
        /\ \A i \in DOMAIN table, f \in cols : Data!IsCell(f, table[i][f.name])
        /\ RowsTyped(side, data.name, table)
    BY TableIsTyped DEF Data!IsTable
  <1>4. /\ n \in Nat /\ DOMAIN table = 1..n
        /\ DOMAIN after = 1..n + 1 /\ Len(after) = n + 1
        /\ \A i \in 1..n : after[i] = table[i]
        /\ after[n + 1] = row
        /\ after \in Seq(Data!Range(after))
    BY <1>3, InsertedRows
  <1> HIDE DEF row, cols, n, after
  <1>5. \A i \in DOMAIN after : DOMAIN after[i] = {f.name : f \in cols}
    BY <1>2, <1>3, <1>4
  <1>6. \A f \in cols : Data!IsCell(f, row[f.name])
    BY <1>2, CellOfColumn DEF cols
  <1>7. \A i \in DOMAIN after, f \in cols : Data!IsCell(f, after[i][f.name])
    BY <1>3, <1>4, <1>6
  <1>8. RowsTyped(side, data.name, after)
    BY <1>4, <1>5, <1>7 DEF RowsTyped, cols
  <1>9. \A i \in 1..n : ~HoldsCellOf(data, p, table[i])
    BY <1>4, MatchingIs
  <1>10. HoldsCellOf(data, p, row)
    BY <1>1, <1>2 DEF HoldsCellOf
  <1>12. \A i : i \in Data!Matching(after, data, p) <=> i = n + 1
    <2>1. \A i : i \in Data!Matching(after, data, p)
                   <=> i \in DOMAIN after /\ HoldsCellOf(data, p, after[i])
      BY MatchingIs
    <2>2. QED
      BY <1>4, <1>9, <1>10, <2>1
  <1>13. Data!Loaded(side, table, data) = {}
    BY <1>3, LoadedRows
  <1>14. Data!Loaded(side, after, data) = {read}
    BY <1>4, <1>8, <1>12, OneLoaded
  <1>15. ASSUME NEW f \in cols
         PROVE  IF Data!HasValue(data, f)
                THEN Data!Altered(f, Data!Value(data, f)) \/ read[f.name] = data.values[f.name]
                ELSE read[f.name] = {}
    <2>1. read[f.name] = Data!FromCell(f, Data!CellOf(data, f))
      BY <1>1, <1>2, ReadColumn DEF cols
    <2>2. f \in Data!Range(Data!Fields(data.name))
      BY DEF cols, Data!Columns
    <2>3. QED
      BY <1>1, <2>1, <2>2, SavedCell, NullIsRead
  <1>16. Data!Saved(side, table, after, data)
    <2> HIDE DEF read
    <2>1. Data!Cardinality(Data!Loaded(side, after, data)) = 1
      BY <1>14, FS_Singleton, SameCardinality
    <2>2. Len(after) = Len(table) + 1
      BY <1>4 DEF n
    <2>3. \A f \in cols : UNION {o[f.name] : o \in Data!Loaded(side, table, data)} = {}
      BY <1>13
    <2>4. \A i \in DOMAIN table : after[i] = table[i]
      BY <1>4
    <2>5. QED
      BY <1>13, <1>14, <1>15, <2>1, <2>2, <2>3, <2>4 DEF Data!Saved, cols
  <1>17. QED
    BY <1>8, <1>16 DEF after

\* An update, when row k is that of the item.
LEMMA UpdateSaves ==
  ASSUME NEW data, NEW p, Identifies(p, data), NEW side \in Data!Sides, NEW table,
         Data!IsTable(side, data.name, table),
         NEW k \in DOMAIN table, Data!Matching(table, data, p) = {k}
  PROVE  /\ RowsTyped(side, data.name, Updated(side, table, data, k))
         /\ Data!Saved(side, table, Updated(side, table, data, k), data)
  <1> DEFINE after == Updated(side, table, data, k)
             row == Data!UpdatedRow(side, table[k], data)
             cols == Data!Columns(data.name, side)
             old == ReadOf(side, data.name, table[k])
             read == ReadOf(side, data.name, row)
  <1>1. /\ p \in cols /\ Data!HasValue(data, p)
        /\ Data!WellDefined(data.name) /\ Data!IsStructure(data)
    BY PrimaryColumn DEF Identifies
  <1>2. /\ table \in Seq(Data!Range(table))
        /\ \A i \in DOMAIN table : DOMAIN table[i] = {f.name : f \in cols}
        /\ \A i \in DOMAIN table, f \in cols : Data!IsCell(f, table[i][f.name])
        /\ RowsTyped(side, data.name, table)
    BY TableIsTyped DEF Data!IsTable
  <1>3. /\ DOMAIN row = {f.name : f \in cols}
        /\ \A f \in cols : row[f.name] = IF Data!HasValue(data, f) THEN Data!CellOf(data, f)
                                         ELSE table[k][f.name]
    <2>1. DOMAIN table[k] = {f.name : f \in cols}
      BY <1>2
    <2>2. QED
      BY <1>1, <2>1, RowUpdated
  <1>4. /\ DOMAIN after = DOMAIN table
        /\ \A i \in DOMAIN table : i # k => after[i] = table[i]
        /\ after[k] = row
    BY DEF Updated
  <1> HIDE DEF row, cols, after
  <1>5. after \in Seq(Data!Range(after)) /\ Len(after) = Len(table)
    <2>1. DOMAIN table = 1..Len(table) /\ Len(table) \in Nat
      BY <1>2
    <2>2. after = [i \in DOMAIN table |-> after[i]]
      BY DEF after, Updated
    <2>3. \A i \in DOMAIN after : after[i] \in Data!Range(after)
      BY DEF Data!Range
    <2>4. after \in [1..Len(table) -> Data!Range(after)]
      BY <1>4, <2>1, <2>2, <2>3
    <2>5. QED
      BY <2>1, <2>4
  <1>6. \A i \in DOMAIN after : DOMAIN after[i] = {f.name : f \in cols}
    BY <1>2, <1>3, <1>4
  <1>7. ASSUME NEW f \in cols PROVE Data!IsCell(f, row[f.name])
    <2>1. Data!IsCell(f, Data!CellOf(data, f))
      BY CellOfColumn DEF cols
    <2>2. Data!IsCell(f, table[k][f.name])
      BY <1>2
    <2>3. row[f.name] = Data!CellOf(data, f) \/ row[f.name] = table[k][f.name]
      BY <1>3
    <2>4. QED
      BY <2>1, <2>2, <2>3
  <1>8. \A i \in DOMAIN after, f \in cols : Data!IsCell(f, after[i][f.name])
    BY <1>2, <1>4, <1>7
  <1>9. RowsTyped(side, data.name, after)
    BY <1>5, <1>6, <1>8 DEF RowsTyped, cols
  <1>10. \A i : i \in DOMAIN table /\ HoldsCellOf(data, p, table[i]) <=> i = k
    <2>1. \A i : i \in Data!Matching(table, data, p) <=> i = k
      OBVIOUS
    <2>2. \A i : i \in Data!Matching(table, data, p)
                   <=> i \in DOMAIN table /\ HoldsCellOf(data, p, table[i])
      BY MatchingIs
    <2>3. QED
      BY <2>1, <2>2
  <1>11. HoldsCellOf(data, p, row)
    BY <1>1, <1>3 DEF HoldsCellOf
  <1>12. \A i \in DOMAIN table : after[i][p.name] = table[i][p.name]
    <2>1. HoldsCellOf(data, p, table[k])
      BY <1>10
    <2>2. row[p.name] = table[k][p.name]
      BY <1>11, <2>1 DEF HoldsCellOf
    <2>3. QED
      BY <1>4, <2>2
  <1>14. \A i : i \in Data!Matching(after, data, p) <=> i = k
    <2>1. \A i : i \in Data!Matching(after, data, p)
                   <=> i \in DOMAIN after /\ HoldsCellOf(data, p, after[i])
      BY MatchingIs
    <2>2. \A i \in DOMAIN table : HoldsCellOf(data, p, after[i]) <=> HoldsCellOf(data, p, table[i])
      BY <1>12 DEF HoldsCellOf
    <2>3. QED
      BY <1>4, <1>10, <2>1, <2>2
  <1>15. Data!Loaded(side, table, data) = {old}
    <2>1. \A i : i \in Data!Matching(table, data, p) <=> i = k
      OBVIOUS
    <2>2. QED
      BY <1>2, <2>1, OneLoaded
  <1>16. Data!Loaded(side, after, data) = {read}
    BY <1>4, <1>9, <1>14, OneLoaded
  <1>17. ASSUME NEW f \in cols
         PROVE  IF Data!HasValue(data, f)
                THEN Data!Altered(f, Data!Value(data, f)) \/ read[f.name] = data.values[f.name]
                ELSE read[f.name] = old[f.name]
    <2>1. /\ read[f.name] = Data!FromCell(f, row[f.name])
          /\ old[f.name] = Data!FromCell(f, table[k][f.name])
      BY <1>1, ReadColumn DEF cols
    <2>2. f \in Data!Range(Data!Fields(data.name))
      BY DEF cols, Data!Columns
    <2>3. QED
      BY <1>1, <1>3, <2>1, <2>2, SavedCell
  <1>18. Data!Saved(side, table, after, data)
    <2> HIDE DEF read, old
    <2>1. Data!Cardinality(Data!Loaded(side, after, data)) = 1
      BY <1>16, FS_Singleton, SameCardinality
    <2>2. Data!Loaded(side, table, data) # {}
      BY <1>15
    <2>3. \A f : UNION {o[f] : o \in {old}} = old[f]
      OBVIOUS
    <2>4. Len(after) = Len(table) /\ Len(table) \in Nat
      BY <1>2, <1>5
    <2>5. old = Data!ReadFromDbResult(side, data.name, table[k]).values
      BY DEF old, ReadOf
    <2>6. \A i \in DOMAIN table :
            \/ after[i] = table[i]
            \/ Data!ReadFromDbResult(side, data.name, table[i]).values = old
      BY <1>4, <2>5
    <2>7. QED
      BY <1>15, <1>16, <1>17, <2>1, <2>2, <2>3, <2>4, <2>6 DEF Data!Saved, cols
  <1>19. QED
    BY <1>9, <1>18 DEF after

\* A save of a structure whose primary field has a value that the database
\* gives back, when the database does not refuse it, writes one row, that of
\* the item, and no other: what is read afterwards is each value of the
\* structure and, where it has none, what the row held before
\* (DataStructure.cpp:142, 237).
THEOREM SaveWritesItsRow ==
  ASSUME NEW data, NEW p, Identifies(p, data), NEW side \in Data!Sides,
         NEW table, Data!IsTable(side, data.name, table),
         NEW after \in Data!SaveToDatabase(side, table, data)
  PROVE  Data!IsTable(side, data.name, after) /\ Data!Saved(side, table, after, data)
  <1>1. CASE Data!Matching(table, data, p) = {}
    <2>1. Writes(side, data, Inserted(side, table, data), Data!SaveToDatabase(side, table, data))
      BY <1>1, SaveIs
    <2>2. after = Inserted(side, table, data) /\ Data!Constraints(side, data.name, after)
      BY <2>1 DEF Writes
    <2>3. /\ RowsTyped(side, data.name, Inserted(side, table, data))
          /\ Data!Saved(side, table, Inserted(side, table, data), data)
      BY <1>1, InsertSaves
    <2>4. RowsTyped(side, data.name, after) /\ Data!Saved(side, table, after, data)
      BY <2>2, <2>3
    <2>5. QED
      BY <2>2, <2>4 DEF Data!IsTable, RowsTyped
  <1>2. ASSUME NEW k \in DOMAIN table, Data!Matching(table, data, p) = {k}
        PROVE  Data!IsTable(side, data.name, after) /\ Data!Saved(side, table, after, data)
    <2>1. Writes(side, data, Updated(side, table, data, k), Data!SaveToDatabase(side, table, data))
      BY <1>2, SaveIs
    <2>2. after = Updated(side, table, data, k) /\ Data!Constraints(side, data.name, after)
      BY <2>1 DEF Writes
    <2>3. /\ RowsTyped(side, data.name, Updated(side, table, data, k))
          /\ Data!Saved(side, table, Updated(side, table, data, k), data)
      BY <1>2, UpdateSaves
    <2>4. RowsTyped(side, data.name, after) /\ Data!Saved(side, table, after, data)
      BY <2>2, <2>3
    <2>5. QED
      BY <2>2, <2>4 DEF Data!IsTable, RowsTyped
  <1>3. QED
    BY <1>1, <1>2, OneMatches

-----------------------------------------------------------------------------
(* What is refused, and what is saved again.                               *)

\* The required columns have, or get, a value, and no row of another item has
\* the value of a unique column.
Acceptable(side, table, data, p) ==
    \A f \in Data!Columns(data.name, side) :
        /\ f.isRequired =>
             \/ Data!CellOf(data, f) # {}
             \/ ~Data!HasValue(data, f) /\ Data!Matching(table, data, p) # {}
        /\ f.isDataUnique /\ Data!CellOf(data, f) # {} =>
             \A i \in DOMAIN table :
                 HoldsCellOf(data, f, table[i]) => HoldsCellOf(data, p, table[i])

\* An insertion that is acceptable breaks no constraint.
LEMMA InsertIsAllowed ==
  ASSUME NEW data, NEW p, Identifies(p, data), NEW side \in Data!Sides, NEW table,
         Data!IsTable(side, data.name, table), Data!Matching(table, data, p) = {},
         Acceptable(side, table, data, p)
  PROVE  Data!Constraints(side, data.name, Inserted(side, table, data))
  <1> DEFINE after == Inserted(side, table, data)
             row == Data!InsertedRow(side, data)
             n == Len(table)
  <1>1. Data!WellDefined(data.name) /\ RowsTyped(side, data.name, table)
    BY TableIsTyped DEF Identifies
  <1>2. /\ n \in Nat /\ DOMAIN table = 1..n /\ DOMAIN after = 1..n + 1
        /\ \A i \in 1..n : after[i] = table[i]
        /\ after[n + 1] = row
    BY <1>1, InsertedRows
  <1>3. \A f \in Data!Columns(data.name, side) : row[f.name] = Data!CellOf(data, f)
    BY <1>1, RowInserted
  <1>4. \A i \in DOMAIN table : ~HoldsCellOf(data, p, table[i])
    BY MatchingIs
  <1> HIDE DEF after, row, n
  <1> SUFFICES ASSUME NEW f \in Data!Columns(data.name, side)
               PROVE  /\ f.isRequired => \A i \in DOMAIN after : after[i][f.name] # {}
                      /\ f.isDataUnique => Data!OneRowEach(after, f)
    BY DEF Data!Constraints, after
  <1>5. ASSUME f.isRequired, NEW i \in DOMAIN after PROVE after[i][f.name] # {}
    <2>1. row[f.name] # {}
      BY <1>3, <1>5 DEF Acceptable
    <2>2. \A j \in DOMAIN table : table[j][f.name] # {}
      BY <1>5 DEF Data!IsTable, Data!Constraints
    <2>3. QED
      BY <1>2, <2>1, <2>2
  <1>6. ASSUME f.isDataUnique PROVE Data!OneRowEach(after, f)
    <2>1. \A i, j \in 1..n : table[i][f.name] # {} /\ table[i][f.name] = table[j][f.name] => i = j
      BY <1>2, <1>6 DEF Data!IsTable, Data!Constraints, Data!OneRowEach
    <2>2. \A i \in 1..n : row[f.name] # {} => table[i][f.name] # row[f.name]
      BY <1>2, <1>3, <1>4, <1>6 DEF Acceptable, HoldsCellOf
    <2>3. \A i, j \in 1..n + 1 : after[i][f.name] # {} /\ after[i][f.name] = after[j][f.name] => i = j
      BY <1>2, <2>1, <2>2
    <2>4. QED
      BY <1>2, <2>3 DEF Data!OneRowEach
  <1>7. QED
    BY <1>5, <1>6

\* An update that is acceptable breaks no constraint.
LEMMA UpdateIsAllowed ==
  ASSUME NEW data, NEW p, Identifies(p, data), NEW side \in Data!Sides, NEW table,
         Data!IsTable(side, data.name, table),
         NEW k \in DOMAIN table, Data!Matching(table, data, p) = {k},
         Acceptable(side, table, data, p)
  PROVE  Data!Constraints(side, data.name, Updated(side, table, data, k))
  <1> DEFINE after == Updated(side, table, data, k)
             row == Data!UpdatedRow(side, table[k], data)
  <1>1. /\ DOMAIN after = DOMAIN table
        /\ \A i \in DOMAIN table : i # k => after[i] = table[i]
        /\ after[k] = row
    BY DEF Updated
  <1>2. \A f \in Data!Columns(data.name, side) :
          row[f.name] = IF Data!HasValue(data, f) THEN Data!CellOf(data, f) ELSE table[k][f.name]
    <2>1. DOMAIN table[k] = {f.name : f \in Data!Columns(data.name, side)}
      BY DEF Data!IsTable
    <2>2. QED
      BY <2>1, RowUpdated DEF Identifies
  <1>3. \A i \in DOMAIN table : HoldsCellOf(data, p, table[i]) => i = k
    <2>1. \A i : i \in Data!Matching(table, data, p) <=> i = k
      OBVIOUS
    <2>2. QED
      BY <2>1, MatchingIs
  <1> HIDE DEF after, row
  <1> SUFFICES ASSUME NEW f \in Data!Columns(data.name, side)
               PROVE  /\ f.isRequired => \A i \in DOMAIN after : after[i][f.name] # {}
                      /\ f.isDataUnique => Data!OneRowEach(after, f)
    BY DEF Data!Constraints, after
  <1>4. ASSUME f.isRequired, NEW i \in DOMAIN after PROVE after[i][f.name] # {}
    <2>1. \A j \in DOMAIN table : table[j][f.name] # {}
      BY <1>4 DEF Data!IsTable, Data!Constraints
    <2>2. row[f.name] # {}
      BY <1>2, <1>4, <2>1 DEF Acceptable
    <2>3. QED
      BY <1>1, <2>1, <2>2
  <1>5. ASSUME f.isDataUnique PROVE Data!OneRowEach(after, f)
    <2>1. \A i, j \in DOMAIN table :
            table[i][f.name] # {} /\ table[i][f.name] = table[j][f.name] => i = j
      BY <1>5 DEF Data!IsTable, Data!Constraints, Data!OneRowEach
    <2>2. \A i \in DOMAIN table : i # k /\ row[f.name] # {} => table[i][f.name] # row[f.name]
      BY <1>2, <1>3, <1>5, <2>1 DEF Acceptable, HoldsCellOf
    <2>3. \A i, j \in DOMAIN table :
            after[i][f.name] # {} /\ after[i][f.name] = after[j][f.name] => i = j
      BY <1>1, <2>1, <2>2
    <2>4. QED
      BY <1>1, <2>3 DEF Data!OneRowEach
  <1>6. QED
    BY <1>4, <1>5

\* The database refuses the save of a structure only when a required column is
\* left without a value, or when a row of another item has the value of a
\* unique field: never because of the item's own row, which the WHERE clause
\* finds again by the value as it was bound (DataStructure.cpp:237).
THEOREM OwnRowIsNoConflict ==
  ASSUME NEW data, NEW p, Identifies(p, data), NEW side \in Data!Sides,
         NEW table, Data!IsTable(side, data.name, table), Acceptable(side, table, data, p)
  PROVE  Data!SaveToDatabase(side, table, data) # {}
  <1>1. CASE Data!Matching(table, data, p) = {}
    <2>1. Writes(side, data, Inserted(side, table, data), Data!SaveToDatabase(side, table, data))
      BY <1>1, SaveIs
    <2>2. QED
      BY <1>1, <2>1, InsertIsAllowed DEF Writes
  <1>2. ASSUME NEW k \in DOMAIN table, Data!Matching(table, data, p) = {k}
        PROVE  Data!SaveToDatabase(side, table, data) # {}
    <2>1. Writes(side, data, Updated(side, table, data, k), Data!SaveToDatabase(side, table, data))
      BY <1>2, SaveIs
    <2>2. QED
      BY <1>2, <2>1, UpdateIsAllowed DEF Writes
  <1>3. QED
    BY <1>1, <1>2, OneMatches

\* An update with what is in the row already leaves the row as it is.
LEMMA UpdatedAgain ==
  ASSUME NEW data, Data!WellDefined(data.name), NEW side, NEW row,
         DOMAIN row = {f.name : f \in Data!Columns(data.name, side)},
         row = [c \in DOMAIN row |-> row[c]],
         \A f \in Data!Columns(data.name, side) :
             Data!HasValue(data, f) => row[f.name] = Data!CellOf(data, f)
  PROVE  Data!UpdatedRow(side, row, data) = row
  <1> DEFINE again == Data!UpdatedRow(side, row, data)
  <1>1. \A f \in Data!Columns(data.name, side) : again[f.name] = row[f.name]
    BY RowUpdated
  <1>2. again = [c \in DOMAIN row |-> again[c]]
    BY DEF Data!UpdatedRow
  <1> HIDE DEF again
  <1>3. \A c \in DOMAIN row : again[c] = row[c]
    BY <1>1
  <1>4. [c \in DOMAIN row |-> again[c]] = [c \in DOMAIN row |-> row[c]]
    BY <1>3
  <1>5. QED
    BY <1>2, <1>4 DEF again

\* The rows of which row k is that of the structure, as it was written.
LEMMA SavedAgain ==
  ASSUME NEW data, NEW p, Identifies(p, data), NEW side \in Data!Sides,
         NEW table, Data!IsTable(side, data.name, table),
         NEW k \in DOMAIN table,
         table[k] = [c \in DOMAIN table[k] |-> table[k][c]],
         \A f \in Data!Columns(data.name, side) :
             Data!HasValue(data, f) => HoldsCellOf(data, f, table[k])
  PROVE  Data!SaveToDatabase(side, table, data) = {table}
  <1>1. /\ p \in Data!Columns(data.name, side) /\ Data!HasValue(data, p)
        /\ Data!WellDefined(data.name)
    BY PrimaryColumn DEF Identifies
  <1>2. k \in Data!Matching(table, data, p)
    BY <1>1, MatchingIs
  <1>3. Data!Matching(table, data, p) = {k}
    <2>1. \/ Data!Matching(table, data, p) = {}
          \/ \E j \in DOMAIN table : Data!Matching(table, data, p) = {j}
      BY OneMatches
    <2>2. QED
      BY <1>2, <2>1
  <1>4. Writes(side, data, Updated(side, table, data, k), Data!SaveToDatabase(side, table, data))
    BY <1>3, SaveIs
  <1>5. Data!UpdatedRow(side, table[k], data) = table[k]
    <2>1. DOMAIN table[k] = {f.name : f \in Data!Columns(data.name, side)}
      BY DEF Data!IsTable
    <2>2. QED
      BY <1>1, <2>1, UpdatedAgain DEF HoldsCellOf
  <1>6. Updated(side, table, data, k) = table
    <2>1. Updated(side, table, data, k) = [i \in DOMAIN table |-> table[i]]
      BY <1>5 DEF Updated
    <2>2. table \in Seq(Data!Range(table))
      BY DEF Data!IsTable
    <2>3. QED
      BY <2>1, <2>2
  <1>7. Data!Constraints(side, data.name, table)
    BY DEF Data!IsTable
  <1>8. QED
    BY <1>4, <1>6, <1>7 DEF Writes

\* A structure that is saved again, as when a command is received twice or the
\* same operations are synchronised twice, is not refused and changes nothing
\* (DataStructure.cpp:142).
THEOREM SavingAgainChangesNothing ==
  ASSUME NEW data, NEW p, Identifies(p, data), NEW side \in Data!Sides,
         NEW table, Data!IsTable(side, data.name, table),
         NEW after \in Data!SaveToDatabase(side, table, data)
  PROVE  Data!SaveToDatabase(side, after, data) = {after}
  <1>1. Data!IsTable(side, data.name, after)
    BY SaveWritesItsRow
  <1>2. CASE Data!Matching(table, data, p) = {}
    <2> DEFINE row == Data!InsertedRow(side, data)
               k == Len(table) + 1
    <2>1. Writes(side, data, Inserted(side, table, data), Data!SaveToDatabase(side, table, data))
      BY <1>2, SaveIs
    <2>2. after = Inserted(side, table, data)
      BY <2>1 DEF Writes
    <2>3. Len(table) \in Nat /\ k \in 1..k /\ DOMAIN Inserted(side, table, data) = 1..k
          /\ Inserted(side, table, data)[k] = row
      BY TableIsTyped, InsertedRows
    <2>4. row = [c \in DOMAIN row |-> row[c]]
      BY DEF Data!InsertedRow
    <2>5. \A f \in Data!Columns(data.name, side) : HoldsCellOf(data, f, row)
      BY RowInserted DEF Identifies, HoldsCellOf
    <2> HIDE DEF row, k
    <2>6. k \in DOMAIN after /\ after[k] = row
      BY <2>2, <2>3
    <2>7. QED
      BY <1>1, <2>4, <2>5, <2>6, SavedAgain
  <1>3. ASSUME NEW k \in DOMAIN table, Data!Matching(table, data, p) = {k}
        PROVE  Data!SaveToDatabase(side, after, data) = {after}
    <2> DEFINE row == Data!UpdatedRow(side, table[k], data)
    <2>1. Writes(side, data, Updated(side, table, data, k), Data!SaveToDatabase(side, table, data))
      BY <1>3, SaveIs
    <2>2. after = Updated(side, table, data, k)
      BY <2>1 DEF Writes
    <2>3. k \in DOMAIN Updated(side, table, data, k) /\ Updated(side, table, data, k)[k] = row
      BY DEF Updated
    <2>4. row = [c \in DOMAIN row |-> row[c]]
      BY DEF Data!UpdatedRow
    <2>5. \A f \in Data!Columns(data.name, side) :
             Data!HasValue(data, f) => HoldsCellOf(data, f, row)
      <3>1. DOMAIN table[k] = {f.name : f \in Data!Columns(data.name, side)}
        BY DEF Data!IsTable
      <3>2. QED
        BY <3>1, RowUpdated DEF Identifies, HoldsCellOf
    <2> HIDE DEF row
    <2>6. k \in DOMAIN after /\ after[k] = row
      BY <2>2, <2>3
    <2>7. QED
      BY <1>1, <2>4, <2>5, <2>6, SavedAgain
  <1>4. QED
    BY <1>2, <1>3, OneMatches
=============================================================================
