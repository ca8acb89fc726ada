-------------------------- MODULE IntegrityPatcher --------------------------
(***************************************************************************)
(* DatabaseIntegrityPatcher.cpp: at every start the program compares each  *)
(* table of the database with the structure it wants and rebuilds it when  *)
(* they differ: rename, create, copy, drop.  Every SQL statement commits   *)
(* by itself (SQLQuery.cpp, SQLite.cpp: no transaction is opened), so the  *)
(* program may stop between any two of them.                               *)
(*                                                                         *)
(* One step is one statement.  A row is an id and the value of its fields; *)
(* a column definition is a field's name and the keywords of its line in   *)
(* the CREATE TABLE text that SQLite keeps.                                *)
(***************************************************************************)
EXTENDS Integers, Sequences, SequencesExt, FiniteSets

CONSTANTS
    Tables,     \* the data structures stored in the database, in order
    Schemas,    \* field lists a version of the program may want for a table
    Values,     \* values of a field other than Null
    Null,
    MaxRows,    \* bound on the rows the application inserts
    MaxStarts   \* bound on the starts of the program

\* A field as the program declares it.
Field == [name : STRING, type : STRING, canBeNull : BOOLEAN, unique : BOOLEAN,
          primary : BOOLEAN]

\* What the constructor of the patcher makes of a data structure: its id is the
\* only primary field, and it is not null.
Declarable(schema) ==
    /\ schema \in Seq(Field)
    /\ \A i \in DOMAIN schema : schema[i].primary => ~schema[i].canBeNull

ASSUME PatcherAssumption ==
    /\ Tables \in Seq(STRING) /\ Tables # <<>> /\ IsInjective(Tables)
    /\ \A schema \in Schemas : Declarable(schema)
    /\ Null \notin Values
    /\ MaxRows \in Nat
    /\ MaxStarts \in Nat

VARIABLES
    main,      \* table -> the table of that name, or Absent
    temp,      \* table -> the table "temp_" + name, or Absent
    wanted,    \* table -> m_SqlTables of the running version
    pc,        \* "down", a statement of CheckAndResolve, or "running"
    at,        \* index in Tables of the table being checked
    written,   \* table -> ids of the rows the application has inserted (history)
    starts,    \* starts of the program (bounds the behaviour)
    incident   \* a start was interrupted, or one of its statements failed (history)

vars == <<main, temp, wanted, pc, at, written, starts, incident>>

Absent == [columns |-> <<>>, rows |-> {}]

Names(fields) == {fields[i].name : i \in DOMAIN fields}

\* GenerateCreateTableQuery, FieldTypeToStr: the keywords a field's line contains.
ColumnOf(field) ==
    [name |-> field.name,
     type |-> field.type,
     keywords |-> (IF field.canBeNull THEN {} ELSE {"NOT NULL"})
                    \cup (IF field.unique THEN {"UNIQUE"} ELSE {})
                    \cup (IF field.primary THEN {"PRIMARY KEY"} ELSE {})]

Generate(schema) == [i \in DOMAIN schema |-> ColumnOf(schema[i])]

\* ParseCreateTableQuery, ReadFieldType: what is read back from that line.
FieldOf(column) ==
    [name |-> column.name,
     type |-> column.type,
     canBeNull |-> "NOT NULL" \notin column.keywords
                     /\ "PRIMARY KEY" \notin column.keywords,
     unique |-> "UNIQUE" \in column.keywords,
     primary |-> "PRIMARY KEY" \in column.keywords]

Parse(columns) == [i \in DOMAIN columns |-> FieldOf(columns[i])]

\* DbField::operator==, which does not compare types.
SameField(f, g) ==
    /\ f.name = g.name
    /\ f.primary = g.primary
    /\ f.unique = g.unique
    /\ f.canBeNull = g.canBeNull

\* Mutation: only the number of fields is compared.
SameTableBySize(fields, others) == Len(fields) = Len(others)

\* DbTable::operator==
SameTable(fields, others) ==
    /\ Len(fields) = Len(others)
    /\ \A i \in DOMAIN fields : SameField(fields[i], others[i])

\* SQLite's constraints on the rows of a table (id is its primary key).
Constrained(columns, rows) ==
    \A i \in DOMAIN columns :
      LET c == columns[i] IN
        c.name # "id" =>
          /\ "NOT NULL" \in c.keywords => \A r \in rows : r.val[c.name] # Null
          /\ "UNIQUE" \in c.keywords =>
               \A r, s \in rows :
                 r.id # s.id /\ r.val[c.name] # Null => r.val[c.name] # s.val[c.name]

Ids(table) == {r.id : r \in table.rows}

\* The rows a table has after INSERT INTO ... (fields) SELECT fields FROM ...:
\* columns that are not listed are null.
Copied(rows, fields, columns) ==
    {[id |-> r.id,
      val |-> [n \in Names(columns) \ {"id"} |->
                 IF n \in Names(fields) THEN r.val[n] ELSE Null]] : r \in rows}

Current == Tables[at]

-----------------------------------------------------------------------------

Init ==
    /\ main = [t \in ToSet(Tables) |-> Absent]
    /\ temp = [t \in ToSet(Tables) |-> Absent]
    /\ wanted = [t \in ToSet(Tables) |-> <<>>]
    /\ pc = "down"
    /\ at = 1
    /\ written = [t \in ToSet(Tables) |-> {}]
    /\ starts = 0
    /\ incident = FALSE

\* DatabaseIntegrityPatcher(): the program starts, possibly another version of it.
Start ==
    /\ pc = "down"
    /\ starts < MaxStarts
    /\ starts' = starts + 1
    /\ wanted' \in [ToSet(Tables) -> Schemas]
    /\ pc' = "select"
    /\ at' = 1
    /\ UNCHANGED <<main, temp, written, incident>>

\* Mutation: the loop goes past the last table.
NextTablePastLast == pc' = "select" /\ at' = at + 1

\* The loop goes on to the next table; after the last one CheckAndResolve
\* returns true.
NextTable ==
    IF at = Len(Tables) THEN pc' = "running" /\ UNCHANGED at
                        ELSE pc' = "select" /\ at' = at + 1

\* CheckAndResolve returned false, or threw: the program ends with a FatalError.
GiveUp == pc' = "down" /\ incident' = TRUE

\* SELECT sql FROM sqlite_master, and the comparison with the wanted table.
Select ==
    /\ pc = "select"
    /\ LET fields == Parse(main[Current].columns) IN
         \/ main[Current] = Absent /\ pc' = "createNew" /\ UNCHANGED at
         \/ /\ main[Current] # Absent
            /\ SameTable(fields, wanted[Current])
            /\ NextTable
         \/ /\ main[Current] # Absent
            /\ ~SameTable(fields, wanted[Current])
            /\ pc' = "rename"
            /\ UNCHANGED at
    /\ UNCHANGED <<main, temp, wanted, written, starts, incident>>

\* ALTER TABLE name RENAME TO temp_name fails when that table is still there.
Rename ==
    /\ pc = "rename"
    /\ \/ /\ temp[Current] = Absent
          /\ temp' = [temp EXCEPT ![Current] = main[Current]]
          /\ main' = [main EXCEPT ![Current] = Absent]
          /\ pc' = "create"
          /\ UNCHANGED incident
       \/ /\ temp[Current] # Absent
          /\ GiveUp
          /\ UNCHANGED <<main, temp>>
    /\ UNCHANGED <<wanted, at, written, starts>>

\* CREATE TABLE, for a table that was not there or for one that is rebuilt.
Create ==
    /\ pc \in {"create", "createNew"}
    /\ main' = [main EXCEPT ![Current] =
                  [columns |-> Generate(wanted[Current]), rows |-> {}]]
    /\ IF pc = "create" THEN pc' = "populate" /\ UNCHANGED at ELSE NextTable
    /\ UNCHANGED <<temp, wanted, written, starts, incident>>

\* Mutation: a copy that fails is ignored.
PopulateOrSkip ==
    /\ pc = "populate"
    /\ LET old == temp[Current]
           new == main[Current]
           rows == Copied(old.rows, Parse(old.columns), new.columns)
       IN  /\ IF /\ Names(old.columns) \subseteq Names(new.columns)
                 /\ Constrained(new.columns, rows)
                THEN main' = [main EXCEPT ![Current].rows = rows]
                ELSE UNCHANGED main
           /\ pc' = "drop"
    /\ UNCHANGED <<temp, wanted, at, written, starts, incident>>

\* INSERT INTO name (old fields) SELECT old fields FROM temp_name: fails when a
\* field no longer exists, or when the rows break a constraint of the new table.
Populate ==
    /\ pc = "populate"
    /\ LET old == temp[Current]
           new == main[Current]
           rows == Copied(old.rows, Parse(old.columns), new.columns)
           possible == /\ Names(old.columns) \subseteq Names(new.columns)
                       /\ Constrained(new.columns, rows)
       IN  \/ /\ possible
              /\ main' = [main EXCEPT ![Current].rows = rows]
              /\ pc' = "drop"
              /\ UNCHANGED incident
           \/ /\ ~possible
              /\ GiveUp
              /\ UNCHANGED main
    /\ UNCHANGED <<temp, wanted, at, written, starts>>

\* Mutation: the temporary table is left behind.
DropForgotten ==
    /\ pc = "drop"
    /\ NextTable
    /\ UNCHANGED <<main, temp, wanted, written, starts, incident>>

\* DROP TABLE temp_name
Drop ==
    /\ pc = "drop"
    /\ temp' = [temp EXCEPT ![Current] = Absent]
    /\ NextTable
    /\ UNCHANGED <<main, wanted, written, starts, incident>>

\* The machine or the program stops between two statements, or the statement
\* that comes next fails (disk full, database locked): nothing is rolled back.
Interrupt ==
    /\ pc \notin {"down", "running"}
    /\ GiveUp
    /\ UNCHANGED <<main, temp, wanted, at, written, starts>>

\* The application inserts a row that its table accepts.
Insert ==
    /\ pc = "running"
    /\ \E t \in ToSet(Tables) :
         LET id == Cardinality(UNION {written[u] : u \in ToSet(Tables)}) + 1
             names == Names(main[t].columns) \ {"id"}
         IN /\ id <= MaxRows
            /\ \E val \in [names -> Values \cup {Null}] :
                 LET rows == main[t].rows \cup {[id |-> id, val |-> val]} IN
                   /\ Constrained(main[t].columns, rows)
                   /\ main' = [main EXCEPT ![t].rows = rows]
            /\ written' = [written EXCEPT ![t] = @ \cup {id}]
    /\ UNCHANGED <<temp, wanted, pc, at, starts, incident>>

Stop ==
    /\ pc = "running"
    /\ pc' = "down"
    /\ UNCHANGED <<main, temp, wanted, at, written, starts, incident>>

Patch == Select \/ Rename \/ Create \/ Populate \/ Drop

Next == Start \/ Patch \/ Interrupt \/ Insert \/ Stop

Spec == Init /\ [][Next]_vars

-----------------------------------------------------------------------------
(* Properties.                                                             *)

WellFormed(table) ==
    \A r \in table.rows :
      /\ r.id \in 1 .. MaxRows
      /\ r.val \in [Names(table.columns) \ {"id"} -> Values \cup {Null}]

TypeOK ==
    /\ \A t \in ToSet(Tables) :
         /\ WellFormed(main[t])
         /\ WellFormed(temp[t])
         /\ written[t] \subseteq 1 .. MaxRows
    /\ pc \in {"down", "select", "rename", "create", "createNew", "populate",
               "drop", "running"}
    /\ at \in DOMAIN Tables
    /\ starts \in 0 .. MaxStarts
    /\ incident \in BOOLEAN

\* Whatever happens during a rebuild, a row the application has inserted is in
\* the table or in its temporary copy: nothing is dropped before it is copied.
NothingDestroyed ==
    \A t \in ToSet(Tables) : written[t] \subseteq Ids(main[t]) \cup Ids(temp[t])

\* When CheckAndResolve has returned true, every table has the fields the
\* program declares, types excepted (operator== does not compare them), and its
\* rows obey their constraints, whichever versions and failures came before.
RunningOnWantedTables ==
    pc = "running" =>
      \A t \in ToSet(Tables) :
        LET fields == Parse(main[t].columns) IN
          /\ DOMAIN fields = DOMAIN wanted[t]
          /\ \A i \in DOMAIN fields :
               wanted[t][i] = [fields[i] EXCEPT !.type = wanted[t][i].type]
          /\ Constrained(main[t].columns, main[t].rows)

\* Starts that are not interrupted, and whose copies succeed, keep every row in
\* its table and leave no temporary table behind, over any number of versions.
CleanStartsKeepRows ==
    (pc = "running" /\ ~incident) =>
      \A t \in ToSet(Tables) : Ids(main[t]) = written[t] /\ temp[t] = Absent

\* "Populate the new table with old data": a program that runs has its rows.
RunningWithItsRows ==
    pc = "running" => \A t \in ToSet(Tables) : written[t] \subseteq Ids(main[t])
=============================================================================
