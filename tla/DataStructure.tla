--------------------------- MODULE DataStructure ---------------------------
(***************************************************************************)
(* Data structures, as the application defines them (ApoapseData.cpp), and *)
(* the rows of the database that they are saved in and read from           *)
(* (DataStructure.cpp, SQLite.cpp, SQLValue.hpp).                          *)
(*                                                                         *)
(* The value of a field is a set: empty, or with one sequence - the bytes  *)
(* of a text or of a blob, <<v>> for an integer, <<0>> or <<1>> for a      *)
(* boolean, the structures of a data_array.  A character 0 of a text is    *)
(* the NUL.  An operation that may throw returns the set of its result,    *)
(* empty when it throws.                                                   *)
(***************************************************************************)
EXTENDS Integers, Sequences, FiniteSets, SequencesExt

CONSTANTS
    CustomTypes,    \* the JSON's custom_types: a sequence
    Schema          \* the JSON's data_structures: a sequence

NoCustomType == ""

(***************************************************************************)
(* The definitions: ReadCustomTypes and ReadDataStructures.  The type of a *)
(* field is a basic type, a structure registered before, or a custom type. *)
(***************************************************************************)
BasicTypes == [integer |-> "integer", bool |-> "boolean", text |-> "text", blob |-> "byte_blob"]

GetCustomTypeInfo(name) == CustomTypes[SelectInSeq(CustomTypes, LAMBDA t : t.name = name)]

GetTypeByTypeName(registered, type) ==
    CASE type \in DOMAIN BasicTypes -> BasicTypes[type]
      [] type \in registered -> "data_array"
      [] OTHER -> BasicTypes[GetCustomTypeInfo(type).underlying]

RegisteredStructures ==
    [i \in DOMAIN Schema |->
        LET before == {Schema[k].name : k \in 1..i - 1}
            field(f) == [name |-> f.name, basicType |-> GetTypeByTypeName(before, f.type),
                         customType |-> IF f.type \in DOMAIN BasicTypes THEN NoCustomType
                                        ELSE f.type,
                         isRequired |-> f.required, isDataUnique |-> f.unique,
                         server |-> "server" \in f.storage, client |-> "client" \in f.storage,
                         usedInCommand |-> f.command]
        IN [name |-> Schema[i].name,
            fields |-> [j \in DOMAIN Schema[i].fields |-> field(Schema[i].fields[j])]]]

\* "" is the structure of an empty command, DataStructure().
Fields(name) ==
    IF name = "" THEN <<>>
    ELSE RegisteredStructures[SelectInSeq(RegisteredStructures, LAMBDA s : s.name = name)].fields

DataField ==
    [name : STRING, basicType : Range(BasicTypes) \cup {"data_array"}, customType : STRING,
     isRequired : BOOLEAN, isDataUnique : BOOLEAN, server : BOOLEAN, client : BOOLEAN,
     usedInCommand : BOOLEAN]

\* A table has one column of each name, and a unique field has one on both
\* sides: SaveToDatabase looks for it on either.
WellDefined(name) ==
    /\ Fields(name) \in Seq(DataField)
    /\ \A f, g \in Range(Fields(name)) : f.name = g.name => f = g
    /\ \A f \in Range(Fields(name)) : f.isDataUnique => f.server /\ f.client

ASSUME DataStructureAssumption == \A i \in DOMAIN Schema : WellDefined(Schema[i].name)

\* GetStructureDefinition, as the new structure it is copied into.
NewStructure(name) ==
    [name |-> name, valid |-> TRUE,
     values |-> [f \in {f.name : f \in Range(Fields(name))} |-> {}]]

HasValue(data, field) == data.values[field.name] # {}

Value(data, field) == CHOOSE v \in data.values[field.name] : TRUE

\* A value of the field's type.  Those of a data_array are not looked into.
IsValue(field, v) ==
    CASE field.basicType = "boolean" -> v \in {<<0>>, <<1>>}
      [] field.basicType \in {"text", "byte_blob"} -> v \in Seq(Nat)
      [] field.basicType = "integer" -> v \in Seq(Int) /\ Len(v) = 1
      [] OTHER -> TRUE

IsStructure(data) ==
    /\ DOMAIN data.values = {f.name : f \in Range(Fields(data.name))}
    /\ \A f \in Range(Fields(data.name)) :
         HasValue(data, f) => /\ data.values[f.name] = {Value(data, f)}
                              /\ IsValue(f, Value(data, f))

(***************************************************************************)
(* The database.  A cell is a value with its SQLite type, or empty: NULL.  *)
(***************************************************************************)
Sides == {"server", "client"}

\* AllowDatabaseStorage: the column exists on that side.
Stored(field, side) == IF side = "server" THEN field.server ELSE field.client

Columns(name, side) == {f \in Range(Fields(name)) : Stored(f, side)}

\* A text is bound up to its first NUL.
UpToNul(v) ==
    LET nul == SelectInSeq(v, LAMBDA c : c = 0) IN IF nul = 0 THEN v ELSE SubSeq(v, 1, nul - 1)

\* Mutation: a blob is bound up to its first 0, as a text is.
CellUpToNul(field, v) ==
    IF field.basicType \in {"boolean", "integer"} THEN {[type |-> "INTEGER", of |-> v]}
    ELSE IF field.basicType = "data_array" THEN {}
    ELSE {[type |-> IF field.basicType = "text" THEN "TEXT" ELSE "BLOB", of |-> UpToNul(v)]}

\* GetSQLValue and the binding.  Nothing is bound for a data_array; a blob of
\* no bytes is bound by a null pointer, as NULL.
Cell(field, v) ==
    CASE field.basicType \in {"boolean", "integer"} -> {[type |-> "INTEGER", of |-> v]}
      [] field.basicType = "text" -> {[type |-> "TEXT", of |-> UpToNul(v)]}
      [] field.basicType = "byte_blob" /\ v # <<>> -> {[type |-> "BLOB", of |-> v]}
      [] OTHER -> {}

\* The value of a field from a cell: GetBoolean, GetInt64, GetText, GetByteArray.
FromCell(field, cell) ==
    CASE field.basicType = "boolean" -> {<<IF c.of = <<1>> THEN 1 ELSE 0>> : c \in cell}
      [] field.basicType = "data_array" -> {}
      [] OTHER -> {c.of : c \in cell}

\* The first unique field with a value, as a set of one field or none.
GetPrimaryField(data) ==
    LET fields == Fields(data.name)
        usable(f) == HasValue(data, f) /\ f.isDataUnique /\ f.name # "operation_uuid"
        first == SelectInSeq(fields, usable)
    IN IF first = 0 THEN {} ELSE {fields[first]}

\* The rows that WHERE primary = value selects.
Matching(table, data, primary) ==
    {i \in DOMAIN table : table[i][primary.name] = Cell(primary, Value(data, primary))
                          /\ table[i][primary.name] # {}}

Registered(table, data) == UNION {Matching(table, data, p) : p \in GetPrimaryField(data)}

CellOf(data, field) == IF HasValue(data, field) THEN Cell(field, Value(data, field)) ELSE {}

\* The fields with a value and a column on that side.
ToSave(side, data) == {f \in Columns(data.name, side) : HasValue(data, f)}

\* Mutation: every column is written.
OverwrittenRow(side, row, data) ==
    [c \in DOMAIN row |->
        CellOf(data, CHOOSE f \in Range(Fields(data.name)) : f.name = c)]

\* UPDATE writes the columns whose field has a value.
UpdatedRow(side, row, data) ==
    LET saved == ToSave(side, data)
    IN [c \in DOMAIN row |->
           IF \E f \in saved : f.name = c
           THEN CellOf(data, CHOOSE f \in saved : f.name = c) ELSE row[c]]

\* Mutation: the columns without a value are left out.
SparseRow(side, data) ==
    LET saved == ToSave(side, data)
    IN [c \in {f.name : f \in saved} |-> CellOf(data, CHOOSE f \in saved : f.name = c)]

\* INSERT leaves the other columns NULL.
InsertedRow(side, data) ==
    LET columns == Columns(data.name, side)
    IN [c \in {f.name : f \in columns} |->
           CellOf(data, CHOOSE f \in columns : f.name = c)]

\* No two rows have the same value in the column.
OneRowEach(table, field) ==
    \A i, j \in DOMAIN table :
        table[i][field.name] # {} /\ table[i][field.name] = table[j][field.name] => i = j

\* NOT NULL and UNIQUE, as the table was created by DatabaseIntegrityPatcher.
Constraints(side, name, table) ==
    \A f \in Columns(name, side) :
        /\ f.isRequired => \A i \in DOMAIN table : table[i][f.name] # {}
        /\ f.isDataUnique => OneRowEach(table, f)

\* The statement is an error without a column to write, or when the rows would
\* break a constraint.
SaveToDatabase(side, table, data) ==
    LET counted == \E f \in Range(Fields(data.name)) :
                       (f.client <=> side = "client") \/ (f.server /\ side = "server")
        registered == Registered(table, data)
        written ==
            IF Cardinality(registered) = 1
            THEN [i \in DOMAIN table |-> IF i \in registered THEN UpdatedRow(side, table[i], data)
                                         ELSE table[i]]
            ELSE Append(table, InsertedRow(side, data))
    IN IF ~counted THEN {table}
       ELSE IF ToSave(side, data) = {} THEN {}
       ELSE {after \in {written} : Constraints(side, data.name, after)}

\* DataField::SaveToDatabase: one column of the row of the primary field.
SaveField(side, table, data, field) ==
    LET rows == Registered(table, data)
        written == [i \in DOMAIN table |->
                       IF i \in rows
                       THEN [table[i] EXCEPT ![field.name] = Cell(field, Value(data, field))]
                       ELSE table[i]]
    IN {after \in {written} : Constraints(side, data.name, after)}

ReadFromDbResult(side, name, row) ==
    [NewStructure(name) EXCEPT !.values =
        [f \in DOMAIN @ |->
            UNION {FromCell(c, row[f]) : c \in {c \in Columns(name, side) : c.name = f}}]]

-----------------------------------------------------------------------------
\* What is in a column of a row: NULL, or what binding a value leaves there.
IsCell(field, cell) ==
    cell # {} => \E c \in cell : cell = Cell(field, c.of) /\ IsValue(field, c.of)

\* A row has one cell in each column of its side, of the type of its field,
\* and the rows satisfy the constraints.
IsTable(side, name, table) ==
    /\ table \in Seq(Range(table))
    /\ \A i \in DOMAIN table :
         /\ DOMAIN table[i] = {f.name : f \in Columns(name, side)}
         /\ \A f \in Columns(name, side) : IsCell(f, table[i][f.name])
    /\ Constraints(side, name, table)

\* What the rows of one item hold.
Loaded(side, table, data) ==
    {read \in {ReadFromDbResult(side, data.name, table[i]).values : i \in DOMAIN table} :
        \A p \in GetPrimaryField(data) : read[p.name] = data.values[p.name]}

\* Values that the database does not give back as they are.
Altered(field, v) ==
    \/ field.basicType = "data_array"
    \/ field.basicType = "byte_blob" /\ v = <<>>
    \/ field.basicType = "text" /\ 0 \in Range(v)

\* One row is written, that of the item, and the others stay.  What is read
\* back is each value of the structure and, where it has none, what the row
\* held before.
Saved(side, before, after, data) ==
    /\ Cardinality(Loaded(side, after, data)) = 1
    /\ Len(after) = Len(before) + (IF Loaded(side, before, data) = {} THEN 1 ELSE 0)
    /\ \A i \in DOMAIN before :
         \/ after[i] = before[i]
         \/ ReadFromDbResult(side, data.name, before[i]).values \in Loaded(side, before, data)
    /\ \A now \in Loaded(side, after, data) : \A f \in Columns(data.name, side) :
         IF HasValue(data, f) THEN Altered(f, Value(data, f)) \/ now[f.name] = data.values[f.name]
         ELSE now[f.name] = UNION {old[f.name] : old \in Loaded(side, before, data)}
=============================================================================
