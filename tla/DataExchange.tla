---------------------------- MODULE DataExchange ----------------------------
(***************************************************************************)
(* A data structure on its way: filled by its author (DataStructure.cpp),  *)
(* serialised (MessagePack), checked and filled by the server              *)
(* (ApoapseData.cpp), saved in its database (DataStructure.cpp, SQLite.cpp,*)
(* SQLValue.hpp), edited there, read again and sent to another client,     *)
(* which checks it and saves it in a database of its own.                  *)
(***************************************************************************)
EXTENDS MessagePack, DataStructure

CONSTANTS
    Exchanged,      \* the structure that is sent
    Drafts,         \* what the author fills: field -> value
    Edits,          \* what the server writes in a stored item: [field, value];
                    \* nothing checks it, these are values that would be accepted
    Generated,      \* what Uuid::Generate may return
    UuidLength,     \* 16
    UsernameLength, \* 32
    Datetimes,      \* texts that DateTimeUtils::ValidateFormat accepts
    MaxSends,       \* bound on what the author sends
    MaxEdits        \* bound on the server's edits

VARIABLES
    serverTable, \* rows of the server's database: column -> cell
    clientTable, \* rows of the client's
    toServer,    \* on its way from the author: [data, bytes], if any
    toClient,    \* on its way to the client, if any
    atServer,    \* the last that was handled: [outcome, sent, data] (history)
    atClient,
    cut,         \* [field, stored] of the server's texts with a NUL (history)
    sends, edits

vars == <<serverTable, clientTable, toServer, toClient, atServer, atClient, cut, sends, edits>>

ASSUME DataExchangeAssumption ==
    /\ UuidLength \in Nat \ {0} /\ UsernameLength \in Nat \ {0}
    /\ MaxSends \in Nat /\ MaxEdits \in Nat
    /\ Drafts \subseteq {d \in Drafts : DOMAIN d = DOMAIN NewStructure(Exchanged).values}
    /\ Exchanged \in {Schema[i].name : i \in DOMAIN Schema}
    /\ \A v \in Datetimes : 0 \notin Range(v)

(***************************************************************************)
(* Sending: AutoFillFieldsIfRequested and GetMessagePackFormat             *)
(***************************************************************************)
AutoFilled(field) ==
    field.customType # NoCustomType /\ field.basicType # "data_array"
    /\ GetCustomTypeInfo(field.customType).autoFill

AutoFillFieldsIfRequested(data, uuid) ==
    LET empty == {field.name : field \in {f \in Range(Fields(data.name)) :
                                            AutoFilled(f) /\ ~HasValue(data, f)}}
    IN [data EXCEPT !.values = [f \in DOMAIN @ |-> IF f \in empty THEN {uuid} ELSE @[f]]]

DataBytes(v) == [i \in DOMAIN v |-> DataByte(v[i])]

Key(name) == <<<<name, 0>>>>

RECURSIVE GetMessagePackFormat(_)
GetMessagePackFormat(data) ==
    LET item(type, v) ==
            CASE type = "boolean" -> Boolean(v = <<1>>)
              [] type = "byte_blob" -> Blob(DataBytes(v))
              [] type = "integer" -> Integer(v[1])
              [] type = "text" -> Text(DataBytes(v))
              [] type = "data_array" ->
                   Array([i \in DOMAIN v |-> Blob(GetMessagePackBytes(GetMessagePackFormat(v[i])))])
        append(ser, field) ==
            IF ~HasValue(data, field) \/ ~field.usedInCommand THEN ser
            ELSE UnorderedAppend(ser, Key(field.name), item(field.basicType, Value(data, field)))
    IN FoldLeft(append, Serializer, Fields(data.name))

Payload(data) == [data |-> data, bytes |-> GetMessagePackBytes(GetMessagePackFormat(data))]

(***************************************************************************)
(* Receiving: FromNetwork, FillAndValidate and DataField::Validate         *)
(***************************************************************************)
\* As a size_t: a negative integer is a large one.  So is a negative bound that
\* it is compared with, but for the one that stands for none.
GetLength(type, v) ==
    CASE type = "integer" -> v[1] % Values("UInt64")
      [] type \in {"byte_blob", "text"} -> Len(v)
      [] OTHER -> Values("UInt64") - 1

Unbounded == -1

ValidateCustomType(typeName, v) ==
    CASE typeName = "uuid" -> Len(v) = UuidLength
      [] typeName = "username" -> Len(v) = UsernameLength
      [] typeName = "datetime" -> v \in Datetimes
      [] OTHER -> TRUE

Validate(field, v) ==
    field.customType # NoCustomType /\ field.basicType # "data_array" =>
        LET type == GetCustomTypeInfo(field.customType)
            size == GetLength(field.basicType, v)
        IN /\ type.minLength # Unbounded => size >= type.minLength % Values("UInt64")
           /\ type.maxLength # Unbounded => size <= type.maxLength % Values("UInt64")
           /\ ValidateCustomType(type.name, v)

\* Mutation: the fields after a wrong one are looked at too.
SkippedIfUnused(field, dat) == ~field.usedInCommand

Skipped(field, dat) == ~field.usedInCommand \/ ~dat.valid

\* A nested structure is filled and checked like the one around it; whether
\* it is valid is kept in it only.  Of bytes whose parser threw there is none.
RECURSIVE FillAndValidate(_, _)
FillAndValidate(d, data) ==
    LET numbers(bytes) == [i \in DOMAIN bytes |-> ByteValue(bytes[i])]
        nested(bytes, field) ==
            FillAndValidate(Deserialize(bytes), NewStructure(field.customType))
        array(blobs, field) ==
            AllOf([i \in DOMAIN blobs |-> nested(blobs[i], field)])
        read(field) ==
            LET key == Key(field.name)
            IN CASE field.basicType = "boolean" ->
                      {<<IF b THEN 1 ELSE 0>> : b \in GetBoolean(d, key)}
                 [] field.basicType = "byte_blob" ->
                      {numbers(bytes) : bytes \in GetBytes(d, key, "blob")}
                 [] field.basicType = "integer" -> {<<v>> : v \in GetInteger(d, key, "Int64")}
                 [] field.basicType = "text" ->
                      {numbers(bytes) : bytes \in GetBytes(d, key, "text")}
                 [] field.basicType = "data_array" ->
                      UNION {array(blobs, field) : blobs \in GetBlobArray(d, key)}
        fill(dat, field) ==
            IF Skipped(field, dat) THEN {dat}
            ELSE IF ~Exist(d, Key(field.name)) THEN {[dat EXCEPT !.valid = ~field.isRequired]}
            ELSE {[dat EXCEPT !.values[field.name] = {v}, !.valid = Validate(field, v)] :
                     v \in read(field)}
    IN FoldLeft(LAMBDA dats, field : UNION {fill(dat, field) : dat \in dats},
                IF d.ok THEN {data} ELSE {}, Fields(data.name))

FromNetwork(bytes) ==
    IF bytes = <<>> THEN {NewStructure("")}
    ELSE FillAndValidate(Deserialize(bytes), NewStructure(Exchanged))

(***************************************************************************)
(* The exchange                                                            *)
(***************************************************************************)
Nowhere == [outcome |-> "none", sent |-> NewStructure(""), data |-> NewStructure("")]

Init ==
    /\ serverTable = <<>> /\ clientTable = <<>>
    /\ toServer = {} /\ toClient = {}
    /\ atServer = Nowhere /\ atClient = Nowhere
    /\ cut = {}
    /\ sends = 0 /\ edits = 0

\* CommandV2::Send of what the author has filled, or of an empty command.
AuthorSends ==
    /\ toServer = {} /\ sends < MaxSends
    /\ \E data \in {NewStructure("")} \cup
                   {[NewStructure(Exchanged) EXCEPT !.values = draft] : draft \in Drafts},
          uuid \in Generated :
         toServer' = {Payload(AutoFillFieldsIfRequested(data, uuid))}
    /\ sends' = sends + 1
    /\ UNCHANGED <<serverTable, clientTable, toClient, atServer, atClient, cut, edits>>

\* What the database keeps of the texts with a NUL.
CutTexts(data) ==
    {[field |-> f.name, stored |-> UpToNul(Value(data, f))] :
        f \in {f \in Range(Fields(data.name)) :
                 f.basicType = "text" /\ HasValue(data, f) /\ 0 \in Range(Value(data, f))}}

\* CreateCommand, IsValid of its data and the automatic save.
Handled(side, table, payload) ==
    LET threw == [outcome |-> "threw", table |-> table, data |-> NewStructure("")]
        orThrew(outcomes) == IF outcomes = {} THEN threw ELSE Only(outcomes)
        saved(data) == orThrew({[outcome |-> "accepted", table |-> after, data |-> data] :
                                   after \in SaveToDatabase(side, table, data)})
    IN orThrew({IF data.valid THEN saved(data) ELSE [threw EXCEPT !.outcome = "invalid"] :
                   data \in FromNetwork(payload.bytes)})

ServerReceives ==
    \E payload \in toServer :
      \E result \in {Handled("server", serverTable, payload)} :
           /\ serverTable' = result.table
           /\ atServer' = [outcome |-> result.outcome, sent |-> payload.data, data |-> result.data]
           /\ toServer' = {}
           /\ cut' = cut \cup CutTexts(result.data)
           /\ UNCHANGED <<clientTable, toClient, atClient, sends, edits>>

\* The application writes a field of a stored item.  One that the database
\* refuses changes nothing.
ServerEdits ==
    /\ edits < MaxEdits
    /\ \E i \in DOMAIN serverTable, edit \in Edits :
         LET item == ReadFromDbResult("server", Exchanged, serverTable[i])
             field == Only({f \in Range(Fields(Exchanged)) : f.name = edit.field})
             edited == [item EXCEPT !.values[edit.field] = {edit.value}]
         IN /\ serverTable' \in SaveField("server", serverTable, edited, field)
            /\ cut' = cut \cup CutTexts(edited)
    /\ edits' = edits + 1
    /\ atServer' = Nowhere
    /\ UNCHANGED <<clientTable, toServer, toClient, atClient, sends>>

\* An item is read by its unique field (ReadItemFromDbInternal) and sent.
ServerForwards ==
    /\ toClient = {}
    /\ \E i \in DOMAIN serverTable : toClient' = {Payload(ReadFromDbResult("server", Exchanged, serverTable[i]))}
    /\ UNCHANGED <<serverTable, clientTable, toServer, atServer, atClient, cut, sends, edits>>

ClientReceives ==
    \E payload \in toClient :
      \E result \in {Handled("client", clientTable, payload)} :
           /\ clientTable' = result.table
           /\ atClient' = [outcome |-> result.outcome, sent |-> payload.data, data |-> result.data]
           /\ toClient' = {}
           /\ UNCHANGED <<serverTable, toServer, atServer, cut, sends, edits>>

Next == AuthorSends \/ ServerReceives \/ ServerEdits \/ ServerForwards \/ ClientReceives

Spec == Init /\ [][Next]_vars

-----------------------------------------------------------------------------
Table(side) == IF side = "server" THEN serverTable ELSE clientTable
LastAt(side) == IF side = "server" THEN atServer ELSE atClient
Exchangeable == {f \in Range(Fields(Exchanged)) : f.usedInCommand}

\* The tables hold what binding a value of the field's type leaves in each
\* column of their side; at most one payload is on its way on each connection,
\* and what was accepted is filled with values of its fields' types.
TypeOK ==
    /\ \A side \in Sides :
         /\ IsTable(side, Exchanged, Table(side))
         /\ LastAt(side).outcome \in {"none", "threw", "invalid", "accepted"}
         /\ LastAt(side).data.name \in {"", Exchanged} /\ IsStructure(LastAt(side).data)
    /\ Cardinality(toServer) <= 1 /\ Cardinality(toClient) <= 1
    /\ \A c \in cut : 0 \notin Range(c.stored)
    /\ sends \in 0..MaxSends /\ edits \in 0..MaxEdits

\* A text whose length needs more than the 16 bits the parser reads of str_32.
FitsOnTheWire(data) ==
    \A f \in Range(Fields(data.name)) :
        f.basicType = "text" /\ HasValue(data, f) => Len(Value(data, f)) <= Highest("UInt16")

\* What a field that was sent is to arrive as: an empty text is no value.
Carried(field, value) ==
    IF ~field.usedInCommand \/ (field.basicType = "text" /\ value = {<<>>}) THEN {} ELSE value

\* The check of a custom type, on numbers: a negative one comes after all others,
\* as a bound too.
AtLeast(n, min) == IF min < 0 THEN n \in min .. -1 ELSE n < 0 \/ n >= min
AtMost(n, max) == IF max < 0 THEN n \notin max + 1 .. -1 ELSE n \in 0 .. max

Conforms(field, v) ==
    field.customType # NoCustomType /\ field.basicType # "data_array" =>
        LET type == GetCustomTypeInfo(field.customType)
            n == IF field.basicType = "integer" THEN v[1] ELSE Len(v)
        IN /\ type.minLength # Unbounded => AtLeast(n, type.minLength)
           /\ type.maxLength # Unbounded => AtMost(n, type.maxLength)
           /\ type.name = "uuid" => n = UuidLength
           /\ type.name = "username" => n = UsernameLength
           /\ type.name = "datetime" => v \in Datetimes

\* A required field has a value, and a value conforms to its type.
Suits(field, value) ==
    /\ field.isRequired => Carried(field, value) # {}
    /\ \A v \in Carried(field, value) : Conforms(field, v)

WellFormed(data) ==
    \A f \in Range(Fields(data.name)) : f.usedInCommand => Suits(f, data.values[f.name])

\* The structures of the structure's arrays.
Nested(data) ==
    UNION {UNION {Range(v) : v \in data.values[f.name]} :
               f \in {f \in Range(Fields(data.name)) : f.basicType = "data_array"}}

\* The serialiser and the parser agree: RoundTrips, on the samples of
\* MessagePack (MessagePack.hpp:174, 500).  It is about no variable: the
\* condition has TLC evaluate it once, in the initial state.
CodecRoundTrip == sends = 0 => RoundTrips

\* A data structure that is accepted, by the server from its author or by a
\* client from the server's database, has in each field of the command the
\* value it was sent with, nested structures included, and no value in any
\* other field: the serialiser and the parser, which keep the sizes of
\* everything on their own, agree on where each value begins and ends
\* (DataStructure.cpp:40, ApoapseData.cpp:92).  Texts of more than 65535
\* bytes are excepted: their length is read from 16 of its 32 bits.  So are
\* nested structures that are not well formed: the one around them is
\* accepted without their fields after the wrong one.
AcceptedIsWhatWasSent ==
    \A side \in Sides :
        LET last == LastAt(side)
            values(items) == {[i \in DOMAIN v |-> v[i].values] : v \in items}
        IN last.outcome = "accepted" /\ FitsOnTheWire(last.sent)
           /\ (\A item \in Nested(last.sent) : WellFormed(item)) =>
             /\ last.data.name = "" <=> \A f \in Exchangeable :
                                           f.name \in DOMAIN last.sent.values =>
                                               Carried(f, last.sent.values[f.name]) = {}
             /\ \A f \in Range(Fields(last.data.name)) :
                  LET sent == Carried(f, last.sent.values[f.name])
                      received == last.data.values[f.name]
                  IN IF f.basicType = "data_array" THEN values(received) = values(sent)
                     ELSE received = sent

\* A structure is accepted exactly when each required field has a value and
\* each value satisfies its custom type, whatever the order of the fields:
\* the check goes through the fields one by one, overwrites isValid with each
\* and stops looking at the first that is wrong (ApoapseData.cpp:96, 145).
\* An empty command is accepted without a structure, whatever is required.
AcceptedIsWellFormed ==
    \A side \in Sides :
        LET last == LastAt(side)
        IN last.outcome # "none" /\ last.sent.name # "" /\ FitsOnTheWire(last.sent) =>
             (last.outcome = "accepted" <=> WellFormed(last.sent))

\* What the server has accepted and stored can be sent on from its database:
\* no conversion to a cell and back (ApoapseData.cpp:325, SQLite.cpp:40) makes
\* a client refuse it, but for a text that the server accepted with a NUL in it
\* and keeps up to there: what is left may be no value, where one is required,
\* or one too short for its type.
ForwardedIsAccepted ==
    atClient.outcome # "none" /\ FitsOnTheWire(atClient.sent) =>
        \/ atClient.outcome = "accepted"
        \/ \E f \in Exchangeable, c \in cut :
             /\ c.field = f.name
             /\ atClient.sent.values[f.name] = {c.stored}
             /\ ~Suits(f, {c.stored})

\* The save of an accepted item writes one row, its own: what is read back
\* is each value received and, where none was received, what the row held
\* before, also when the server has edited it in between
\* (DataStructure.cpp:142).  Excepted are arrays of structures, which are not
\* stored, texts with a NUL and blobs of no bytes.
LoadedIsSaved ==
    [][/\ toServer # {} /\ toServer' = {} /\ atServer'.outcome = "accepted" =>
             atServer'.data.name = "" \/ Saved("server", serverTable, serverTable', atServer'.data)
       /\ toClient # {} /\ toClient' = {} /\ atClient'.outcome = "accepted" =>
             atClient'.data.name = "" \/ Saved("client", clientTable, clientTable', atClient'.data)]_vars
=============================================================================
