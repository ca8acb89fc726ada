---------------------------- MODULE MessagePack ----------------------------
(***************************************************************************)
(* MessagePack.hpp: the serialiser and the deserialiser of the data that   *)
(* commands carry, as operators on sequences of bytes.                     *)
(*                                                                         *)
(* The widths are scaled so that TLC reaches every boundary: a byte has    *)
(* Base values instead of 256, and the bounds of the single-byte formats   *)
(* shrink with it.  A byte is a pair <<what, n>>: a format byte with what  *)
(* it carries (<<"fixmap", 2>>, <<"str_8", 0>>), a character of a key      *)
(* (<<"a", 0>>), or a data byte.  A data byte up to PositiveFixMax is the  *)
(* same byte as the positive fixint of that value, as on the wire.         *)
(***************************************************************************)
EXTENDS Integers, Sequences, FiniteSets, SequencesExt, TLC

CONSTANTS
    Base,           \* values of a byte (256)
    PositiveFixMax, \* largest positive fixint (127)
    NegativeFixes,  \* number of negative fixints (32)
    FixTextMax,     \* longest fixstr (31)
    FixCountMax,    \* largest fixmap and fixarray (15)
    KeyMax          \* longest key (255)

ASSUME MessagePackAssumption ==
    /\ Base \in Nat /\ Base > 1 /\ Base % 2 = 0
    /\ PositiveFixMax \in 0..Base - 1 /\ FixTextMax \in 0..Base - 1
    /\ FixCountMax \in 0..Base - 1 /\ NegativeFixes \in 0..Base \div 2
    /\ KeyMax \in Nat

(***************************************************************************)
(* Integers: Maths.hpp and ByteUtils.hpp                                   *)
(***************************************************************************)
IntegerTypes == [
    UInt8  |-> [size |-> 1, signed |-> FALSE], Int8  |-> [size |-> 1, signed |-> TRUE],
    UInt16 |-> [size |-> 2, signed |-> FALSE], Int16 |-> [size |-> 2, signed |-> TRUE],
    UInt32 |-> [size |-> 4, signed |-> FALSE], Int32 |-> [size |-> 4, signed |-> TRUE],
    UInt64 |-> [size |-> 8, signed |-> FALSE], Int64 |-> [size |-> 8, signed |-> TRUE]]

Unsigned == {T \in DOMAIN IntegerTypes : ~IntegerTypes[T].signed}

Values(T) == Base ^ IntegerTypes[T].size

Lowest(T) == IF T \in Unsigned THEN 0 ELSE 0 - (Values(T) \div 2)

Highest(T) == Lowest(T) + Values(T) - 1

\* static_cast to T: the value of T that is equal modulo the values of T.
Cast(T, v) == ((v - Lowest(T)) % Values(T)) + Lowest(T)

IsInBound(v, low, high) == v >= low /\ v <= high

\* Mutation: the lower bound is forgotten.
CanFitBelow(T, v) == Cast("Int64", v) <= Cast("Int64", Highest(T))

\* The bounds of the type are compared as Int64: the highest UInt64 is -1.
CanFit(T, v) ==
    IsInBound(Cast("Int64", v), Cast("Int64", Lowest(T)), Cast("Int64", Highest(T)))

DataByte(n) == IF n <= PositiveFixMax THEN <<"fixint", n>> ELSE <<"data", n>>

\* The number a byte stands for; every format byte but a fixint is a high one.
ByteValue(b) == IF b[1] \in {"fixint", "data"} THEN b[2] ELSE Base - 1

\* Big endian.
ToBytes(T, v) ==
    LET size == IntegerTypes[T].size
    IN [i \in 1..size |-> DataByte(((v % Values(T)) \div Base ^ (size - i)) % Base)]

FromBytes(T, bytes) ==
    Cast(T, FoldLeft(LAMBDA n, b : n * Base + ByteValue(b), 0, bytes))

(***************************************************************************)
(* MessagePackSerializer.  An item is a record: its type, and what it is   *)
(* made of - the bytes of a text or of a blob, the value of an integer or  *)
(* of a boolean, the items of an array.                                    *)
(***************************************************************************)
Boolean(b) == [type |-> "bool", of |-> b]
Integer(v) == [type |-> "int", of |-> v]
Text(bytes) == [type |-> "text", of |-> bytes]
Blob(bytes) == [type |-> "blob", of |-> bytes]
Array(items) == [type |-> "array", of |-> items]

\* A size, in the smallest of the forms of its format.
SizeBytes(T, format, n) == <<<<format, 0>>>> \o ToBytes(T, n)

TextBytes(str) ==
    LET n == Len(str)
    IN (CASE n <= FixTextMax -> <<<<"fixstr", n>>>>
          [] n > FixTextMax /\ CanFit("UInt8", n) -> SizeBytes("UInt8", "str_8", n)
          [] ~CanFit("UInt8", n) /\ CanFit("UInt16", n) -> SizeBytes("UInt16", "str_16", n)
          [] OTHER -> SizeBytes("UInt32", "str_32", n)) \o str

BlobBytes(data) ==
    LET n == Len(data)
    IN (CASE CanFit("UInt8", n) -> SizeBytes("UInt8", "bin_8", n)
          [] ~CanFit("UInt8", n) /\ CanFit("UInt16", n) -> SizeBytes("UInt16", "bin_16", n)
          [] OTHER -> SizeBytes("UInt32", "bin_32", n)) \o data

\* The first type that can hold the value, in this order, gives its format.
IntegerFormats == << <<"UInt8", "uint_8">>, <<"UInt16", "uint_16">>, <<"UInt32", "uint_32">>,
                     <<"Int8", "int_8">>, <<"Int16", "int_16">>, <<"Int32", "int_32">>,
                     <<"UInt64", "uint_64">>, <<"Int64", "int_64">> >>

NumberBytes(v) ==
    IF v >= 0 /\ v <= PositiveFixMax THEN <<DataByte(v)>>
    ELSE IF v < 0 /\ CanFit("Int8", v) /\ v >= 0 - NegativeFixes THEN <<<<"negfix", v>>>>
    ELSE LET fits(f) == f[1] = "Int64" \/ CanFit(f[1], v)
             format == IntegerFormats[SelectInSeq(IntegerFormats, fits)]
         IN SizeBytes(format[1], format[2], Cast(format[1], v))

RECURSIVE ItemBytes(_)
ItemBytes(item) ==
    CASE item.type = "bool" -> <<<<IF item.of THEN "true" ELSE "false", 0>>>>
      [] item.type = "int" -> NumberBytes(item.of)
      [] item.type = "text" -> TextBytes(item.of)
      [] item.type = "blob" -> BlobBytes(item.of)
      [] item.type = "array" ->
           (IF Len(item.of) <= FixCountMax THEN <<<<"fixarray", Len(item.of)>>>>
            ELSE IF CanFit("UInt16", Len(item.of))
            THEN SizeBytes("UInt16", "array_16", Len(item.of))
            ELSE SizeBytes("UInt32", "array_32", Len(item.of)))
           \o FlattenSeq([i \in DOMAIN item.of |-> ItemBytes(item.of[i])])

Serializer == [data |-> <<>>, compiled |-> TRUE, unordered |-> <<>>]

StartGroupOrdered(n, name) ==
    (IF name # <<>> THEN TextBytes(name) ELSE <<>>)
    \o (IF n <= FixCountMax THEN <<<<"fixmap", n>>>>
        ELSE IF CanFit("UInt16", n) THEN SizeBytes("UInt16", "map_16", n)
        ELSE SizeBytes("UInt32", "map_32", n))

OrderedAppend(ser, name, item) ==
    [ser EXCEPT !.data = @ \o TextBytes(name) \o ItemBytes(item)]

Dot == <<".", 0>>
IsDot(b) == b = Dot

\* ReadFieldGroupAndName: the group is what precedes the last dot, and the
\* name what follows the first.
GroupOf(name) == SubSeq(name, 1, SelectLastInSeq(name, IsDot) - 1)
FieldOf(name) == SubSeq(name, SelectInSeq(name, IsDot) + 1, Len(name))

\* The bytes of the field are moved out of m_data into their group.
UnorderedAppend(ser, name, item) ==
    LET field == OrderedAppend(ser, FieldOf(name), item).data
        group == GroupOf(name)
        before == IF group \in DOMAIN ser.unordered THEN ser.unordered[group] ELSE <<>>
    IN [data |-> <<>>, compiled |-> FALSE,
        unordered |-> (group :> Append(before, field)) @@ ser.unordered]

CountItemsInRootNode(unordered) ==
    IF <<>> \in DOMAIN unordered THEN Len(unordered[<<>>]) ELSE Cardinality(DOMAIN unordered)

\* The map is sorted by name, the root group first; the order of the other
\* groups is of no consequence.
UnorderedFieldsCompile(ser) ==
    LET groups == DOMAIN ser.unordered
        order == SelectSeq(<<<<>>>> \o SetToSeq(groups \ {<<>>}), LAMBDA g : g \in groups)
        count == (Cardinality(groups) - 1) + CountItemsInRootNode(ser.unordered)
        bytes(g) == (IF g # <<>> THEN StartGroupOrdered(Len(ser.unordered[g]), g) ELSE <<>>)
                    \o FlattenSeq(ser.unordered[g])
    IN [data |-> ser.data \o StartGroupOrdered(count, <<>>)
                 \o FlattenSeq([i \in DOMAIN order |-> bytes(order[i])]),
        compiled |-> TRUE, unordered |-> <<>>]

GetMessagePackBytes(ser) ==
    IF ser.compiled THEN ser.data ELSE UnorderedFieldsCompile(ser).data

(***************************************************************************)
(* MessagePackDeserializer.  The parser goes through the bytes once and    *)
(* keeps where each item is: raw the bytes, at the cursor of the range,    *)
(* items the location of each key, key the last key read, and ok, FALSE    *)
(* once an exception has been thrown.  Nothing is kept of an empty text.   *)
(***************************************************************************)
Left(s) == Len(s.raw) - s.at

\* Beyond the end whatever is there is read; the Consume that follows throws.
FirstByte(s) == IF s.ok /\ Left(s) > 0 THEN s.raw[s.at + 1] ELSE <<"outside", 0>>

Bytes(raw, from, n) == SubSeq(raw, from + 1, from + n)

Throw(s) == [s EXCEPT !.ok = FALSE]

Consume(s, n) == IF n > Left(s) THEN Throw(s) ELSE [s EXCEPT !.at = @ + n]

Locate(s, name, type, length) ==
    [s EXCEPT !.items = (name :> [pos |-> s.at, length |-> length, type |-> type]) @@ @]

ReadInteger(s, T) == FromBytes(T, Bytes(s.raw, s.at, IntegerTypes[T].size))

\* A size: in the first byte, or in an integer after it.  forms gives the
\* type of that integer by format.
Size(s, fix, forms) ==
    LET first == FirstByte(s)
        rest == Consume(s, 1)
        read(after, T) == [s |-> after, n |-> IF after.ok THEN ReadInteger(rest, T) ELSE 0]
        integer(T) == read(IF rest.ok THEN Consume(rest, IntegerTypes[T].size) ELSE rest, T)
    IN IF first[1] = fix THEN [s |-> rest, n |-> first[2]]
       ELSE IF first[1] \in DOMAIN forms THEN integer(forms[first[1]])
       ELSE [s |-> rest, n |-> 0]

MapForms == [map_16 |-> "UInt16", map_32 |-> "UInt32"]
TextForms == [str_8 |-> "UInt8", str_16 |-> "UInt16", str_32 |-> "UInt16"]
BlobForms == [bin_8 |-> "UInt8", bin_16 |-> "UInt16", bin_32 |-> "UInt32"]
ArrayForms == [array_16 |-> "UInt16", array_32 |-> "UInt32"]
IntegerForms == [uint_8 |-> "UInt8", uint_16 |-> "UInt16", uint_32 |-> "UInt32",
                 uint_64 |-> "UInt64", int_8 |-> "Int8", int_16 |-> "Int16",
                 int_32 |-> "Int32", int_64 |-> "Int64"]

IsMap(b) == b[1] = "fixmap" \/ b[1] \in DOMAIN MapForms

Dotted(name, suffix) == IF name = <<>> THEN suffix ELSE name \o <<Dot>> \o suffix

\* std::to_string of an index, as one character.
Index(i) == <<<<ToString(i - 1), 0>>>>

ParseKey(s, mapName) ==
    LET key(size) ==
            IF ~size.s.ok THEN size.s
            ELSE IF size.n = 0 THEN [size.s EXCEPT !.key = <<>>]
            ELSE IF size.n > KeyMax \/ size.n > Left(size.s) THEN Throw(size.s)
            ELSE [Consume(size.s, size.n) EXCEPT
                     !.key = Dotted(mapName, Bytes(s.raw, size.s.at, size.n))]
    IN key(Size(s, "fixstr", TextForms))

ParseText(s, name) ==
    LET text(size) == IF ~size.s.ok \/ size.n = 0 THEN size.s
                      ELSE Consume(Locate(size.s, name, "text", size.n), size.n)
    IN text(Size(s, "fixstr", TextForms))

\* Mutation: the position is taken before the length was read.
ParseByteBlobEarly(s, name) ==
    LET located(size, after) ==
            IF after.ok THEN [Locate([s EXCEPT !.at = @ + 1], name, "blob", size.n) EXCEPT
                                 !.at = after.at]
            ELSE after
        blob(size) == located(size, IF size.s.ok THEN Consume(size.s, size.n) ELSE size.s)
    IN blob(Size(s, "", BlobForms))

\* The location is kept after the bytes were consumed, with the position before.
ParseByteBlob(s, name) ==
    LET located(size, after) ==
            IF after.ok THEN [Locate(size.s, name, "blob", size.n) EXCEPT !.at = after.at]
            ELSE after
        blob(size) == located(size, IF size.s.ok THEN Consume(size.s, size.n) ELSE size.s)
    IN blob(Size(s, "", BlobForms))

ParseInteger(s, name) ==
    LET T == IntegerForms[FirstByte(s)[1]]
        rest == Consume(s, 1)
    IN Consume(Locate(rest, name, T, 0), IntegerTypes[T].size)

\* A byte that is none of the formats is left where it is.
RECURSIVE ParseMap(_, _), ParseNextItem(_, _, _)
ParseMap(s, mapName) ==
    LET value(key) == ParseNextItem(key, key.key, TRUE)
        entry(before, i) == IF before.ok THEN value(ParseKey(before, mapName)) ELSE before
        entries(size) == FoldLeft(entry, size.s, [i \in 1..size.n |-> i])
    IN entries(Size(s, "fixmap", MapForms))

ParseNextItem(s, name, allowMap) ==
    LET first == FirstByte(s)
        item(before, i) ==
            IF before.ok THEN ParseNextItem(before, Dotted(name, Index(i)), FALSE) ELSE before
        array(size) ==
            FoldLeft(item, Locate(size.s, name, "array", size.n), [i \in 1..size.n |-> i])
    IN CASE ~s.ok \/ Left(s) = 0 -> Throw(s)
         [] s.ok /\ allowMap /\ IsMap(first) -> ParseMap(s, name)
         [] first[1] = "fixstr" \/ first[1] \in DOMAIN TextForms -> ParseText(s, name)
         [] first[1] \in {"true", "false"} -> Consume(Locate(s, name, "bool", 0), 1)
         [] first[1] \in {"fixint", "negfix"} -> Consume(Locate(s, name, first[1], 0), 1)
         [] first[1] \in DOMAIN IntegerForms -> ParseInteger(s, name)
         [] first[1] \in DOMAIN BlobForms -> ParseByteBlob(s, name)
         [] first[1] = "fixarray" \/ first[1] \in DOMAIN ArrayForms ->
              array(Size(s, "fixarray", ArrayForms))
         [] OTHER -> s

\* Parse, on at least one byte: the first byte of none is not there to read.
Deserialize(raw) ==
    ParseMap([raw |-> raw, at |-> 0, items |-> <<>>, key |-> <<>>, ok |-> TRUE], <<>>)

Exist(d, key) == key \in DOMAIN d.items

(***************************************************************************)
(* The values: a set of one value, or the empty set for an exception.      *)
(***************************************************************************)
ReadAndCheckInteger(raw, pos, Source, Target) ==
    LET v == FromBytes(Source, Bytes(raw, pos, IntegerTypes[Source].size))
    IN IF CanFit(Target, v) THEN {Cast(Target, v)} ELSE {}

GetInteger(d, key, T) ==
    IF ~Exist(d, key) THEN {}
    ELSE LET item == d.items[key]
         IN CASE item.type \in {"fixint", "negfix"} -> {Cast(T, d.raw[item.pos + 1][2])}
              [] item.type \in DOMAIN IntegerTypes ->
                   ReadAndCheckInteger(d.raw, item.pos, item.type, T)
              [] OTHER -> {}

GetBoolean(d, key) ==
    IF Exist(d, key) /\ d.items[key].type = "bool"
    THEN {d.raw[d.items[key].pos + 1] = <<"true", 0>>} ELSE {}

\* type: "text" or "blob".
GetBytes(d, key, type) ==
    IF Exist(d, key) /\ d.items[key].type = type
    THEN {Bytes(d.raw, d.items[key].pos, d.items[key].length)} ELSE {}

Only(S) == CHOOSE x \in S : TRUE

\* Everything of a sequence of results, unless one of them is an exception.
AllOf(results) ==
    IF \E i \in DOMAIN results : results[i] = {} THEN {}
    ELSE {[i \in DOMAIN results |-> Only(results[i])]}

\* GetArray, of nested serialisers.
GetBlobArray(d, key) ==
    IF ~Exist(d, key) \/ d.items[key].type # "array" THEN {}
    ELSE AllOf([i \in 1..d.items[key].length |-> GetBytes(d, Dotted(key, Index(i)), "blob")])

\* What is found under a key, as the item to append again: {} when it throws,
\* as it does for the array itself.
ItemAt(d, key) ==
    LET type == d.items[key].type
    IN CASE type = "bool" -> {Boolean(b) : b \in GetBoolean(d, key)}
         [] type = "text" -> {Text(str) : str \in GetBytes(d, key, "text")}
         [] type = "blob" -> {Blob(bytes) : bytes \in GetBytes(d, key, "blob")}
         [] OTHER -> {Integer(v) : v \in GetInteger(d, key, "Int64")}

ToSerializer(d) ==
    LET again(key, sers) == {UnorderedAppend(ser, key, item) :
                                 <<ser, item>> \in sers \X ItemAt(d, key)}
    IN FoldSet(again, {Serializer}, DOMAIN d.items)

-----------------------------------------------------------------------------
Char(c) == <<<<c, 0>>>>

\* The values around the bounds of the integer types.
EdgeIntegers ==
    UNION {{Lowest(T) - 1, Lowest(T), Lowest(T) + 1, Highest(T) - 1, Highest(T), Highest(T) + 1} :
               T \in DOMAIN IntegerTypes \ {"UInt64"}}
    \cap (Lowest("Int64")..Highest("Int64"))

\* Fields appended by turns to the root node and to two groups: n to the
\* root, k and m to the groups.
Samples ==
    LET field(group, i) ==
            [name |-> (IF group = "" THEN <<>> ELSE Char(group) \o <<Dot>>) \o Char(ToString(i)),
             item |-> IF i = 1 THEN Boolean(FALSE) ELSE IF i = 2 THEN Integer(-1)
                      ELSE Text([j \in 1..i |-> DataByte(1)])]
        turn(n, group, i) == IF i <= n THEN <<field(group, i)>> ELSE <<>>
    IN {FlattenSeq([i \in 1..4 |-> turn(n, "", i) \o turn(k, "g", i) \o turn(m, "h", i)]) :
            n \in 0..4, k \in 0..4, m \in {0, 1, 3}}

AppendAll(sample) ==
    FoldLeft(LAMBDA ser, f : UnorderedAppend(ser, f.name, f.item), Serializer, sample)

Decoded(ser) == Deserialize(GetMessagePackBytes(ser))

\* What is appended is what is read, through every format at the bounds of its
\* sizes.  An integer is read as any type that holds it, and is refused, not
\* truncated, by every other one - but for UInt64, which CanFit takes for a
\* type without values, and a negative fixint, which no reader checks.
\* Fields appended in any order come back from the root node or from their
\* group, however the counts of the two were derived, and so they do from the
\* serialiser that ToSerializer makes of them - but for several groups without
\* a field in the root node, whose count is wrong: the parser looks for fields
\* beyond the end and throws (MessagePack.hpp:215, 372, 500).
RoundTrips ==
    /\ \A v \in EdgeIntegers, T \in DOMAIN IntegerTypes \ {"UInt64"} :
         ~(T \in Unsigned /\ v \in (0 - NegativeFixes)..-1) =>
             GetInteger(Decoded(UnorderedAppend(Serializer, Char("a"), Integer(v))), Char("a"), T)
                 = IF v \in Lowest(T)..Highest(T) THEN {v} ELSE {}
    /\ \A sample \in Samples :
         LET groups == {GroupOf(sample[i].name) : i \in DOMAIN sample}
             same(d) ==
                 /\ d.ok /\ DOMAIN d.items = {sample[i].name : i \in DOMAIN sample}
                 /\ \A i \in DOMAIN sample : ItemAt(d, sample[i].name) = {sample[i].item}
         IN Cardinality(groups) = 1 \/ <<>> \in groups =>
              \A read \in {Decoded(AppendAll(sample))} :
                 /\ same(read)
                 /\ \E ser \in ToSerializer(read) : same(Decoded(ser))
=============================================================================
