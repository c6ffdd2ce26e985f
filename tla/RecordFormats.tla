---------------------------- MODULE RecordFormats -----------------------------
(***************************************************************************)
(* What the records of a table store are made of: rows (wrap, parse and    *)
(* decode_row in src/table_store.cpp around TupleCodec in src/tuple.cpp),  *)
(* table entries and index entries (src/catalog.cpp).  A value is encoded, *)
(* its record may be replaced (a record store takes any bytes), and is     *)
(* read, field by field, as a row of its table or as an entry of the       *)
(* catalog.                                                                *)
(*                                                                         *)
(* The scale: a byte has BitsPerByte bits, 16-bit numbers are one byte,    *)
(* those of 32 and 64 bits are two.  A magic number is one cell that is no *)
(* byte.  A value of a column is <<"null">> or its type and what it is.    *)
(***************************************************************************)
EXTENDS Integers, SequencesExt, FiniteSetsExt

CONSTANTS BitsPerByte, Items, MaxChanges

ASSUME FormatAssumption == BitsPerByte \in Nat \ {0, 1} /\ MaxChanges \in Nat

VARIABLES
  item,    \* what is encoded: [kind, ...]
  bytes,   \* its record
  changes, \* what was done to the record since
  place,   \* where in the reading procedures the reader stands
  offset,
  result   \* what was read so far

vars == <<item, bytes, changes, place, offset, result>>

Base == 2 ^ BitsPerByte
Bytes == 0 .. Base - 1
LargeCount == Base ^ 2
Magic == [row |-> Base, tuple |-> Base + 1, table |-> Base + 2, index |-> Base + 3]
Version == 1

-----------------------------------------------------------------------------
\* append_u16, append_u32 and append_u64, append_text
Small(n) == <<n>>
Large(n) == <<n % Base, n \div Base>>
Text(text) == Small(Len(text)) \o text

\* A letter is a capital, 2, or a small one, 1.
identifier_key(name) == [i \in DOMAIN name |-> IF name[i] = 2 THEN 1 ELSE name[i]]
IsName(name) == Len(name) \in 1 .. Base - 1

Types == <<"integer", "text", "boolean">>
TypeTag(type) == CHOOSE tag \in 1 .. 3 : Types[tag] = type
Concat(parts) == FoldLeft(LAMBDA s, part : s \o part, <<>>, parts)

\* validate_table.  The type of a column is one of the three.
ValidTable(table) ==
  /\ IsName(table.name) /\ Len(table.schema) \in 1 .. Base - 1 /\ table.version > 0
  /\ \A i \in DOMAIN table.schema : IsName(table.schema[i].name)
  /\ \A i, j \in DOMAIN table.schema :
       identifier_key(table.schema[i].name) = identifier_key(table.schema[j].name) => i = j
EncodeTable(table) ==
  <<Magic.table>> \o Small(Version) \o Large(table.version) \o Text(table.name) \o Small(Len(table.schema))
  \o Concat([i \in DOMAIN table.schema |->
               LET column == table.schema[i]
               IN Text(column.name) \o <<TypeTag(column.type), IF column.nullable THEN 1 ELSE 0>>])

\* validate_index_identifiers, encode_index
ValidIndex(index) == IsName(index.name) /\ IsName(index.table) /\ IsName(index.column)
EncodeIndex(index) ==
  <<Magic.index>> \o Small(Version) \o Small(0) \o Large(index.page) \o Small(index.slot) \o Small(0)
  \o Text(index.name) \o Text(index.table) \o Text(index.column)

\* TupleCodec::encode.  An integer is written as its two's complement.
IsNull(value) == value[1] = "null"
ValidTuple(schema, values) ==
  /\ Len(values) = Len(schema)
  /\ \A i \in DOMAIN values :
       IF IsNull(values[i]) THEN schema[i].nullable ELSE values[i][1] = schema[i].type
BitmapSize(schema) == (Len(schema) + BitsPerByte - 1) \div BitsPerByte
Bitmap(values, size) ==
  [b \in 1 .. size |->
     SumSet({2 ^ ((i - 1) % BitsPerByte) :
               i \in {i \in DOMAIN values : IsNull(values[i]) /\ (i - 1) \div BitsPerByte = b - 1}})]
EncodeValue(value) ==
  CASE value[1] = "null" -> <<>>
    [] value[1] = "integer" -> Large(value[2] % LargeCount)
    [] value[1] = "text" -> Large(Len(value[2])) \o value[2]
    [] value[1] = "boolean" -> <<IF value[2] THEN 1 ELSE 0>>
EncodeTuple(schema, values) ==
  <<Magic.tuple>> \o Small(Version) \o Small(Len(schema)) \o Bitmap(values, BitmapSize(schema))
  \o Concat([i \in DOMAIN values |-> EncodeValue(values[i])])

\* wrap
EncodeRow(table, values) ==
  <<Magic.row>> \o Small(Version) \o Large(table.version) \o Text(table.name) \o EncodeTuple(table.schema, values)

Valid(i) ==
  CASE i.kind = "row" -> ValidTuple(i.table.schema, i.values)
    [] i.kind = "table" -> ValidTable(i.table)
    [] i.kind = "index" -> ValidIndex(i.index)
Encoding(i) ==
  CASE i.kind = "row" -> EncodeRow(i.table, i.values)
    [] i.kind = "table" -> EncodeTable(i.table)
    [] i.kind = "index" -> EncodeIndex(i.index)

-----------------------------------------------------------------------------
Init ==
  /\ item \in Items
  /\ bytes = <<>> /\ changes = <<>> /\ place = "given" /\ offset = 0 /\ result = <<>>

Encode ==
  /\ place = "given"
  /\ IF Valid(item) THEN place' = "stored" /\ bytes' = Encoding(item) ELSE place' = "refused" /\ UNCHANGED bytes
  /\ UNCHANGED <<item, changes, offset, result>>

\* RecordStore::replace by a record that differs a little and is not empty.
\* MaxChanges bounds how often.
Change(how, new) == changes' = Append(changes, how) /\ bytes' = new
Replace ==
  /\ place = "stored" /\ Len(changes) < MaxChanges
  /\ \/ \E i \in DOMAIN bytes :
          \E b \in IF bytes[i] \in Bytes THEN Bytes ELSE {Magic[k] : k \in DOMAIN Magic} :
            b # bytes[i] /\ Change("altered", ReplaceAt(bytes, i, b))
     \/ \E n \in 1 .. Len(bytes) - 1 : Change("cut", SubSeq(bytes, 1, n))
     \/ \E b \in Bytes : Change("grown", Append(bytes, b))
  /\ UNCHANGED <<item, place, offset, result>>

\* require_bytes, read_u16, read_u32 and read_u64, read_text
Holds(from, count) == from + count <= Len(bytes)
SmallAt(from) == bytes[from + 1]
LargeAt(from) == bytes[from + 1] + Base * bytes[from + 2]
Slice(from, count) == SubSeq(bytes, from + 1, from + count)
HoldsText(from) == Holds(from, 1) /\ Holds(from + 1, SmallAt(from))
TextAt(from) == Slice(from + 1, SmallAt(from))
AfterText(from) == from + 1 + SmallAt(from)

Reads(p) == place = p
Corrupt == place' = "corrupt" /\ UNCHANGED <<offset, result>>
Advance(to, next, new) == offset' = to /\ place' = next /\ result' = new
Reader == UNCHANGED <<item, bytes, changes>>

\* has_magic.  A record of another kind is passed over, or is none of the
\* kind that was asked for.
ReadMagic ==
  /\ Reads("stored")
  /\ IF Holds(0, 1) /\ SmallAt(0) = Magic[item.kind]
     THEN Advance(1, item.kind, result)
     ELSE place' = "passed" /\ UNCHANGED <<offset, result>>
  /\ Reader

\* parse, the comparison of the table's name, and decode_row
ReadEnvelope ==
  /\ Reads("row")
  /\ IF ~(Holds(1, 3) /\ SmallAt(1) = Version /\ LargeAt(2) # 0 /\ HoldsText(4) /\ TextAt(4) # <<>>)
     THEN Corrupt
     ELSE IF TextAt(4) # item.table.name
     THEN place' = "passed" /\ UNCHANGED <<offset, result>>
     ELSE IF LargeAt(2) # item.table.version
     THEN Corrupt
     ELSE Advance(AfterText(4), "tuple", result)
  /\ Reader

-----------------------------------------------------------------------------
\* TupleCodec::decode, into result.nulls, the bitmap, and result.values
Schema == item.table.schema
Unused == IF Len(Schema) % BitsPerByte = 0 THEN 0 ELSE BitsPerByte - (Len(Schema) % BitsPerByte)
\* Mutant: the bits of columns that do not exist are not looked at.
AnyUnusedBits(bitmap) == FALSE
HasUnusedBits(bitmap) == Unused > 0 /\ Last(bitmap) >= 2 ^ (BitsPerByte - Unused)
ReadTupleHeader ==
  /\ Reads("tuple")
  /\ IF /\ Holds(offset, 3 + BitmapSize(Schema))
        /\ SmallAt(offset) = Magic.tuple /\ SmallAt(offset + 1) = Version /\ SmallAt(offset + 2) = Len(Schema)
        /\ ~HasUnusedBits(Slice(offset + 3, BitmapSize(Schema)))
     THEN Advance(offset + 3 + BitmapSize(Schema), "value",
                  [nulls |-> Slice(offset + 3, BitmapSize(Schema)), values |-> <<>>])
     ELSE Corrupt
  /\ Reader

\* Mutant: the null bits are looked for in the first byte.
NullInFirstByte(i) == (result.nulls[1] \div 2 ^ ((i - 1) % BitsPerByte)) % 2 = 1
NullBit(i) == (result.nulls[(i - 1) \div BitsPerByte + 1] \div 2 ^ ((i - 1) % BitsPerByte)) % 2 = 1
Signed(n) == IF 2 * n >= LargeCount THEN n - LargeCount ELSE n
NextColumn == Len(result.values) + 1
Take(value, to) == Advance(to, "value", [result EXCEPT !.values = Append(@, value)])
ReadNull ==
  /\ Reads("value") /\ NextColumn \in DOMAIN Schema /\ NullBit(NextColumn)
  /\ IF Schema[NextColumn].nullable THEN Take(<<"null">>, offset) ELSE Corrupt
  /\ Reader
Present(type) ==
  /\ Reads("value") /\ NextColumn \in DOMAIN Schema /\ ~NullBit(NextColumn)
  /\ Schema[NextColumn].type = type
ReadInteger ==
  /\ Present("integer")
  /\ IF Holds(offset, 2) THEN Take(<<"integer", Signed(LargeAt(offset))>>, offset + 2) ELSE Corrupt
  /\ Reader
ReadText ==
  /\ Present("text")
  /\ IF Holds(offset, 2) /\ Holds(offset + 2, LargeAt(offset))
     THEN Take(<<"text", Slice(offset + 2, LargeAt(offset))>>, offset + 2 + LargeAt(offset))
     ELSE Corrupt
  /\ Reader
ReadBoolean ==
  /\ Present("boolean")
  /\ IF Holds(offset, 1) /\ SmallAt(offset) \in {0, 1}
     THEN Take(<<"boolean", SmallAt(offset) = 1>>, offset + 1)
     ELSE Corrupt
  /\ Reader
\* No record has trailing bytes.
AtEnd(new) == IF offset = Len(bytes) THEN Advance(offset, "decoded", new) ELSE Corrupt
EndTuple ==
  /\ Reads("value") /\ NextColumn \notin DOMAIN Schema
  /\ AtEnd([kind |-> "row", table |-> item.table, values |-> result.values])
  /\ Reader

-----------------------------------------------------------------------------
\* decode
ReadTableHeader ==
  /\ Reads("table")
  /\ IF /\ Holds(1, 3) /\ SmallAt(1) = Version /\ LargeAt(2) # 0
        /\ HoldsText(4) /\ TextAt(4) # <<>>
        /\ Holds(AfterText(4), 1) /\ SmallAt(AfterText(4)) # 0
     THEN Advance(AfterText(4) + 1, "column",
                  [name |-> TextAt(4), version |-> LargeAt(2), count |-> SmallAt(AfterText(4)), schema |-> <<>>])
     ELSE Corrupt
  /\ Reader
ReadColumn ==
  /\ Reads("column") /\ Len(result.schema) < result.count
  /\ LET taken == {identifier_key(result.schema[i].name) : i \in DOMAIN result.schema}
         tag == AfterText(offset)
     IN IF /\ HoldsText(offset) /\ TextAt(offset) # <<>> /\ identifier_key(TextAt(offset)) \notin taken
           /\ Holds(tag, 2) /\ SmallAt(tag) \in 1 .. 3 /\ SmallAt(tag + 1) \in {0, 1}
        THEN Advance(tag + 2, "column",
                     [result EXCEPT !.schema = Append(@, [name |-> TextAt(offset), type |-> Types[SmallAt(tag)],
                                                          nullable |-> SmallAt(tag + 1) = 1])])
        ELSE Corrupt
  /\ Reader
EndTable ==
  /\ Reads("column") /\ Len(result.schema) = result.count
  /\ AtEnd([kind |-> "table",
            table |-> [name |-> result.name, version |-> result.version, schema |-> result.schema]])
  /\ Reader

\* decode_index
ReadIndexHeader ==
  /\ Reads("index")
  /\ IF /\ Holds(1, 6) /\ SmallAt(1) = Version /\ SmallAt(2) = 0 /\ SmallAt(6) = 0
     THEN Advance(7, "names", [page |-> LargeAt(3), slot |-> SmallAt(5), names |-> <<>>])
     ELSE Corrupt
  /\ Reader
ReadIndexName ==
  /\ Reads("names") /\ Len(result.names) < 3
  /\ IF HoldsText(offset)
     THEN Advance(AfterText(offset), "names", [result EXCEPT !.names = Append(@, TextAt(offset))])
     ELSE Corrupt
  /\ Reader
EndIndex ==
  /\ Reads("names") /\ Len(result.names) = 3
  /\ IF <<>> \in Range(result.names) THEN Corrupt
     ELSE AtEnd([kind |-> "index",
                 index |-> [name |-> result.names[1], table |-> result.names[2], column |-> result.names[3],
                            page |-> result.page, slot |-> result.slot]])
  /\ Reader

Next ==
  \/ Encode \/ Replace \/ ReadMagic
  \/ ReadEnvelope \/ ReadTupleHeader \/ ReadNull \/ ReadInteger \/ ReadText \/ ReadBoolean \/ EndTuple
  \/ ReadTableHeader \/ ReadColumn \/ EndTable
  \/ ReadIndexHeader \/ ReadIndexName \/ EndIndex
Spec == Init /\ [][Next]_vars

-----------------------------------------------------------------------------
\* What was encoded and left alone is read back as it was: nulls, negative
\* numbers, empty texts and the last column of a bitmap's byte included.
WritesAreReadBack ==
  changes = <<>> => place \notin {"corrupt", "passed"} /\ (place = "decoded" => result = item)

\* A record that was changed is read only as a value the store could have
\* written, and as one it writes in exactly these bytes: no bit is ignored, no
\* value has two records, and no part or extension of a record is one.
AcceptsOnlyEncodings ==
  place = "decoded" =>
    /\ Valid(result) /\ bytes = Encoding(result)
    /\ changes \notin {<<"cut">>, <<"grown">>}
=============================================================================
