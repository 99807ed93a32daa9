---------------------------- MODULE SchemaCodec ----------------------------
(***************************************************************************)
(* How a schema becomes an entry of the catalog page, and a schema again   *)
(* when the database is opened: ColumnDefinition and TableSchema           *)
(* (src/src/tables.rs), CatalogEntry (src/src/catalog.rs).  A column is    *)
(* its name, with its length in a byte, a byte for the type and one that   *)
(* says whether it may be NULL; how far to move on is counted by the       *)
(* reader.  A step is a turn of one of the loops over the columns.         *)
(***************************************************************************)
EXTENDS ByteStrings

CONSTANTS
    Columns,       \* column definitions of a CREATE TABLE
    TableNames,    \* byte sequences
    Suffix,        \* ".db"
    MaxColumns,    \* bound: columns of a table
    MaxId          \* bound: table ids

DataType == <<"Int", "VarChar", "Float", "Boolean", "Blob">>

\* What is assumed of the constants, where this module is instantiated.
Assumptions ==
    /\ Columns \subseteq [name : Seq(UInt(1)), data_type : {DataType[k] : k \in DOMAIN DataType},
                          is_nullable : BOOLEAN]
    /\ TableNames \cup {Suffix} \subseteq Seq(UInt(1))
    /\ MaxColumns \in Nat /\ MaxId \in UInt(4) \ {0}

VARIABLES
    table_id, table_name,
    attributes,    \* the columns of the table
    stage,
    blob,          \* TableSchema::to_be_bytes
    entry,         \* CatalogEntry::to_be_bytes, as it is in the catalog page
    data,          \* what is left to read of it
    num_attrs,
    found          \* the entry that is read back

table == <<table_id, table_name, attributes>>
codecVars == <<table, stage, blob, entry, data, num_attrs, found>>

Init ==
    /\ table_id \in 1 .. MaxId
    /\ table_name \in TableNames
    /\ attributes \in UNION {[1 .. n -> Columns] : n \in 1 .. MaxColumns}
    /\ stage = "Encode"
    /\ blob = <<>> /\ entry = <<>> /\ data = <<>>
    /\ num_attrs = 0
    /\ found = [id |-> 0, name |-> <<>>, file |-> <<>>, attributes |-> <<>>]

Leading(s, n) == SubSeq(s, 1, n)
After(s, n)   == SubSeq(s, n + 1, Len(s))

-----------------------------------------------------------------------------
(* to_be_bytes *)

file_name == table_name \o Suffix

\* A length that is more than a byte holds is refused, here and by the binder.
Counted(s) == <<Len(s)>> \o s

TypeByte(type) == (CHOOSE k \in DOMAIN DataType : DataType[k] = type) - 1

ColumnBytes(c) ==
    Counted(c.name) \o <<TypeByte(c.data_type), IF c.is_nullable THEN 1 ELSE 0>>

\* ColumnDefinition::new: StringTooLong.
ColumnRefused ==
    /\ stage = "Encode" /\ blob = <<>>
    /\ \E k \in DOMAIN attributes : Len(attributes[k].name) \notin UInt(1)
    /\ stage' = "Refused"
    /\ UNCHANGED <<table, blob, entry, data, num_attrs, found>>

EncodeStarts ==
    /\ stage = "Encode" /\ blob = <<>>
    /\ \A k \in DOMAIN attributes : Len(attributes[k].name) \in UInt(1)
    /\ blob' = to_be_bytes(Len(attributes), 4)
    /\ UNCHANGED <<table, stage, entry, data, num_attrs, found>>

\* num_attrs counts the columns that are written.
EncodeColumn ==
    /\ stage = "Encode" /\ blob # <<>>
    /\ num_attrs < Len(attributes)
    /\ blob' = blob \o ColumnBytes(attributes[num_attrs + 1])
    /\ num_attrs' = num_attrs + 1
    /\ UNCHANGED <<table, stage, entry, data, found>>

Encoded == stage = "Encode" /\ blob # <<>> /\ num_attrs = Len(attributes)

LengthsFit ==
    /\ {Len(table_name), Len(file_name)} \subseteq UInt(1)
    /\ Len(blob) \in UInt(2)

EncodeEntry ==
    /\ Encoded
    /\ LengthsFit
    /\ entry' = to_be_bytes(table_id, 4) \o Counted(table_name) \o Counted(file_name)
                  \o to_be_bytes(Len(blob), 2) \o blob
    /\ stage' = "Stored"
    /\ UNCHANGED <<table, blob, data, num_attrs, found>>

\* u8::try_from, u16::try_from: IntConversion.
EntryRefused ==
    /\ Encoded
    /\ ~ LengthsFit
    /\ stage' = "Refused"
    /\ UNCHANGED <<table, blob, entry, data, num_attrs, found>>

-----------------------------------------------------------------------------
(* from_be_bytes.  Reading past the end would panic, and so would a type or *)
(* a Boolean that is none.                                                 *)

\* The names and the bytes of the schema, each behind its length.
DecodeEntry ==
    /\ stage = "Stored"
    /\ LET afterId == After(entry, 4)
           name    == Leading(After(afterId, 1), afterId[1])
           rest    == After(afterId, 1 + Len(name))
           file    == Leading(After(rest, 1), rest[1])
           schema  == After(rest, 1 + Len(file))
           bytes   == Leading(After(schema, 2), from_be_bytes(Leading(schema, 2)))
       IN  /\ found' = [id |-> from_be_bytes(Leading(entry, 4)), name |-> name,
                        file |-> file, attributes |-> <<>>]
           /\ num_attrs' = from_be_bytes(Leading(bytes, 4))
           /\ data' = After(bytes, 4)
    /\ stage' = "Decode"
    /\ UNCHANGED <<table, blob, entry>>

Decoding == stage = "Decode" /\ Len(found.attributes) < num_attrs

name_len == data[1]

\* Mutant: the byte of is_nullable is not counted.
ColumnLen_NoFlag == 2 + name_len

ColumnLen == 3 + name_len

ColumnReadable ==
    /\ data # <<>>
    /\ name_len + 3 <= Len(data)
    /\ data[name_len + 2] + 1 \in DOMAIN DataType
    /\ data[name_len + 3] \in {0, 1}

DecodeColumn ==
    /\ Decoding
    /\ ColumnReadable
    /\ found' = [found EXCEPT !.attributes =
                    Append(@, [name |-> SubSeq(data, 2, name_len + 1),
                               data_type |-> DataType[data[name_len + 2] + 1],
                               is_nullable |-> data[name_len + 3] = 1])]
    /\ data' = After(data, ColumnLen)
    /\ UNCHANGED <<table, stage, blob, entry, num_attrs>>

DecodeEnds ==
    /\ stage = "Decode" /\ Len(found.attributes) = num_attrs
    /\ stage' = "Open"
    /\ UNCHANGED <<table, blob, entry, data, num_attrs, found>>

-----------------------------------------------------------------------------
Encode == ColumnRefused \/ EncodeStarts \/ EncodeColumn \/ EncodeEntry \/ EntryRefused
Decode == DecodeEntry \/ DecodeColumn \/ DecodeEnds

Next == Encode \/ Decode

Spec == Init /\ [][Next]_codecVars

-----------------------------------------------------------------------------
(* Properties *)

\* A table is opened under the id, the names and the columns it was created
\* with: the readers' count of what they have read (from_be_bytes of the entry,
\* of the schema and of a column) is the writers', and no entry makes them panic.
SchemaSurvives ==
    /\ Decoding => ColumnReadable
    /\ stage \in {"Decode", "Open"} =>
          /\ found.id = table_id /\ found.name = table_name /\ found.file = file_name
          /\ IsPrefix(found.attributes, attributes)
          /\ stage = "Open" => found.attributes = attributes
=============================================================================
