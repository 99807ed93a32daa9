----------------------------- MODULE TupleCodec -----------------------------
(***************************************************************************)
(* How a tuple becomes a record and a tuple again: Tuple::serialize and    *)
(* Tuple::deserialize, TupleRef::get_attr, and the checks an INSERT makes  *)
(* before and after (src/src/tables.rs, execution/executor.rs).  A record  *)
(* is a header (null bitmap, then fixed-width values and the offset and    *)
(* length of the others) with the bytes of the strings behind it.  A step  *)
(* is a turn of one of the loops over the columns.                         *)
(* Few columns fill a byte of the bitmap, see ByteStrings.                 *)
(***************************************************************************)
EXTENDS ByteStrings

CONSTANTS
    DataTypes,     \* of the columns
    Numbers,       \* values of an INT, bit patterns of a FLOAT
    Strings,       \* byte sequences: values of a VARCHAR or BLOB
    MaxColumns,    \* bound: columns of a table
    MaxRecord      \* the longest record insert_record takes

ASSUME TypesAssumption   == DataTypes \subseteq {"Int", "Float", "Boolean", "VarChar", "Blob"}
ASSUME NumbersAssumption == Numbers \subseteq UInt(4)
ASSUME StringsAssumption == \A s \in Strings : s \in Seq(UInt(1))
ASSUME BoundsAssumption  == MaxColumns \in Nat /\ MaxRecord \in UInt(2)

IsVariable(type) == type \in {"VarChar", "Blob"}

ValuesOf(type) ==
    [type : {type}, v : IF IsVariable(type) THEN Strings
                        ELSE IF type = "Boolean" THEN {0, 1} ELSE Numbers]

Null  == [type |-> "Null", v |-> 0]
Value == (UNION {ValuesOf(type) : type \in DataTypes}) \cup {Null}

UpTo(n, S) == UNION {[1 .. k -> S] : k \in 1 .. n}

VARIABLES
    caller,      \* "Insert": a statement; "Library": whoever has a Tuple
    schema,      \* the types of the columns
    values,      \* the tuple
    phase,
    i,           \* the column in turn
    header,      \* header_bytes
    variable,    \* variable_bytes
    offset,      \* variable_byte_offset
    bytes,       \* the record
    pos,
    decoded      \* the values deserialize has pushed

tuple == <<caller, schema, values>>
vars == <<tuple, phase, i, header, variable, offset, bytes, pos, decoded>>

-----------------------------------------------------------------------------
(* The header of a record. *)

size(type) == IF type = "Boolean" THEN 1 ELSE 4

div_ceil(n) == (n + BitsPerByte - 1) \div BitsPerByte

\* Mutant: the shift is one too far.
Bit_TooFar(idx) == Shifted[BitsPerByte - (idx % BitsPerByte)]

\* The bit of column idx, counted from 0, in its byte of the bitmap.
Bit(idx) == Shifted[BitsPerByte - 1 - (idx % BitsPerByte)]

\* The bits of the first n columns.
NullBits[n \in 0 .. Len(values)] ==
    IF n = 0 THEN [k \in 1 .. div_ceil(Len(values)) |-> 0]
    ELSE IF values[n] = Null
            THEN [NullBits[n - 1] EXCEPT ![(n - 1) \div BitsPerByte + 1] = @ + Bit(n - 1)]
            ELSE NullBits[n - 1]

gen_null_bitmap == NullBits[Len(values)]

is_value_null(idx) ==
    (bytes[idx \div BitsPerByte + 1] \div Bit(idx)) % 2 = 1

\* The bytes of the first n values.  NULL has none here, and those of its column
\* where it is written.
ValueBytes[n \in 0 .. Len(values)] ==
    IF n = 0 THEN 0
    ELSE ValueBytes[n - 1] + (IF values[n] = Null THEN 0 ELSE size(values[n].type))

\* Mutant: the bitmap is not counted.
header_size_NoBitmap == ValueBytes[Len(values)]

header_size == div_ceil(Len(values)) + ValueBytes[Len(values)]

\* What a column of this type holds at p (a position from 0); the read panics
\* if it is not in the record.
Pair(p, k) == from_be_bytes(SubSeq(bytes, p + 2 * k - 1, p + 2 * k))

Readable(p, type) ==
    /\ p + size(type) <= Len(bytes)
    /\ IsVariable(type) => Pair(p, 1) + Pair(p, 2) <= Len(bytes)

ValueAt(p, type) ==
    [type |-> type,
     v |-> IF IsVariable(type)
              THEN SubSeq(bytes, Pair(p, 1) + 1, Pair(p, 1) + Pair(p, 2))
              ELSE from_be_bytes(SubSeq(bytes, p + 1, p + size(type)))]

\* The bytes of the first n columns.
ColumnBytes[n \in 0 .. Len(schema)] ==
    IF n = 0 THEN 0 ELSE ColumnBytes[n - 1] + size(schema[n])

\* Mutant: a byte of bitmap, however many columns there are.
attr_pos_OneByte(idx) == 1 + ColumnBytes[idx]

\* get_attr does not look at the bitmap.
attr_pos(idx) == div_ceil(Len(schema)) + ColumnBytes[idx]

-----------------------------------------------------------------------------
(* The INSERT's check, column by column: the type of NULL is unwrapped.    *)

FitsColumn(k) == values[k].type = schema[k]

is_valid_tuple == Len(values) = Len(schema) /\ \A k \in DOMAIN schema : FitsColumn(k)

\* The column at which the check comes to a NULL before a wrong type.
CheckPanics ==
    /\ Len(values) = Len(schema)
    /\ \E k \in DOMAIN schema : values[k] = Null /\ \A j \in 1 .. k - 1 : FitsColumn(j)

\* The library serializes what it is given; its callers keep to the schema.
Init ==
    /\ caller \in {"Insert", "Library"}
    /\ schema \in UpTo(MaxColumns, DataTypes)
    /\ values \in UpTo(MaxColumns, Value)
    /\ caller = "Library" =>
          Len(values) = Len(schema) /\ \A k \in DOMAIN schema : FitsColumn(k) \/ values[k] = Null
    /\ phase = "Check"
    /\ i = 1
    /\ header = <<>> /\ variable = <<>> /\ bytes = <<>> /\ decoded = <<>>
    /\ offset = 0
    /\ pos = 0

Checked(next) ==
    /\ phase' = next
    /\ UNCHANGED <<tuple, i, header, variable, offset, bytes, pos, decoded>>

Rejects == phase = "Check" /\ caller = "Insert" /\ ~ is_valid_tuple /\ ~ CheckPanics /\ Checked("Rejected")

CheckFails == phase = "Check" /\ caller = "Insert" /\ CheckPanics /\ Checked("NullPanics")

-----------------------------------------------------------------------------
(* serialize *)

SerializeStarts ==
    /\ phase = "Check"
    /\ caller = "Insert" => is_valid_tuple
    /\ phase' = "Serialize"
    /\ header' = gen_null_bitmap
    /\ offset' = header_size
    /\ UNCHANGED <<tuple, i, variable, bytes, pos, decoded>>

Serializing == phase = "Serialize" /\ i <= Len(values)

SerializeFixed ==
    /\ Serializing
    /\ values[i] # Null /\ ~ IsVariable(values[i].type)
    /\ header' = header \o to_be_bytes(values[i].v, size(values[i].type))
    /\ i' = i + 1
    /\ UNCHANGED <<tuple, phase, variable, offset, bytes, pos, decoded>>

\* The casts to u16 keep the low bytes.
SerializeVariable ==
    /\ Serializing
    /\ IsVariable(values[i].type)
    /\ LET len == Len(values[i].v)
       IN  /\ header' = header \o to_be_bytes(offset, 2) \o to_be_bytes(len, 2)
           /\ offset' = offset + len
    /\ variable' = variable \o values[i].v
    /\ i' = i + 1
    /\ UNCHANGED <<tuple, phase, bytes, pos, decoded>>

SerializeNull ==
    /\ Serializing
    /\ values[i] = Null
    /\ header' = header \o to_be_bytes(0, size(schema[i]))
    /\ i' = i + 1
    /\ UNCHANGED <<tuple, phase, variable, offset, bytes, pos, decoded>>

Serialized == phase = "Serialize" /\ i > Len(values)

\* insert_record refuses a record that is too long.
RecordTooLarge ==
    /\ Serialized
    /\ caller = "Insert" /\ Len(header) + Len(variable) > MaxRecord
    /\ phase' = "TooLarge"
    /\ UNCHANGED <<tuple, i, header, variable, offset, bytes, pos, decoded>>

SerializeEnds ==
    /\ Serialized
    /\ caller = "Insert" => Len(header) + Len(variable) <= MaxRecord
    /\ phase' = "Deserialize"
    /\ bytes' = header \o variable
    /\ pos' = div_ceil(Len(schema))
    /\ i' = 1
    /\ UNCHANGED <<tuple, header, variable, offset, decoded>>

-----------------------------------------------------------------------------
(* deserialize *)

Deserializing == phase = "Deserialize" /\ i <= Len(schema)

Pushed(value) ==
    /\ decoded' = Append(decoded, value)
    /\ pos' = pos + size(schema[i])
    /\ i' = i + 1
    /\ UNCHANGED <<tuple, phase, header, variable, offset, bytes>>

DeserializeNull == Deserializing /\ is_value_null(i - 1) /\ Pushed(Null)

\* A read outside the record would panic.  (It does not happen: RoundTrips.)
DeserializeValue ==
    /\ Deserializing
    /\ ~ is_value_null(i - 1)
    /\ Readable(pos, schema[i])
    /\ Pushed(ValueAt(pos, schema[i]))

DeserializeEnds ==
    /\ phase = "Deserialize" /\ i > Len(schema)
    /\ phase' = "Done"
    /\ UNCHANGED <<tuple, i, header, variable, offset, bytes, pos, decoded>>

-----------------------------------------------------------------------------
Next ==
    \/ Rejects \/ CheckFails
    \/ SerializeStarts \/ SerializeFixed \/ SerializeVariable \/ SerializeNull
    \/ RecordTooLarge \/ SerializeEnds
    \/ DeserializeNull \/ DeserializeValue \/ DeserializeEnds

Spec == Init /\ [][Next]_vars

-----------------------------------------------------------------------------
(* Properties *)

\* The variables hold what their types say; a byte is a byte.
TypeOK ==
    /\ caller \in {"Insert", "Library"}
    /\ schema \in Seq(DataTypes)
    /\ phase \in {"Check", "Rejected", "NullPanics", "Serialize", "TooLarge",
                  "Deserialize", "Done"}
    /\ i \in 1 .. MaxColumns + 1
    /\ {header, variable, bytes} \subseteq Seq(UInt(1))
    /\ {offset, pos} \subseteq Nat
    /\ \A k \in DOMAIN decoded :
          decoded[k] # Null =>
              /\ decoded[k].type = schema[k]
              /\ IF IsVariable(schema[k]) THEN decoded[k].v \in Seq(UInt(1))
                                          ELSE decoded[k].v \in UInt(4)

\* serialize counts the header too short by the columns that are NULL, so that
\* the offset of every string is too small; and it cuts offsets to a u16.
OffsetsAreRight ==
    /\ Len(bytes) \in UInt(2)
    /\ (\E k \in DOMAIN values : values[k] = Null)
          => \A k \in DOMAIN values : ~ IsVariable(values[k].type)

\* No record makes deserialize panic, whatever offsets it holds.  A record gives
\* back the tuple it was made of, value by value: every record a statement has
\* stored, and any that a caller of the library makes as long as no NULL is
\* next to a string and the record is not longer than a u16 counts (serialize,
\* deserialize).
RoundTrips ==
    /\ Deserializing => is_value_null(i - 1) \/ Readable(pos, schema[i])
    /\ phase \in {"Deserialize", "Done"} /\ (caller = "Insert" \/ OffsetsAreRight)
          => /\ IsPrefix(decoded, values)
             /\ phase = "Done" => decoded = values

\* A filter and a projection see the values SELECT * sees: get_attr finds in a
\* stored record the value that deserialize finds, in every column.
AttrsAgree ==
    phase = "Deserialize" /\ caller = "Insert" =>
        \A idx \in 0 .. Len(schema) - 1 :
            /\ Readable(attr_pos(idx), schema[idx + 1])
            /\ ValueAt(attr_pos(idx), schema[idx + 1]) = values[idx + 1]
=============================================================================
