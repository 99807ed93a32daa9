--------------------------- MODULE ReopenedTable ---------------------------
(***************************************************************************)
(* A table from session to session: CREATE TABLE puts its columns into the *)
(* catalog page (SchemaCodec), a tuple of those columns becomes a record   *)
(* (TupleCodec), and the record is read under the columns that the next    *)
(* session finds in the catalog page (Database::open, Table::open).        *)
(***************************************************************************)
EXTENDS TupleCodec

CONSTANTS
    Columns, TableNames, Suffix, MaxId,   \* see SchemaCodec
    CatalogBits                           \* bits of a byte there

VARIABLES
    table_id, table_name, attributes, stage, blob, entry, data, num_attrs, found

catalogVars ==
    <<table_id, table_name, attributes, stage, blob, entry, data, num_attrs, found>>

Catalog == INSTANCE SchemaCodec WITH BitsPerByte <- CatalogBits

ASSUME CatalogAssumption == CatalogBits \in Nat \ {0} /\ Catalog!Assumptions

TypesOf(columns) == [k \in DOMAIN columns |-> columns[k].data_type]

\* The tables a session has under its own columns, and the tuples for them.
OpensNew ==
    /\ Catalog!Init
    /\ schema = TypesOf(attributes)
    /\ Init

CreateTable == Catalog!Encode /\ UNCHANGED vars

Writes ==
    /\ stage = "Stored"
    /\ phase # "Deserialize"
    /\ Next
    /\ UNCHANGED catalogVars

Read(columns) ==
    /\ schema' = TypesOf(columns)
    /\ pos' = div_ceil(Len(columns))
    /\ UNCHANGED <<caller, values, phase, i, header, variable, offset, bytes, decoded>>

\* The record is in the heap page; another session opens the table.
Reopens ==
    /\ phase = "Deserialize"
    /\ Catalog!Decode
    /\ IF stage' = "Open" THEN Read(found.attributes) ELSE UNCHANGED vars

Reads ==
    /\ stage = "Open"
    /\ Next
    /\ UNCHANGED catalogVars

NextSession == CreateTable \/ Writes \/ Reopens \/ Reads

Sessions == OpensNew /\ [][NextSession]_<<vars, catalogVars>>

SchemaSurvives == Catalog!SchemaSurvives
=============================================================================
