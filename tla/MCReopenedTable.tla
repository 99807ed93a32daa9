--------------------------- MODULE MCReopenedTable ---------------------------
(***************************************************************************)
(* ReopenedTable for TLC: strings of no, one and three bytes; columns of   *)
(* three types with names of several lengths, one too long for a byte of   *)
(* three bits, and a table name whose file name is.                        *)
(***************************************************************************)
EXTENDS ReopenedTable

MCStrings == {<<>>, <<1>>, <<3, 0, 2>>}

Column(name, data_type, is_nullable) ==
    [name |-> name, data_type |-> data_type, is_nullable |-> is_nullable]

MCColumns ==
    {Column(<<5>>, "Int", FALSE), Column(<<1, 2, 3, 4, 5, 6, 7>>, "Boolean", TRUE),
     Column(<<>>, "VarChar", TRUE), Column(<<1, 2, 3, 4, 5, 6, 7, 0>>, "VarChar", FALSE)}

MCTableNames == {<<2>>, <<1, 1, 1, 1, 1, 1, 1>>}

MCSuffix == <<6>>
=============================================================================
