---------------------------- MODULE MCHeapTable ----------------------------
(***************************************************************************)
(* HeapTable for TLC: a page of 30 bytes has room for two short rows, or a *)
(* short and a long one.  The two filters give every answer between them.  *)
(***************************************************************************)
EXTENDS HeapTable

MCRows == {"short", "long", "huge"}

MCRowSize ==
    [r \in MCRows |-> CASE r = "short" -> 8 [] r = "long" -> 12 [] r = "huge" -> 25]

MCFilters ==
    {[r \in MCRows |-> IF r = "long" THEN "True" ELSE "False"],
     [r \in MCRows |-> IF r = "long" THEN "Other" ELSE "Null"]}
=============================================================================
