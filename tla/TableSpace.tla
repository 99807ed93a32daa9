----------------------------- MODULE TableSpace -----------------------------
(***************************************************************************)
(* What a database promises its clients: named tables, created once, each  *)
(* with the rows that were inserted under its name.                        *)
(***************************************************************************)
CONSTANTS
    Names,      \* names of tables
    Rows        \* rows a client may insert

VARIABLES
    created,    \* the names that have a table
    rows        \* the rows of each name

Init == created = {} /\ rows = [n \in Names |-> {}]

Create(n) == n \notin created /\ created' = created \cup {n} /\ UNCHANGED rows

Insert(n, r) ==
    /\ n \in created
    /\ rows' = [rows EXCEPT ![n] = @ \cup {r}]
    /\ UNCHANGED created

Next == \E n \in Names : Create(n) \/ \E r \in Rows : Insert(n, r)

Spec == Init /\ [][Next]_<<created, rows>>
=============================================================================
