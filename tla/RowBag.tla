------------------------------- MODULE RowBag -------------------------------
(***************************************************************************)
(* What a table promises: it holds every row as often as it was inserted.  *)
(* Rows disappear only when the process is killed.                         *)
(***************************************************************************)
EXTENDS Naturals

CONSTANT Rows

VARIABLES
    count,      \* how often the table holds a row
    kills       \* how often the process was killed

Init == count = [r \in Rows |-> 0] /\ kills = 0

Insert == \E r \in Rows : count' = [count EXCEPT ![r] = @ + 1] /\ UNCHANGED kills

Kill ==
    /\ kills' = kills + 1
    /\ DOMAIN count' = Rows
    /\ \A r \in Rows : count'[r] <= count[r]

Next == Insert \/ Kill

Spec == Init /\ [][Next]_<<count, kills>>
=============================================================================
