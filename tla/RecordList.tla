----------------------------- MODULE RecordList -----------------------------
(***************************************************************************)
(* What a slotted page promises its callers: it is a list of records that  *)
(* only grows.  A slot number, once returned by insert, names the bytes    *)
(* that were inserted for as long as the page exists.                      *)
(***************************************************************************)
EXTENDS Sequences

CONSTANT Payloads   \* the byte strings a record may be

VARIABLE records    \* what get_slot answers, slot by slot

Init == records = <<>>

Insert == \E bytes \in Payloads : records' = Append(records, bytes)

Spec == Init /\ [][Insert]_records
=============================================================================
