------------------------------- MODULE Pages -------------------------------
(***************************************************************************)
(* The vocabulary of the storage layers: page identifiers, page kinds and  *)
(* what a block of a page file decodes to (src/src/page, src/src/ids.rs).  *)
(* The bytes behind a slot array are one value of Bodies: two blocks with  *)
(* the same header and the same entries are the same block.                *)
(***************************************************************************)
EXTENDS Integers

CONSTANTS
    Files,        \* the open page files (FileId)
    MaxPages,     \* bound: pages a file may grow to
    Bodies,       \* what the slot array of a page may hold
    EmptyBody,    \* the slot array without entries
    None          \* Option::None

ASSUME MaxPagesAssumption == MaxPages \in Nat \ {0}
ASSUME BodiesAssumption   == EmptyBody \in Bodies

PageNums == 0 .. MaxPages - 1
PageId   == [file_id : Files, page_num : PageNums]
PageKind == {"Heap", "Catalog"}

\* A block as its header decodes it.
Block == [page_id : PageNums, kind : PageKind, body : Bodies]

ASSUME NoneIsNoPage  == None \notin PageId
ASSUME NoneIsNoBlock == None \notin Block

create_blank_page(n, kind) == [page_id |-> n, kind |-> kind, body |-> EmptyBody]

\* Eight thousand zero bytes read as page 0, kind byte 0, no entries.
ZeroBlock == [page_id |-> 0, kind |-> "Heap", body |-> EmptyBody]
=============================================================================
