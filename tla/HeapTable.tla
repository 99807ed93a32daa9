----------------------------- MODULE HeapTable -----------------------------
(***************************************************************************)
(* The heap file of one table: InsertExecutor (execution/insert.rs) and    *)
(* SeqScanExecutor (execution/seq_scan.rs) over the buffer pool.  Page 0   *)
(* holds the schema, the pages from 1 on hold rows.  A table remembers the *)
(* page it inserts into, in memory only.  One statement runs at a time; a  *)
(* statement is a loop, and each turn of it is one action.                 *)
(***************************************************************************)
EXTENDS Integers, Sequences, FiniteSetsExt

CONSTANTS
    Rows,         \* the records that are inserted
    RowSize,      \* their length in bytes
    Filters,      \* WHERE clauses: what each evaluates to on a row
    PageSize, HeaderSize, SlotSize,
    MaxPages,     \* bound: pages of the file
    MaxKills,     \* bound: how often the process is killed
    IOFaults      \* TRUE: a page may not be readable, or no frame free

ASSUME RowsAssumption   == RowSize \in [Rows -> Nat \ {0}]
ASSUME FiltersAssumption == Filters \subseteq [Rows -> {"True", "False", "Null", "Other"}]
ASSUME SizesAssumption  ==
    /\ {HeaderSize, PageSize, MaxKills} \subseteq Nat
    /\ MaxPages \in Nat \ {0, 1}
    /\ SlotSize \in Nat \ {0}
    /\ HeaderSize + SlotSize <= PageSize
ASSUME FaultsAssumption == IOFaults \in BOOLEAN

HeapPages == 1 .. MaxPages - 1
RecordId  == [page : 0 .. MaxPages - 1, slot : Nat]

VARIABLES
    num_pages,    \* pages of the file
    page,         \* the heap pages as the buffer pool has them
    disk,         \* the heap pages on disk
    current_heap_page,
    call,         \* the statement in progress
    out,          \* the rows a scan has found
    inserted,     \* history: the record ids handed out, the row and page of each
    unformatted,  \* history: blocks that were appended and never made a page
    kills         \* history: how often the process was killed

pageVars == <<num_pages, page, disk>>
history  == <<inserted, unformatted, kills>>
vars == <<pageVars, current_heap_page, call, out, history>>

Idle == [op |-> "Idle"]

\* An appended block reads as a heap page of page id 0 without records.
ZeroPage     == [page_id |-> 0, rows |-> <<>>]
BlankPage(n) == [page_id |-> n, rows |-> <<>>]

\* A table file has its heap page, or was left behind before it was made.
Init ==
    /\ num_pages \in {1, 2}
    /\ page = [n \in HeapPages |-> BlankPage(n)]
    /\ disk = [n \in HeapPages |-> ZeroPage]
    /\ current_heap_page = 1
    /\ call = Idle
    /\ out = <<>>
    /\ inserted = {}
    /\ unformatted = {}
    /\ kills = 0

-----------------------------------------------------------------------------
(* One page: see SlottedPage. *)

Bytes(rows) == MapThenSumSet(LAMBDA i : RowSize[rows[i]], DOMAIN rows)

Lowest(rows) == PageSize - Bytes(rows)

Underflows(rows, r) == RowSize[r] > Lowest(rows)

Fits(rows, r) ==
    Lowest(rows) - RowSize[r] >= HeaderSize + SlotSize * (Len(rows) + 1)

-----------------------------------------------------------------------------
(* insert_record *)

\* Mutant: the slot entry is not counted.
TooLarge_NoSlot(r) == RowSize[r] > PageSize - HeaderSize

TooLarge(r) == RowSize[r] > PageSize - HeaderSize - SlotSize

\* Err(RecordTooLarge) changes nothing.
InsertStarts(r) ==
    /\ call = Idle
    /\ ~ TooLarge(r)
    /\ call' = [op |-> "Insert", row |-> r, created |-> 0]
    /\ UNCHANGED <<pageVars, current_heap_page, out, history>>

Inserting == call.op = "Insert"

\* Mutant: the count of records is read when it has been raised.
Placed_NextSlot(pages, n) ==
    LET rid == [page |-> pages[n].page_id, slot |-> Len(pages[n].rows) + 1]
    IN  /\ page' = [pages EXCEPT ![n].rows = Append(@, call.row)]
        /\ inserted' = inserted \cup {[rid |-> rid, row |-> call.row, at |-> n]}
        /\ call' = Idle

\* The row is appended to page n; the id comes from the header of the page.
Placed(pages, n) ==
    LET rid == [page |-> pages[n].page_id, slot |-> Len(pages[n].rows)]
    IN  /\ page' = [pages EXCEPT ![n].rows = Append(@, call.row)]
        /\ inserted' = inserted \cup {[rid |-> rid, row |-> call.row, at |-> n]}
        /\ call' = Idle

InsertIntoCurrent ==
    /\ Inserting
    /\ current_heap_page < num_pages
    /\ ~ Underflows(page[current_heap_page].rows, call.row)
    /\ Fits(page[current_heap_page].rows, call.row)
    /\ Placed(page, current_heap_page)
    /\ UNCHANGED <<num_pages, disk, current_heap_page, out, unformatted, kills>>

\* create_page: the block is on disk at once, the page in the pool.
Created(pages) == [pages EXCEPT ![num_pages] = BlankPage(num_pages)]

NextPage ==
    /\ num_pages < MaxPages
    /\ num_pages' = num_pages + 1
    /\ disk' = [disk EXCEPT ![num_pages] = ZeroPage]

CreatesPage ==
    /\ NextPage
    /\ current_heap_page' = num_pages

\* Err(PageFull): handle_full_page, and once more.
PageFull ==
    /\ Inserting
    /\ current_heap_page < num_pages
    /\ ~ Underflows(page[current_heap_page].rows, call.row)
    /\ ~ Fits(page[current_heap_page].rows, call.row)
    /\ CreatesPage
    /\ page' = Created(page)
    /\ call' = [call EXCEPT !.created = @ + 1]
    /\ UNCHANGED <<out, history>>

\* get_page fails, whatever the reason: the row goes into a new page.
InsertIntoNew ==
    /\ Inserting
    /\ current_heap_page < num_pages => IOFaults
    /\ CreatesPage
    /\ IF Fits(<<>>, call.row)
          THEN Placed(Created(page), num_pages)
          ELSE /\ page' = Created(page)
               /\ call' = [call EXCEPT !.created = @ + 1]
               /\ UNCHANGED inserted
    /\ UNCHANGED <<out, unformatted, kills>>

\* create_page fails; the block may have been appended all the same.
InsertFails ==
    /\ IOFaults
    /\ Inserting
    /\ call' = Idle
    /\ \/ UNCHANGED <<pageVars, unformatted>>
       \/ /\ NextPage
          /\ page' = [page EXCEPT ![num_pages] = ZeroPage]
          /\ unformatted' = unformatted \cup {num_pages}
    /\ UNCHANGED <<current_heap_page, out, inserted, kills>>

-----------------------------------------------------------------------------
(* scan: the pages are counted when it starts. *)

ScanStarts(f) ==
    /\ call = Idle
    /\ call' = [op |-> "Scan", filter |-> f, page |-> 1, slot |-> 0, num_pages |-> num_pages]
    /\ out' = <<>>
    /\ UNCHANGED <<pageVars, current_heap_page, history>>

Scanning == call.op = "Scan" /\ call.page < call.num_pages

Scanned == page[call.page].rows

\* Mutant: a row that is filtered out ends the page.
ScanSkips_LeavesPage ==
    /\ Scanning
    /\ call.slot < Len(Scanned)
    /\ call.filter[Scanned[call.slot + 1]] \in {"False", "Null"}
    /\ call' = [call EXCEPT !.page = @ + 1, !.slot = 0]
    /\ UNCHANGED <<pageVars, current_heap_page, out, history>>

ScanSkips ==
    /\ Scanning
    /\ call.slot < Len(Scanned)
    /\ call.filter[Scanned[call.slot + 1]] \in {"False", "Null"}
    /\ call' = [call EXCEPT !.slot = @ + 1]
    /\ UNCHANGED <<pageVars, current_heap_page, out, history>>

ScanFinds ==
    /\ Scanning
    /\ call.slot < Len(Scanned)
    /\ call.filter[Scanned[call.slot + 1]] = "True"
    /\ call' = [call EXCEPT !.slot = @ + 1]
    /\ out' = Append(out, Scanned[call.slot + 1])
    /\ UNCHANGED <<pageVars, current_heap_page, history>>

\* The filter is no condition on this row (InvalidComparison), or the page is
\* not to be had.
ScanFails ==
    /\ Scanning
    /\ \/ IOFaults
       \/ /\ call.slot < Len(Scanned)
          /\ call.filter[Scanned[call.slot + 1]] = "Other"
    /\ call' = Idle
    /\ out' = <<>>
    /\ UNCHANGED <<pageVars, current_heap_page, history>>

ScanTurnsPage ==
    /\ Scanning
    /\ call.slot >= Len(Scanned)
    /\ call' = [call EXCEPT !.page = @ + 1, !.slot = 0]
    /\ UNCHANGED <<pageVars, current_heap_page, out, history>>

ScanEnds ==
    /\ call.op = "Scan"
    /\ call.page >= call.num_pages
    /\ call' = [op |-> "Found", filter |-> call.filter]
    /\ UNCHANGED <<pageVars, current_heap_page, out, history>>

ScanReturns ==
    /\ call.op = "Found"
    /\ call' = Idle
    /\ out' = <<>>
    /\ UNCHANGED <<pageVars, current_heap_page, history>>

-----------------------------------------------------------------------------
(* The pages reach the disk one by one, or all when the database is        *)
(* dropped.  A session begins with Table::open.                            *)

WriteBack(n) ==
    /\ n < num_pages
    /\ disk' = [disk EXCEPT ![n] = page[n]]
    /\ UNCHANGED <<num_pages, page, current_heap_page, call, out, history>>

\* Mutant: the first page is the one after the header.
Reopens_AtSchema ==
    /\ current_heap_page' = 0
    /\ call' = Idle
    /\ out' = <<>>

Reopens ==
    /\ current_heap_page' = 1
    /\ call' = Idle
    /\ out' = <<>>

\* Mutant: the pool is not flushed.
Drop_Unflushed ==
    /\ page' = disk
    /\ UNCHANGED <<num_pages, disk, history>>
    /\ Reopens

Drop ==
    /\ disk' = page
    /\ UNCHANGED <<num_pages, page, history>>
    /\ Reopens

Shutdown == call = Idle /\ Drop

\* A record longer than what lies below the last one: insert panics, and
\* unwinding drops the database.  (What an insert without overflow checks does
\* to the page before it panics is in SlottedPage.)
InsertPanics ==
    /\ Inserting
    /\ current_heap_page < num_pages
    /\ Underflows(page[current_heap_page].rows, call.row)
    /\ Drop

Kill ==
    /\ kills < MaxKills
    /\ kills' = kills + 1
    /\ page' = disk
    /\ inserted' = {i \in inserted : i.rid.slot < Len(disk[i.at].rows)}
    /\ unformatted' = {n \in 1 .. num_pages - 1 : disk[n].page_id = 0}
    /\ UNCHANGED <<num_pages, disk>>
    /\ Reopens

-----------------------------------------------------------------------------
Insert ==
    InsertIntoCurrent \/ PageFull \/ InsertIntoNew \/ InsertFails \/ InsertPanics

Scan == ScanSkips \/ ScanFinds \/ ScanFails \/ ScanTurnsPage \/ ScanEnds \/ ScanReturns

Next ==
    \/ \E r \in Rows : InsertStarts(r)
    \/ Insert
    \/ \E f \in Filters : ScanStarts(f)
    \/ Scan
    \/ \E n \in HeapPages : WriteBack(n)
    \/ Shutdown \/ Kill

Spec == Init /\ [][Next]_vars

-----------------------------------------------------------------------------
(* Properties *)

Page == [page_id : 0 .. MaxPages - 1, rows : Seq(Rows)]

\* The fields range over what the code declares.
TypeOK ==
    /\ num_pages \in 1 .. MaxPages
    /\ page \in [HeapPages -> Page]
    /\ disk \in [HeapPages -> Page]
    /\ current_heap_page \in HeapPages
    /\ call \in {Idle} \cup [op : {"Insert"}, row : Rows, created : Nat]
              \cup [op : {"Scan"}, filter : Filters, page : HeapPages \cup {MaxPages},
                    slot : Nat, num_pages : 1 .. MaxPages]
              \cup [op : {"Found"}, filter : Filters]
    /\ out \in Seq(Rows)
    /\ inserted \subseteq [rid : RecordId, row : Rows, at : HeapPages]
    /\ unformatted \subseteq HeapPages
    /\ kills \in 0 .. MaxKills

\* The places of the rows in the file, and their order.
Slots == UNION {{n} \X DOMAIN page[n].rows : n \in 1 .. num_pages - 1}

RowAt(p) == page[p[1]].rows[p[2]]

Before(p, q) == p[1] < q[1] \/ (p[1] = q[1] /\ p[2] < q[2])

\* A scan that ends well returns the rows the filter is true of, each as often
\* as the file holds it and in the order of the file: no page, no slot and no
\* row behind a filtered one is left out, whatever was created, evicted,
\* killed or failed before (next_tuple).
Matching == {p \in Slots : call.filter[RowAt(p)] = "True"}

ScanIsExact ==
    call.op = "Found" =>
        /\ Len(out) = Cardinality(Matching)
        /\ \A p \in Matching :
              out[Cardinality({q \in Matching : Before(q, p)}) + 1] = RowAt(p)

\* The record id an insert returned goes on to name that record, through later
\* inserts, new pages, restarts and kills it survived.  insert takes the page of
\* the id from the page's header.  In a block that was appended and never made a
\* page (create_page failed, or the process was killed before the page was
\* written back) the header is zeros, and the id says page 0, the schema's.
RidNamesRow ==
    \A i \in inserted :
        /\ i.rid.page = IF i.at \in unformatted THEN 0 ELSE i.at
        /\ i.rid.slot + 1 \in DOMAIN page[i.at].rows
        /\ page[i.at].rows[i.rid.slot + 1] = i.row

\* The loop of insert_record ends: an insert that goes on has created one page
\* at most.  The record fits on that one, or, if that page is not to be had, on
\* the next.
FewNewPages == Inserting => call.created <= 1

\* The table is a bag of rows that only a kill makes smaller.
RowCount == [r \in Rows |-> Cardinality({p \in Slots : RowAt(p) = r})]

Bag == INSTANCE RowBag WITH count <- RowCount

ImplementsRowBag == Bag!Spec
=============================================================================
