----------------------------- MODULE BufferPool -----------------------------
(***************************************************************************)
(* The buffer pool (src/src/buffer_pool.rs) over the block interface of    *)
(* the storage manager (src/src/storage.rs).  A frame caches one page; the *)
(* page table maps a page to its frame; a PageGuard pins a frame until it  *)
(* is dropped; the clock picks the frame to evict.  Every call runs to its *)
(* end before the next one starts (the pool is not Sync), so a call is one *)
(* action, and what interleaves are the lifetimes of the guards, which the *)
(* callers nest as they like.                                              *)
(***************************************************************************)
EXTENDS Pages, Sequences, FiniteSets

CONSTANTS
    NumFrames,    \* BufferPool::new(num_pages, ..)
    Holders,      \* places in the callers' code that hold a PageGuard
    IOFaults      \* TRUE: a read or write of the disk may fail with Err(Io)

ASSUME NumFramesAssumption == NumFrames \in Nat \ {0}
ASSUME IOFaultsAssumption  == IOFaults \in BOOLEAN
ASSUME HoldersAssumption   == IsFiniteSet(Holders)

Frames == 0 .. NumFrames - 1
Guard  == [page_id : PageId, frame : Frames]

ASSUME NoneIsNoFrame == None \notin Frames
ASSUME NoneIsNoGuard == None \notin Guard

VARIABLES
    pageId, pinCount, clockFlag, dirty,   \* FrameState of every frame
    data,         \* Frame.data, None while the buffer was never filled
    clockHand, freeFrames, pageTable,
    numPages,     \* PageFileFooter.num_pages of each open file
    disk,         \* the blocks on disk, None past the end of the file
    guard,        \* the guard of each holder, None if it holds none
    result        \* how the last call ended

frameVars == <<pageId, pinCount, clockFlag, dirty, data>>
clockVars == <<clockHand, freeFrames>>
diskVars  == <<numPages, disk>>
vars == <<frameVars, clockVars, pageTable, diskVars, guard, result>>

Outcomes == {"Ok", "Dropped", "Flushed", "PageCast", "PageNotFound",
             "NoPagesAvailable", "Unknown", "Io"}

Init ==
    /\ pageId     = [f \in Frames |-> None]
    /\ pinCount   = [f \in Frames |-> 0]
    /\ clockFlag  = [f \in Frames |-> FALSE]
    /\ dirty      = [f \in Frames |-> FALSE]
    /\ data       = [f \in Frames |-> None]
    /\ clockHand  = 0
    /\ freeFrames = [i \in 1 .. NumFrames |-> i - 1]
    /\ pageTable  = [p \in PageId |-> None]
    /\ numPages   = [file \in Files |-> 1]
    /\ disk       = [p \in PageId |-> IF p.page_num = 0
                                         THEN create_blank_page(0, "Catalog") ELSE None]
    /\ guard      = [h \in Holders |-> None]
    /\ result     = "Ok"

-----------------------------------------------------------------------------
(* Victim selection.  The clock walks at most four laps; an unpinned frame *)
(* loses its flag on the first visit and is taken on the first visit that  *)
(* finds the flag clear, which is the second lap at the latest.            *)

\* Mutant: the clock gives up after one lap.
Sweep_OneLap == 0 .. NumFrames - 1

Sweep == 0 .. 4 * NumFrames - 1

Visited(k) == (clockHand + k) % NumFrames

\* Mutant: the clock does not look at the pin count.
Selects_IgnoresPins(k) == clockFlag[Visited(k)] => k >= NumFrames

Selects(k) ==
    /\ pinCount[Visited(k)] = 0
    /\ clockFlag[Visited(k)] => k >= NumFrames

StopsAt(k) == Selects(k) /\ \A j \in 0 .. k - 1 : ~ Selects(j)

NoVictim == freeFrames = <<>> /\ \A k \in Sweep : ~ Selects(k)

\* Mutant: the hand is advanced without wrapping around.
SelectVictim_NoWrap(f) ==
    \/ /\ freeFrames # <<>>
       /\ f = freeFrames[Len(freeFrames)]
       /\ freeFrames' = SubSeq(freeFrames, 1, Len(freeFrames) - 1)
       /\ UNCHANGED clockHand
    \/ /\ freeFrames = <<>>
       /\ \E k \in Sweep : /\ StopsAt(k)
                           /\ f = Visited(k)
                           /\ clockHand' = Visited(k) + 1
       /\ UNCHANGED freeFrames

SelectVictim(f) ==
    \/ /\ freeFrames # <<>>
       /\ f = freeFrames[Len(freeFrames)]
       /\ freeFrames' = SubSeq(freeFrames, 1, Len(freeFrames) - 1)
       /\ UNCHANGED clockHand
    \/ /\ freeFrames = <<>>
       /\ \E k \in Sweep : /\ StopsAt(k)
                           /\ f = Visited(k)
                           /\ clockHand' = (clockHand + k + 1) % NumFrames
       /\ UNCHANGED freeFrames

\* The flags the walk leaves behind.
Swept(f) ==
    /\ freeFrames = <<>>
    /\ pinCount[f] = 0
    /\ \E k \in Sweep : Visited(k) = f /\ \A j \in 0 .. k - 1 : ~ Selects(j)

SweptFlags == [f \in Frames |-> clockFlag[f] /\ ~ Swept(f)]

(* Eviction.  The page table loses whatever entry the page of the frame    *)
(* has before the write-back is attempted.                                 *)

\* Mutant: the entry of the evicted page stays in the table.
Unmapped_Stays(f) == pageTable

Unmapped(f) == IF pageId[f] = None
                  THEN pageTable ELSE [pageTable EXCEPT ![pageId[f]] = None]

\* Mutant: a dirty frame is evicted without a write.
WriteBack_Skipped(blocks, f) == blocks

WriteBack(blocks, f) == IF pageId[f] # None /\ dirty[f]
                           THEN [blocks EXCEPT ![pageId[f]] = data[f]] ELSE blocks

WriteBackFails(f) == IOFaults /\ pageId[f] # None /\ dirty[f]

-----------------------------------------------------------------------------
(* get_page *)

Allocated(p) == p.page_num < numPages[p.file_id]

GetPageHit(h, p) ==
    /\ guard[h] = None
    /\ pageTable[p] # None
    /\ LET f == pageTable[p] IN
          /\ pinCount'  = [pinCount EXCEPT ![f] = @ + 1]
          /\ clockFlag' = [clockFlag EXCEPT ![f] = TRUE]
          /\ guard'     = [guard EXCEPT ![h] = [page_id |-> p, frame |-> f]]
    /\ result' = "Ok"
    /\ UNCHANGED <<pageId, dirty, data, clockVars, pageTable, diskVars>>

GetPageLoad(h, p) ==
    /\ guard[h] = None
    /\ pageTable[p] = None
    /\ Allocated(p)
    /\ \E f \in Frames :
          /\ SelectVictim(f)
          /\ disk'      = WriteBack(disk, f)
          /\ pageTable' = [Unmapped(f) EXCEPT ![p] = f]
          /\ pageId'    = [pageId EXCEPT ![f] = p]
          /\ pinCount'  = [pinCount EXCEPT ![f] = 1]
          /\ clockFlag' = [SweptFlags EXCEPT ![f] = TRUE]
          /\ dirty'     = [dirty EXCEPT ![f] = FALSE]
          /\ data'      = [data EXCEPT ![f] = WriteBack(disk, f)[p]]
          /\ guard'     = [guard EXCEPT ![h] = [page_id |-> p, frame |-> f]]
    /\ result' = "Ok"
    /\ UNCHANGED numPages

\* Mutants of GiveUp: the failed read keeps the pin, or the page of the frame.
GiveUp_KeepsPin(f, p) ==
    /\ pageTable' = Unmapped(f)
    /\ pageId'    = [pageId EXCEPT ![f] = None]
    /\ pinCount'  = [pinCount EXCEPT ![f] = 1]
    /\ dirty'     = [dirty EXCEPT ![f] = FALSE]

GiveUp_KeepsPage(f, p) ==
    /\ pageTable' = Unmapped(f)
    /\ pageId'    = [pageId EXCEPT ![f] = p]
    /\ pinCount'  = [pinCount EXCEPT ![f] = 0]
    /\ dirty'     = [dirty EXCEPT ![f] = FALSE]

\* A read that fails takes back the pin, the table entry and the page.
GiveUp(f, p) ==
    /\ pageTable' = [Unmapped(f) EXCEPT ![p] = None]
    /\ pageId'    = [pageId EXCEPT ![f] = None]
    /\ pinCount'  = [pinCount EXCEPT ![f] = 0]
    /\ dirty'     = [dirty EXCEPT ![f] = FALSE]

\* The block is not there, or cannot be read: the frame is left without a
\* page, off the free list, its flag set.  (What a failed read leaves in the
\* buffer is never looked at.)
GetPageReadFails(h, p) ==
    /\ guard[h] = None
    /\ pageTable[p] = None
    /\ Allocated(p) => IOFaults
    /\ \E f \in Frames :
          /\ SelectVictim(f)
          /\ disk'      = WriteBack(disk, f)
          /\ clockFlag' = [SweptFlags EXCEPT ![f] = TRUE]
          /\ GiveUp(f, p)
    /\ result' = IF Allocated(p) THEN "Io" ELSE "PageNotFound"
    /\ UNCHANGED <<data, numPages, guard>>

\* evict_page returns early: the frame keeps its page and stays dirty, but
\* the page table no longer knows it.
GetPageEvictFails(h, p) ==
    /\ guard[h] = None
    /\ pageTable[p] = None
    /\ \E f \in Frames :
          /\ SelectVictim(f)
          /\ WriteBackFails(f)
          /\ pageTable' = Unmapped(f)
    /\ clockFlag' = SweptFlags
    /\ result' = "Io"
    /\ UNCHANGED <<pageId, pinCount, dirty, data, diskVars, guard>>

GetPageRefused(h, p) ==
    /\ guard[h] = None
    /\ pageTable[p] = None
    /\ NoVictim
    /\ clockHand' = (clockHand + 4 * NumFrames) % NumFrames
    /\ clockFlag' = SweptFlags
    /\ result' = "NoPagesAvailable"
    /\ UNCHANGED <<pageId, pinCount, dirty, data, freeFrames, pageTable, diskVars, guard>>

-----------------------------------------------------------------------------
(* create_page: the block is appended before the frame is evicted. *)

NextPage(file) == [file_id |-> file, page_num |-> numPages[file]]

Appended(file) == [disk EXCEPT ![NextPage(file)] = ZeroBlock]

CreatePage(h, file, kind) ==
    /\ guard[h] = None
    /\ numPages[file] < MaxPages
    /\ \E f \in Frames :
          /\ SelectVictim(f)
          /\ disk'      = WriteBack(Appended(file), f)
          /\ pageTable' = [Unmapped(f) EXCEPT ![NextPage(file)] = f]
          /\ pageId'    = [pageId EXCEPT ![f] = NextPage(file)]
          /\ pinCount'  = [pinCount EXCEPT ![f] = @ + 1]
          /\ clockFlag' = [SweptFlags EXCEPT ![f] = TRUE]
          /\ dirty'     = [dirty EXCEPT ![f] = TRUE]
          /\ data'      = [data EXCEPT ![f] = create_blank_page(numPages[file], kind)]
          /\ guard'     = [guard EXCEPT ![h] = [page_id |-> NextPage(file), frame |-> f]]
    /\ numPages' = [numPages EXCEPT ![file] = @ + 1]
    /\ result' = "Ok"

\* append_empty_block fails before (the block) or after (the footer) the
\* page is counted; a frame taken from the free list does not go back.
CreatePageAppendFails(h, file) ==
    /\ IOFaults
    /\ guard[h] = None
    /\ numPages[file] < MaxPages
    /\ \E f \in Frames : SelectVictim(f)
    /\ clockFlag' = SweptFlags
    /\ \/ UNCHANGED diskVars
       \/ /\ disk' = Appended(file)
          /\ numPages' = [numPages EXCEPT ![file] = @ + 1]
    /\ result' = "Io"
    /\ UNCHANGED <<pageId, pinCount, dirty, data, pageTable, guard>>

CreatePageEvictFails(h, file) ==
    /\ guard[h] = None
    /\ numPages[file] < MaxPages
    /\ \E f \in Frames :
          /\ SelectVictim(f)
          /\ WriteBackFails(f)
          /\ pageTable' = Unmapped(f)
    /\ clockFlag' = SweptFlags
    /\ disk' = Appended(file)
    /\ numPages' = [numPages EXCEPT ![file] = @ + 1]
    /\ result' = "Io"
    /\ UNCHANGED <<pageId, pinCount, dirty, data, guard>>

CreatePageRefused(h) ==
    /\ guard[h] = None
    /\ NoVictim
    /\ clockHand' = (clockHand + 4 * NumFrames) % NumFrames
    /\ clockFlag' = SweptFlags
    /\ result' = "Unknown"
    /\ UNCHANGED <<pageId, pinCount, dirty, data, freeFrames, pageTable, diskVars, guard>>

-----------------------------------------------------------------------------
(* What a holder does with its guard. *)

\* cast_write marks the frame dirty before it looks at the kind of the page.
Write(h, kind, body) ==
    /\ guard[h] # None
    /\ LET f == guard[h].frame IN
          /\ dirty' = [dirty EXCEPT ![f] = TRUE]
          /\ IF data[f].kind = kind
                THEN data' = [data EXCEPT ![f].body = body] /\ result' = "Ok"
                ELSE UNCHANGED data /\ result' = "PageCast"
    /\ UNCHANGED <<pageId, pinCount, clockFlag, clockVars, pageTable, diskVars, guard>>

DropGuard(h) ==
    /\ guard[h] # None
    /\ pinCount' = [pinCount EXCEPT ![guard[h].frame] = @ - 1]
    /\ guard' = [guard EXCEPT ![h] = None]
    /\ result' = "Dropped"
    /\ UNCHANGED <<pageId, clockFlag, dirty, data, clockVars, pageTable, diskVars>>

(* flush_all writes the dirty frames in frame order and clears no flag.    *)

\* Mutant: the loop leaves out the last frame.
LastWriter_OffByOne(f, n, p) ==
    /\ f < n - 1 /\ dirty[f] /\ pageId[f] = p
    /\ \A g \in Frames : f < g /\ g < n - 1 => ~ (dirty[g] /\ pageId[g] = p)

\* Among the frames below n, f is the last that holds unwritten data of p.
LastWriter(f, n, p) ==
    /\ f < n /\ dirty[f] /\ pageId[f] = p
    /\ \A g \in Frames : f < g /\ g < n => ~ (dirty[g] /\ pageId[g] = p)

\* The disk after the frames below n are written.
Flushed(n) ==
    [p \in PageId |->
        IF \E f \in Frames : LastWriter(f, n, p)
           THEN data[CHOOSE f \in Frames : LastWriter(f, n, p)] ELSE disk[p]]

FlushAll ==
    /\ disk' = Flushed(NumFrames)
    /\ result' = "Flushed"
    /\ UNCHANGED <<frameVars, clockVars, pageTable, numPages, guard>>

FlushAllFails ==
    /\ IOFaults
    /\ \E n \in Frames : dirty[n] /\ disk' = Flushed(n)
    /\ result' = "Io"
    /\ UNCHANGED <<frameVars, clockVars, pageTable, numPages, guard>>

-----------------------------------------------------------------------------
GetPage(h, p) ==
    \/ GetPageHit(h, p)
    \/ GetPageLoad(h, p)
    \/ GetPageReadFails(h, p)
    \/ GetPageEvictFails(h, p)
    \/ GetPageRefused(h, p)

Next ==
    \/ \E h \in Holders :
          \/ \E p \in PageId : GetPage(h, p)
          \/ \E file \in Files, kind \in PageKind : CreatePage(h, file, kind)
          \/ \E file \in Files : CreatePageAppendFails(h, file)
          \/ \E file \in Files : CreatePageEvictFails(h, file)
          \/ CreatePageRefused(h)
          \/ \E kind \in PageKind, body \in Bodies : Write(h, kind, body)
          \/ DropGuard(h)
    \/ FlushAll
    \/ FlushAllFails

Spec == Init /\ [][Next]_vars
-----------------------------------------------------------------------------
(* Properties.  The first group holds whatever the disk does. *)

TypeOK ==
    /\ pageId \in [Frames -> PageId \cup {None}]
    /\ pinCount \in [Frames -> Nat]
    /\ clockFlag \in [Frames -> BOOLEAN]
    /\ dirty \in [Frames -> BOOLEAN]
    /\ data \in [Frames -> Block \cup {None}]
    /\ clockHand \in Frames
    /\ freeFrames \in Seq(Frames)
    /\ pageTable \in [PageId -> Frames \cup {None}]
    /\ numPages \in [Files -> 1 .. MaxPages]
    /\ disk \in [PageId -> Block \cup {None}]
    /\ guard \in [Holders -> Guard \cup {None}]
    /\ result \in Outcomes

GuardsOn(f) == {h \in Holders : guard[h] # None /\ guard[h].frame = f}

\* The pin count of a frame is the number of guards on it: no path through
\* get_page or create_page leaks or loses a pin.
PinsCountGuards == \A f \in Frames : pinCount[f] = Cardinality(GuardsOn(f))

\* The frame under a guard holds the page the guard was asked for, until the
\* guard is dropped: no eviction reuses a frame somebody looks at.
GuardKeepsPage ==
    \A h \in Holders : guard[h] # None => pageId[guard[h].frame] = guard[h].page_id

\* flush_all unwraps the page of every dirty frame.
DirtyFrameHasPage == \A f \in Frames : dirty[f] => pageId[f] # None

\* The free list only ever shrinks, and what is on it was never used: a
\* victim taken from it evicts nothing.
FreeFramesUnused ==
    \A i \in 1 .. Len(freeFrames) :
        LET f == freeFrames[i] IN
           pageId[f] = None /\ pinCount[f] = 0 /\ ~ clockFlag[f]

\* Four laps suffice: a caller is turned away only when every frame is pinned.
RefusedOnlyWhenAllPinned ==
    result \in {"NoPagesAvailable", "Unknown"} => \A f \in Frames : pinCount[f] > 0

\* A mapped page sits in the frame the table names.
TableNamesFrame ==
    \A p \in PageId : pageTable[p] # None => pageId[pageTable[p]] = p

\* What a failing disk cannot do.  A write-back that fails leaves its frame with
\* a page that is in the table no more (evict_page): the page is read again from
\* its old block, and the frame is written over it later, so that changes may be
\* lost.  But every block, on disk and in a frame, is a block of its own page, or
\* one that was appended and is not written yet; one page never gets another's.
OfPage(block, p) == block # None /\ block.page_id \in {p.page_num, ZeroBlock.page_id}

BlocksKeepTheirPage ==
    /\ \A p \in PageId : disk[p] # None => OfPage(disk[p], p)
    /\ \A f \in Frames : pageId[f] # None => OfPage(data[f], pageId[f])

-----------------------------------------------------------------------------
(* The second group needs a disk that does not fail. *)

\* Asking for a page somebody holds is a cache hit on the same frame: two
\* holders of one page never look at two copies.
GuardedPageIsMapped ==
    \A h \in Holders : guard[h] # None => pageTable[guard[h].page_id] = guard[h].frame

\* Every frame with a page is in the table: no copy of a page is orphaned.
FrameIsMapped ==
    \A f \in Frames : pageId[f] # None => pageTable[pageId[f]] = f

\* A frame that is not dirty can be dropped without a write: the disk has
\* the same block.
CleanFrameIsOnDisk ==
    \A f \in Frames : pageId[f] # None /\ ~ dirty[f] => data[f] = disk[pageId[f]]

\* The content of page p as the callers know it.
View(p) == IF pageTable[p] # None THEN data[pageTable[p]] ELSE disk[p]

\* After flush_all returned Ok the disk alone has every page.
FlushedIsDurable == result = "Flushed" => \A p \in PageId : disk[p] = View(p)

Store == INSTANCE PageStore WITH pages <- [p \in PageId |-> View(p)]

\* Caching, eviction and write-back are invisible to the callers.
ImplementsPageStore == Store!Spec
=============================================================================
