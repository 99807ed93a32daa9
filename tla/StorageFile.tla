---------------------------- MODULE StorageFile ----------------------------
(***************************************************************************)
(* One page file of the storage manager (src/src/storage.rs), system call  *)
(* by system call.  The blocks of the file are followed by a footer of 16  *)
(* bytes that holds the number of blocks; opening the file reads the last  *)
(* 16 bytes.  Appending a block writes over the footer and then writes a   *)
(* new one, so that between the two calls the file has none.  The process  *)
(* may be killed between any two calls; nothing is written on the way out. *)
(*                                                                         *)
(* Region j is where block j belongs: bytes j * PAGE_SIZE and following.   *)
(* A footer of n blocks lies at the start of region n (at byte 0 when the  *)
(* file was created, at byte 1 from the first append on).                  *)
(***************************************************************************)
EXTENDS Integers

CONSTANTS
    MaxPages,    \* bound: blocks a file may grow to
    Values,      \* what a block may hold
    Zero,        \* the value of an appended block
    Blank,       \* the value of the first block (create_blank_page)
    Absent,      \* past the end of the file
    Modes,       \* which files, and whose calls, are followed
    IOFaults     \* TRUE: a system call on a table file may fail

ASSUME MaxPagesAssumption == MaxPages \in Nat \ {0}
ASSUME ValuesAssumption   == {Zero, Blank} \subseteq Values /\ Absent \notin Values
ASSUME ModesAssumption    == Modes \subseteq {"Table", "Catalog", "AnyPage"}
ASSUME FaultsAssumption   == IOFaults \in BOOLEAN

Blocks   == 0 .. MaxPages - 1
Regions  == 0 .. MaxPages
NoFooter == -1

VARIABLES
    mode,        \* "Table": a table file under the buffer pool, which writes
                 \* pages it read or appended; "AnyPage": a table file under
                 \* a caller that writes any page, as the interface allows;
                 \* "Catalog": catalog.db, whose magic number is not looked at
    block,       \* the whole blocks of the file
    footer,      \* the count in the footer that lies in a region, or NoFooter
    len,         \* whole blocks in the file
    num_pages,   \* PageFileFooter.num_pages in memory, 0 while closed
    call,        \* the call in progress: what it still has to do
    result       \* how the last call ended

vars == <<mode, block, footer, len, num_pages, call, result>>

Calls == [op : {"Closed", "Idle", "Create", "Append"}, page : {0}]
            \cup [op : {"Extend", "Write"}, page : Blocks]

Is(op) == call.op = op
Closed == [op |-> "Closed", page |-> 0]
Idle   == [op |-> "Idle", page |-> 0]

Init ==
    /\ mode \in Modes
    /\ block     = [j \in Blocks |-> Absent]
    /\ footer    = [j \in Regions |-> NoFooter]
    /\ len       = 0
    /\ num_pages = 0
    /\ call      = Closed
    /\ result    = "Ok"

-----------------------------------------------------------------------------
(* Single system calls. *)

\* Mutant: the footer is written where the block was appended.
WriteFooter_Short(n) == footer' = [footer EXCEPT ![n - 1] = n]

WriteFooter(n) == footer' = [footer EXCEPT ![n] = n]

\* Writing a block replaces all bytes of its region.
WriteBlock(j, v) ==
    /\ block'  = [block EXCEPT ![j] = v]
    /\ footer' = [footer EXCEPT ![j] = NoFooter]
    /\ len'    = IF j < len THEN len ELSE j + 1

\* Any call may fail instead; the operation returns the error.
CallMayFail == IOFaults /\ mode # "Catalog"

Fails ==
    /\ CallMayFail
    /\ result' = "Io"
    /\ call' = Idle
    /\ UNCHANGED <<mode, block, footer, len>>

Sealed == footer[len] # NoFooter

-----------------------------------------------------------------------------
(* new (catalog.db) and open_or_create_file (tables) *)

\* A file too short for a footer is created: its block, then its footer.
CreateBlock ==
    /\ Is("Closed")
    /\ len = 0
    /\ WriteBlock(0, Blank)
    /\ call' = [op |-> "Create", page |-> 0]
    /\ UNCHANGED <<mode, num_pages, result>>

CreateFooter ==
    /\ Is("Create")
    /\ WriteFooter(1)
    /\ num_pages' = 1
    /\ call' = Idle
    /\ result' = "Ok"
    /\ UNCHANGED <<mode, block, len>>

CreateFails ==
    /\ CallMayFail
    /\ Is("Create") \/ (Is("Closed") /\ len = 0)
    /\ call' = Closed
    /\ result' = "Io"
    /\ UNCHANGED <<mode, block, footer, len, num_pages>>

OpenSealed ==
    /\ Is("Closed")
    /\ len > 0 /\ Sealed
    /\ num_pages' = footer[len]
    /\ call' = Idle
    /\ result' = "Ok"
    /\ UNCHANGED <<mode, block, footer, len>>

\* Without a footer the last 16 bytes are the end of the last block.  A table
\* file is refused; of catalog.db the count is used all the same: it is 0
\* behind a block without records, CatalogManager::load then misses page 0,
\* and the process exits.
OpenUnsealed ==
    /\ Is("Closed")
    /\ len > 0 /\ ~ Sealed
    /\ result' = IF mode # "Catalog" THEN "CorruptPageFile" ELSE "PageNotFound"
    /\ UNCHANGED <<mode, block, footer, len, num_pages, call>>

\* The process exits, or is killed between two system calls.
Exit ==
    /\ ~ Is("Closed")
    /\ call' = Closed
    /\ num_pages' = 0
    /\ result' = "Exited"
    /\ UNCHANGED <<mode, block, footer, len>>

-----------------------------------------------------------------------------
(* append_empty_block *)

\* Mutant: the footer is placed after the block that was the last one.
AppendBlock_Early ==
    /\ Is("Idle")
    /\ num_pages < MaxPages
    /\ WriteBlock(num_pages - 1, Zero)
    /\ call' = [op |-> "Append", page |-> 0]
    /\ UNCHANGED <<mode, num_pages, result>>

AppendBlock ==
    /\ Is("Idle")
    /\ num_pages < MaxPages
    /\ WriteBlock(num_pages, Zero)
    /\ call' = [op |-> "Append", page |-> 0]
    /\ UNCHANGED <<mode, num_pages, result>>

AppendBlockFails ==
    /\ Is("Idle")
    /\ num_pages < MaxPages
    /\ Fails
    /\ UNCHANGED num_pages

\* Mutant: the page is counted twice.
AppendFooter_Twice ==
    /\ Is("Append")
    /\ num_pages' = num_pages + 2
    /\ WriteFooter(num_pages + 1)
    /\ call' = Idle
    /\ result' = "Ok"
    /\ UNCHANGED <<mode, block, len>>

AppendFooter ==
    /\ Is("Append")
    /\ num_pages' = num_pages + 1
    /\ WriteFooter(num_pages + 1)
    /\ call' = Idle
    /\ result' = "Ok"
    /\ UNCHANGED <<mode, block, len>>

\* Mutant: the page is counted only once its footer is on disk.
AppendFooterFails_Uncounted ==
    /\ Is("Append")
    /\ Fails
    /\ UNCHANGED num_pages

\* The page stays counted in memory; the file has no footer.
AppendFooterFails ==
    /\ Is("Append")
    /\ Fails
    /\ num_pages' = num_pages + 1

-----------------------------------------------------------------------------
(* write_block and its ensure_capacity *)

Writable(p) == mode = "AnyPage" \/ p < num_pages

WriteInPlace(p, v) ==
    /\ Is("Idle")
    /\ Writable(p)
    /\ p < len
    /\ WriteBlock(p, v)
    /\ result' = "Ok"
    /\ UNCHANGED <<mode, num_pages, call>>

WriteInPlaceFails ==
    /\ Is("Idle")
    /\ Fails
    /\ UNCHANGED num_pages

\* set_len: the gap reads as zeros, but for the old footer.
ExtendLength(p) ==
    /\ Is("Idle")
    /\ Writable(p)
    /\ p >= len
    /\ len' = p + 1
    /\ block' = [j \in Blocks |-> IF j \in len .. p THEN Zero ELSE block[j]]
    /\ call' = [op |-> "Extend", page |-> p]
    /\ UNCHANGED <<mode, footer, num_pages, result>>

\* num_pages becomes the number of the page, and the footer goes there.
ExtendFooter ==
    /\ Is("Extend")
    /\ num_pages' = call.page
    /\ WriteFooter(call.page)
    /\ call' = [call EXCEPT !.op = "Write"]
    /\ UNCHANGED <<mode, block, len, result>>

ExtendWrite(v) ==
    /\ Is("Write")
    /\ WriteBlock(call.page, v)
    /\ call' = Idle
    /\ result' = "Ok"
    /\ UNCHANGED <<mode, num_pages>>

\* The count has changed even if the footer cannot be written.
ExtendFails ==
    /\ Is("Extend") \/ Is("Write")
    /\ num_pages' = IF Is("Extend") THEN call.page ELSE num_pages
    /\ Fails

-----------------------------------------------------------------------------
Next ==
    \/ CreateBlock \/ CreateFooter \/ CreateFails
    \/ OpenSealed \/ OpenUnsealed
    \/ Exit
    \/ AppendBlock \/ AppendBlockFails
    \/ AppendFooter \/ AppendFooterFails
    \/ \E p \in Blocks, v \in Values : WriteInPlace(p, v)
    \/ WriteInPlaceFails
    \/ \E p \in Blocks : ExtendLength(p)
    \/ ExtendFooter
    \/ \E v \in Values : ExtendWrite(v)
    \/ ExtendFails

Spec == Init /\ [][Next]_vars
-----------------------------------------------------------------------------
(* Properties. *)

\* Every variable stays in its range, and a session has a page or none.
TypeOK ==
    /\ mode \in Modes
    /\ block \in [Blocks -> Values \cup {Absent}]
    /\ footer \in [Regions -> Regions \cup {NoFooter}]
    /\ len \in Regions /\ num_pages \in Regions
    /\ call \in Calls
    /\ result \in {"Ok", "Io", "CorruptPageFile", "PageNotFound", "Exited"}

\* Whatever page the callers write, a page that read_block lets through is in
\* the file: the count never runs ahead of the blocks.
CountedPagesExist == Is("Idle") => num_pages <= len

\* Under the buffer pool, the count in memory is between calls the number of
\* blocks in the file, after failed calls and after any number of kills and
\* reopenings: the next append lands behind the last block.
CountIsRight == mode # "AnyPage" /\ Is("Idle") => num_pages = len

\* Under the buffer pool, a footer is nowhere but behind the last block, and
\* counts the blocks: an old footer can never be taken for the new one.
FooterTellsLength ==
    mode # "AnyPage" =>
        \A j \in Regions : footer[j] # NoFooter => j = len /\ footer[j] = len

\* Under the buffer pool, blocks persist as they were written last, across
\* kills; the file can be lost only by a process that ends while the newest
\* block has no footer.
File == INSTANCE BlockFile
            WITH blocks <- IF mode = "AnyPage"
                              THEN <<>> ELSE [i \in 1 .. len |-> block[i - 1]],
                 sealed <- mode # "AnyPage" /\ Sealed,
                 lost   <- mode # "AnyPage" /\ Is("Closed") /\ len > 0 /\ ~ Sealed
ImplementsBlockFile == File!Spec
=============================================================================
