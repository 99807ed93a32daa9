---------------------------- MODULE SlottedPage ----------------------------
(***************************************************************************)
(* One page of slotted records (traits SlottedPage and SlottedPageMut of   *)
(* src/src/page/mod.rs).  Slot entries grow from the header upwards, the   *)
(* records from the end of the page downwards; insert puts a record right  *)
(* below the last one.  Offsets are u16: without overflow checks a         *)
(* subtraction wraps around, with them it panics.  A byte of a record is   *)
(* the value it was written with: all bytes of a record are alike.         *)
(***************************************************************************)
EXTENDS Integers, Sequences

CONSTANTS
    PageSize,        \* PAGE_SIZE
    HeaderSize,      \* page_header_offsets::SIZE
    SlotSize,        \* size_of::<SlotArrayEntry>()
    Word,            \* u16::MAX + 1
    Sizes,           \* lengths of the records the callers insert
    Values           \* what a record's bytes may be

ASSUME SizesAssumption ==
    /\ PageSize \in Nat /\ HeaderSize \in Nat /\ SlotSize \in Nat \ {0}
    /\ HeaderSize + SlotSize <= PageSize
    /\ Word \in Nat /\ PageSize < Word
ASSUME RecordsAssumption  == Sizes \subseteq Nat \ {0}
ASSUME ValuesAssumption   == "Blank" \notin Values /\ "Slot" \notin Values

Bytes    == HeaderSize .. PageSize - 1
MaxSlots == (PageSize - HeaderSize) \div SlotSize
Entry    == [offset : 0 .. Word - 1, size : 0 .. Word - 1]

VARIABLES
    build,       \* the build profile, which decides about overflow checks
    byte,        \* the bytes behind the header: what each was last written for
    slot,        \* the slot entries as they were last written
    numEntries,  \* the count in the header
    result       \* how the last insert ended

vars == <<build, byte, slot, numEntries, result>>

OverflowChecks == build = "debug"

Outcomes == {"Ok", "PageFull", "InvalidSize", "Panicked"}

Init ==
    /\ build \in {"debug", "release"}
    /\ byte       = [b \in Bytes |-> "Blank"]
    /\ slot       = <<>>
    /\ numEntries = 0
    /\ result     = "Ok"

-----------------------------------------------------------------------------
get_freespace_start == HeaderSize + SlotSize * numEntries

\* Mutant: the entry that is about to be written is not counted.
new_freespace_start_Forgets == get_freespace_start

new_freespace_start == get_freespace_start + SlotSize

\* Where the last record begins.
Lowest == IF numEntries = 0 THEN PageSize ELSE slot[numEntries].offset

Underflows(size) == size > Lowest

\* Mutant: the record is placed below the first one.
Offset_BelowFirst(size) ==
    ((IF numEntries = 0 THEN PageSize ELSE slot[1].offset) - size) % Word

Offset(size) == (Lowest - size) % Word

\* Mutant: the record is copied without a bounds check.
InPage_Unchecked(offset, size) == TRUE

InPage(offset, size) == offset + size <= PageSize

get_slot(i) == [k \in 1 .. slot[i].size |-> byte[slot[i].offset + k - 1]]

\* insert writes the entry before the record, and the record before the count.
WithEntry(size) == SubSeq(slot, 1, numEntries) \o <<[offset |-> Offset(size), size |-> size]>>

EntryBytes == get_freespace_start .. new_freespace_start - 1

EntryWritten == [b \in Bytes |-> IF b \in EntryBytes THEN "Slot" ELSE byte[b]]

RecordWritten(size, v) ==
    [b \in Bytes |-> IF b \in Offset(size) .. Offset(size) + size - 1
                        THEN v ELSE EntryWritten[b]]

-----------------------------------------------------------------------------
(* insert *)

\* u16::try_from(size) fails.
InsertInvalidSize(size) ==
    /\ size >= Word
    /\ result' = "InvalidSize"
    /\ UNCHANGED <<build, byte, slot, numEntries>>

\* `attempt to subtract with overflow'
InsertUnderflow(size) ==
    /\ size < Word
    /\ OverflowChecks /\ Underflows(size)
    /\ result' = "Panicked"
    /\ UNCHANGED <<build, byte, slot, numEntries>>

Placed(size) == size < Word /\ ~ (OverflowChecks /\ Underflows(size))

InsertPageFull(size) ==
    /\ Placed(size)
    /\ Offset(size) < new_freespace_start
    /\ result' = "PageFull"
    /\ UNCHANGED <<build, byte, slot, numEntries>>

\* A wrapped offset passes the check: the entry is written, then the slice of
\* the record is out of bounds.
InsertOutOfBounds(size) ==
    /\ Placed(size)
    /\ Offset(size) >= new_freespace_start
    /\ ~ InPage(Offset(size), size)
    /\ byte' = EntryWritten
    /\ slot' = WithEntry(size)
    /\ result' = "Panicked"
    /\ UNCHANGED <<build, numEntries>>

InsertOk(size, v) ==
    /\ Placed(size)
    /\ Offset(size) >= new_freespace_start
    /\ InPage(Offset(size), size)
    /\ byte' = RecordWritten(size, v)
    /\ slot' = WithEntry(size)
    /\ numEntries' = numEntries + 1
    /\ result' = "Ok"
    /\ UNCHANGED build

Insert(size, v) ==
    \/ InsertInvalidSize(size)
    \/ InsertUnderflow(size)
    \/ InsertPageFull(size)
    \/ InsertOutOfBounds(size)
    \/ InsertOk(size, v)

Next == \E size \in Sizes, v \in Values : Insert(size, v)

Spec == Init /\ [][Next]_vars
-----------------------------------------------------------------------------
(* Properties. *)

Record(i) == slot[i].offset .. slot[i].offset + slot[i].size - 1

\* Every state is well formed; a counted entry names bytes of the page, and
\* at most one entry was written and never counted (insert, lines 167-173).
TypeOK ==
    /\ build \in {"debug", "release"}
    /\ byte \in [Bytes -> Values \cup {"Blank", "Slot"}]
    /\ numEntries \in 0 .. MaxSlots
    /\ slot \in Seq(Entry) /\ Len(slot) \in numEntries .. numEntries + 1
    /\ \A i \in 1 .. numEntries : Record(i) \subseteq Bytes
    /\ result \in Outcomes

\* No record is ever written over a slot entry: the entries a reader decodes
\* are the entries that insert encoded, in both builds.
SlotArrayIntact ==
    \A b \in HeaderSize .. get_freespace_start - 1 : byte[b] = "Slot"

\* What a failed insert may damage is bounded: in both builds and whatever the
\* size, a record that begins behind the place of the next slot entry reads
\* as before.
RecordsBehindNextEntryKept ==
    [][\A i \in 1 .. numEntries :
          slot[i].offset >= new_freespace_start => get_slot(i)' = get_slot(i)]_vars

\* A record that does not fit is refused with an error, as the assertion
\* `should be full' of page_full_when_slot_array_meets_data has it: insert
\* does not panic on a record that an empty page has room for.
NoRoomMeansPageFull == result # "Panicked"

\* In a debug build the page is an append-only list of records: an insert
\* that returns appends its record or changes nothing that get_slot returns.
Payloads == {[k \in 1 .. size |-> v] : size \in Sizes, v \in Values}
List == INSTANCE RecordList
            WITH records <- IF OverflowChecks
                               THEN [i \in 1 .. numEntries |-> get_slot(i)] ELSE <<>>
ImplementsRecordList == List!Spec
=============================================================================
