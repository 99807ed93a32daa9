-------------------------- MODULE SlottedPageProofs --------------------------
(***************************************************************************)
(* Proofs about SlottedPage for pages, slot entries and words of any size. *)
(***************************************************************************)
EXTENDS SlottedPage, SequenceTheorems, TLAPS

-----------------------------------------------------------------------------
(* Sequences and numbers. *)

\* A sequence that agrees with another one and has one element more is that
\* sequence with the element appended.
LEMMA OneElementMore ==
    ASSUME NEW n \in Nat, NEW s, NEW t, NEW S,
           s \in [1 .. n -> S], t \in [1 .. n + 1 -> S],
           \A i \in 1 .. n : t[i] = s[i]
    PROVE  t = Append(s, t[n + 1])
<1>1. s \in Seq(S) /\ Len(s) = n
  BY SeqDef, LenProperties
<1>2. t[n + 1] \in S
  OBVIOUS
<1>3. t \in Seq(S) /\ Len(t) = n + 1
  <2>1. n + 1 \in Nat
    OBVIOUS
  <2> QED BY <2>1, SeqDef, LenProperties
<1>4. /\ Append(s, t[n + 1]) \in Seq(S)
      /\ Len(Append(s, t[n + 1])) = n + 1
      /\ \A i \in 1 .. n : Append(s, t[n + 1])[i] = s[i]
      /\ Append(s, t[n + 1])[n + 1] = t[n + 1]
  BY <1>1, <1>2, AppendProperties
<1>5. \A i \in 1 .. n + 1 : t[i] = Append(s, t[n + 1])[i]
  <2>1. 1 .. n + 1 = (1 .. n) \cup {n + 1}
    OBVIOUS
  <2> QED BY <1>4, <2>1
<1> QED BY <1>3, <1>4, <1>5, SeqEqual

-----------------------------------------------------------------------------
(* Arithmetic. *)

LEMMA RemainderOfSmall ==
    ASSUME NEW w \in Nat, NEW x \in Int, 0 <= x, x < w PROVE x % w = x
OBVIOUS

\* u16 subtraction that went below zero.
LEMMA RemainderOfNegative ==
    ASSUME NEW w \in Nat, NEW x \in Int, x < 0, -w <= x PROVE x % w = x + w
OBVIOUS

LEMMA RemainderInRange ==
    ASSUME NEW w \in Nat \ {0}, NEW x \in Int PROVE x % w \in 0 .. w - 1
OBVIOUS

LEMMA QuotientBounds ==
    ASSUME NEW b \in Nat \ {0}, NEW a \in Nat, NEW n \in Nat, b * n <= a
    PROVE  n <= a \div b
OBVIOUS

LEMMA OneSlotMore ==
    ASSUME NEW b \in Nat, NEW n \in Nat
    PROVE  b * n \in Nat /\ b * (n + 1) = b * n + b
OBVIOUS

-----------------------------------------------------------------------------
(* The inductive invariant. *)

\* The slots of the page are in their ranges, and the entry of an insert that
\* panicked may follow those that count.
SlotsOK ==
    /\ build \in {"debug", "release"}
    /\ byte \in [Bytes -> Values \cup {"Blank", "Slot"}]
    /\ numEntries \in Nat
    /\ slot \in Seq(Entry) /\ Len(slot) \in numEntries .. numEntries + 1
    /\ result \in Outcomes

\* Records fill the page from its end downwards and do not overlap: each ends
\* where an earlier one begins or below.
RecordsDescend ==
    /\ \A i \in 1 .. numEntries : slot[i].offset + slot[i].size <= PageSize
    /\ \A i, j \in 1 .. numEntries :
          i < j => slot[j].offset + slot[j].size <= slot[i].offset

\* The slot array, growing upwards, has not reached the last record.
ArraysApart == get_freespace_start <= Lowest

PageInv ==
    /\ SlotsOK
    /\ RecordsDescend
    /\ ArraysApart
    /\ SlotArrayIntact

\* Every record lies between the slot array and the end of the page.
LEMMA RecordsAboveSlots ==
    ASSUME PageInv
    PROVE  /\ get_freespace_start \in Nat /\ new_freespace_start \in Nat
           /\ HeaderSize <= get_freespace_start
           /\ get_freespace_start < new_freespace_start
           /\ Lowest \in Nat /\ get_freespace_start <= Lowest /\ Lowest <= PageSize
           /\ \A i \in 1 .. numEntries :
                 /\ slot[i] \in Entry
                 /\ slot[i].offset \in Nat /\ slot[i].size \in Nat
                 /\ Lowest <= slot[i].offset
                 /\ slot[i].offset + slot[i].size <= PageSize
<1> USE SizesAssumption
<1>1. numEntries \in Nat
  BY DEF PageInv, SlotsOK
<1>2. /\ get_freespace_start \in Nat /\ new_freespace_start \in Nat
      /\ HeaderSize <= get_freespace_start
      /\ get_freespace_start < new_freespace_start
  BY <1>1, OneSlotMore DEF get_freespace_start, new_freespace_start
<1>3. \A i \in 1 .. numEntries : slot[i] \in Entry
  <2>1. 1 .. numEntries \subseteq 1 .. Len(slot)
    BY <1>1 DEF PageInv, SlotsOK
  <2> QED BY <2>1, ElementOfSeq DEF PageInv, SlotsOK
<1>4. \A i \in 1 .. numEntries : slot[i].offset \in Nat /\ slot[i].size \in Nat
  BY <1>3 DEF Entry
<1>5. Lowest \in Nat
  BY <1>1, <1>4 DEF Lowest
<1>6. \A i \in 1 .. numEntries : Lowest <= slot[i].offset
  <2> TAKE i \in 1 .. numEntries
  <2>1. Lowest = slot[numEntries].offset /\ numEntries \in 1 .. numEntries
    BY <1>1 DEF Lowest
  <2>2. CASE i = numEntries
    BY <1>4, <2>1, <2>2
  <2>3. CASE i < numEntries
    <3>1. slot[numEntries].offset + slot[numEntries].size <= slot[i].offset
      BY <2>1, <2>3 DEF PageInv, RecordsDescend
    <3> QED BY <1>4, <2>1, <3>1
  <2> QED BY <1>1, <2>2, <2>3
<1>7. \A i \in 1 .. numEntries : slot[i].offset + slot[i].size <= PageSize
  BY DEF PageInv, RecordsDescend
<1>8. Lowest <= PageSize
  <2>1. CASE numEntries = 0
    BY <2>1 DEF Lowest
  <2>2. CASE numEntries # 0
    <3>1. numEntries \in 1 .. numEntries /\ Lowest = slot[numEntries].offset
      BY <1>1, <2>2 DEF Lowest
    <3> QED BY <1>4, <1>7, <3>1
  <2> QED BY <2>1, <2>2
<1> QED BY <1>2, <1>3, <1>4, <1>5, <1>6, <1>7, <1>8 DEF PageInv, ArraysApart

\* The page has room for as many slots as it was divided into.
LEMMA SlotsFit == ASSUME PageInv PROVE numEntries \in 0 .. MaxSlots
<1> USE SizesAssumption
<1>1. numEntries \in Nat /\ SlotSize * numEntries \in Nat
  BY OneSlotMore DEF PageInv, SlotsOK
<1>2. PageSize - HeaderSize \in Nat /\ SlotSize * numEntries <= PageSize - HeaderSize
  BY <1>1, RecordsAboveSlots DEF get_freespace_start
<1>3. numEntries <= (PageSize - HeaderSize) \div SlotSize
  BY <1>1, <1>2, QuotientBounds
<1>4. (PageSize - HeaderSize) \div SlotSize \in Int
  BY <1>2
<1> QED BY <1>1, <1>3, <1>4 DEF MaxSlots

LEMMA InvGivesType == PageInv => TypeOK
<1> SUFFICES ASSUME PageInv PROVE TypeOK
  OBVIOUS
<1>1. \A i \in 1 .. numEntries : Record(i) \subseteq Bytes
  BY RecordsAboveSlots, SizesAssumption DEF Record, Bytes
<1> QED BY <1>1, SlotsFit DEF TypeOK, PageInv, SlotsOK

-----------------------------------------------------------------------------
(* One insert. *)

\* The check of the end of the record catches every offset that wrapped around:
\* a record that is written lies right below the last one.
LEMMA NoWrapAround ==
    ASSUME PageInv, NEW size \in Nat, size < Word, InPage(Offset(size), size)
    PROVE  size <= Lowest /\ Offset(size) = Lowest - size
<1> USE SizesAssumption
<1>1. Lowest \in Nat /\ Lowest <= PageSize
  BY RecordsAboveSlots
<1>2. CASE size <= Lowest
  BY <1>1, <1>2, RemainderOfSmall DEF Offset
<1>3. CASE size > Lowest
  <2>1. Offset(size) = Lowest - size + Word
    BY <1>1, <1>3, RemainderOfNegative DEF Offset
  <2> QED BY <1>1, <1>3, <2>1 DEF InPage
<1> QED BY <1>1, <1>2, <1>3

\* An offset is computed right when overflow checks let it through.
LEMMA CheckedOffset ==
    ASSUME PageInv, NEW size \in Nat, size < Word, ~ Underflows(size)
    PROVE  Offset(size) = Lowest - size /\ InPage(Offset(size), size)
<1>1. Lowest \in Nat /\ Lowest <= PageSize
  BY RecordsAboveSlots
<1>2. Offset(size) = Lowest - size
  BY <1>1, SizesAssumption, RemainderOfSmall DEF Offset, Underflows
<1> QED BY <1>1, <1>2, SizesAssumption DEF InPage

\* The new entry follows those that count.
LEMMA EntryAppended ==
    ASSUME PageInv, NEW size \in Nat, size < Word
    PROVE  /\ WithEntry(size) \in Seq(Entry)
           /\ Len(WithEntry(size)) = numEntries + 1
           /\ \A i \in 1 .. numEntries : WithEntry(size)[i] = slot[i]
           /\ WithEntry(size)[numEntries + 1] = [offset |-> Offset(size), size |-> size]
<1> DEFINE e == [offset |-> Offset(size), size |-> size]
           s == SubSeq(slot, 1, numEntries)
<1>1. numEntries \in Nat /\ \A i \in 1 .. numEntries : slot[i] \in Entry
  BY RecordsAboveSlots DEF PageInv, SlotsOK
<1>2. e \in Entry
  <2>1. Offset(size) \in 0 .. Word - 1
    <3>1. Lowest - size \in Int /\ Word \in Nat \ {0}
      BY RecordsAboveSlots, SizesAssumption
    <3> QED BY <3>1, RemainderInRange DEF Offset
  <2>2. size \in 0 .. Word - 1
    BY SizesAssumption
  <2> QED BY <2>1, <2>2 DEF Entry
<1>3. /\ s \in Seq(Entry) /\ Len(s) = numEntries
      /\ \A i \in 1 .. numEntries : s[i] = slot[i]
  <2>1. /\ s \in Seq(Entry)
        /\ Len(s) = IF 1 <= numEntries THEN numEntries - 1 + 1 ELSE 0
        /\ \A i \in 1 .. numEntries - 1 + 1 : s[i] = slot[1 + i - 1]
    BY <1>1, SubSeqProperties
  <2> QED BY <1>1, <2>1
<1> HIDE DEF e, s
<1>4. <<e>> \in Seq(Entry) /\ Len(<<e>>) = 1 /\ <<e>>[1] = e
  BY <1>2
<1>5. /\ s \o <<e>> \in Seq(Entry)
      /\ Len(s \o <<e>>) = numEntries + 1
      /\ \A i \in 1 .. numEntries + 1 :
            (s \o <<e>>)[i] = IF i <= numEntries THEN s[i] ELSE <<e>>[i - numEntries]
  BY <1>3, <1>4, ConcatProperties
<1>6. WithEntry(size) = s \o <<e>>
  BY DEF WithEntry, s, e
<1>7. \A i \in 1 .. numEntries : (s \o <<e>>)[i] = slot[i]
  BY <1>1, <1>3, <1>5
<1>8. (s \o <<e>>)[numEntries + 1] = e
  BY <1>1, <1>4, <1>5
<1> QED BY <1>5, <1>6, <1>7, <1>8 DEF e

\* The bytes of an entry are all it writes, and the array is whole.
LEMMA EntryBytesWritten ==
    ASSUME PageInv, new_freespace_start <= PageSize
    PROVE  /\ EntryWritten \in [Bytes -> Values \cup {"Blank", "Slot"}]
           /\ \A b \in HeaderSize .. new_freespace_start - 1 :
                 b \in Bytes /\ EntryWritten[b] = "Slot"
           /\ \A b \in Bytes : b >= new_freespace_start => EntryWritten[b] = byte[b]
<1>1. /\ get_freespace_start \in Nat /\ new_freespace_start \in Nat
      /\ HeaderSize \in Nat /\ PageSize \in Nat
  BY RecordsAboveSlots, SizesAssumption
<1>2. byte \in [Bytes -> Values \cup {"Blank", "Slot"}]
  BY DEF PageInv, SlotsOK
<1>3. \A b \in HeaderSize .. get_freespace_start - 1 : byte[b] = "Slot"
  BY DEF PageInv, SlotArrayIntact
<1>4. EntryWritten = [b \in Bytes |-> IF b \in EntryBytes THEN "Slot" ELSE byte[b]]
  BY DEF EntryWritten
<1>5. EntryWritten \in [Bytes -> Values \cup {"Blank", "Slot"}]
  BY <1>2, <1>4
<1>6. \A b \in HeaderSize .. new_freespace_start - 1 : b \in Bytes /\ EntryWritten[b] = "Slot"
  <2> TAKE b \in HeaderSize .. new_freespace_start - 1
  <2>1. b \in Bytes
    BY <1>1 DEF Bytes
  <2>2. b \in EntryBytes \/ b \in HeaderSize .. get_freespace_start - 1
    BY <1>1 DEF EntryBytes
  <2> QED BY <1>3, <1>4, <2>1, <2>2
<1>7. \A b \in Bytes : b >= new_freespace_start => b \notin EntryBytes
  BY <1>1 DEF EntryBytes, Bytes
<1> QED BY <1>4, <1>5, <1>6, <1>7

\* What an insert that returned has done: its record lies below the others, and
\* none of them has changed.
LEMMA InsertWritesBelow ==
    ASSUME PageInv, NEW size \in Nat, NEW v \in Values, InsertOk(size, v)
    PROVE  /\ size <= Lowest /\ Offset(size) = Lowest - size
           /\ new_freespace_start <= Offset(size)
           /\ byte' \in [Bytes -> Values \cup {"Blank", "Slot"}]
           /\ \A b \in HeaderSize .. new_freespace_start - 1 : byte'[b] = "Slot"
           /\ \A b \in Offset(size) .. Lowest - 1 : b \in Bytes /\ byte'[b] = v
           /\ \A b \in Bytes : b >= Lowest => byte'[b] = byte[b]
<1> USE SizesAssumption
<1>1. size <= Lowest /\ Offset(size) = Lowest - size /\ new_freespace_start <= Offset(size)
  <2>1. Placed(size) /\ InPage(Offset(size), size) /\ Offset(size) >= new_freespace_start
    BY DEF InsertOk
  <2>2. size <= Lowest /\ Offset(size) = Lowest - size
    BY <2>1, NoWrapAround DEF Placed
  <2> QED BY <2>1, <2>2, RecordsAboveSlots
<1>2. /\ Lowest \in Nat /\ Lowest <= PageSize /\ new_freespace_start \in Nat
      /\ HeaderSize <= new_freespace_start
  BY RecordsAboveSlots
<1>3. new_freespace_start <= PageSize
  BY <1>1, <1>2
<1>4. /\ EntryWritten \in [Bytes -> Values \cup {"Blank", "Slot"}]
      /\ \A b \in HeaderSize .. new_freespace_start - 1 :
            b \in Bytes /\ EntryWritten[b] = "Slot"
      /\ \A b \in Bytes : b >= new_freespace_start => EntryWritten[b] = byte[b]
  BY <1>3, EntryBytesWritten
<1>5. byte' = [b \in Bytes |-> IF b \in Offset(size) .. Lowest - 1
                                  THEN v ELSE EntryWritten[b]]
  BY <1>1, <1>2 DEF InsertOk, RecordWritten
<1>6. \A b \in Offset(size) .. Lowest - 1 : b \in Bytes
  BY <1>1, <1>2 DEF Bytes
<1>7. \A b \in Bytes : b \in Int
  BY DEF Bytes
<1>8. byte' \in [Bytes -> Values \cup {"Blank", "Slot"}]
  BY <1>4, <1>5
<1>9. \A b \in HeaderSize .. new_freespace_start - 1 : byte'[b] = "Slot"
  BY <1>1, <1>2, <1>4, <1>5
<1>10. \A b \in Bytes : b >= Lowest => byte'[b] = byte[b]
  BY <1>1, <1>2, <1>4, <1>5, <1>7
<1> QED BY <1>1, <1>5, <1>6, <1>8, <1>9, <1>10

-----------------------------------------------------------------------------
LEMMA InitPage == Init => PageInv
<1> SUFFICES ASSUME Init PROVE PageInv
  OBVIOUS
<1> USE SizesAssumption DEF Init
<1>1. <<>> \in Seq(Entry) /\ Len(<<>>) = 0
  BY EmptySeq
<1>2. SlotsOK
  BY <1>1 DEF SlotsOK, Outcomes
<1>3. RecordsDescend
  BY DEF RecordsDescend
<1>4. get_freespace_start = HeaderSize /\ Lowest = PageSize
  BY DEF get_freespace_start, Lowest
<1>5. ArraysApart /\ SlotArrayIntact
  BY <1>4 DEF ArraysApart, SlotArrayIntact
<1> QED BY <1>2, <1>3, <1>5 DEF PageInv

\* An insert that was refused has changed nothing.
LEMMA RefusalKeepsInv ==
    ASSUME PageInv, result' \in Outcomes, UNCHANGED <<build, byte, slot, numEntries>>
    PROVE  PageInv'
BY DEF PageInv, SlotsOK, RecordsDescend, ArraysApart, SlotArrayIntact, Lowest,
       get_freespace_start

\* The entries that count are those that counted.
LEMMA InsertKeepsSlots ==
    ASSUME PageInv, NEW size \in Nat, size < Word, slot' = WithEntry(size)
    PROVE  /\ slot' \in Seq(Entry) /\ Len(slot') = numEntries + 1
           /\ \A i \in 1 .. numEntries : slot'[i] = slot[i]
           /\ slot'[numEntries + 1] = [offset |-> Offset(size), size |-> size]
BY EntryAppended

LEMMA OutOfBoundsKeepsInv ==
    ASSUME PageInv, NEW size \in Nat, InsertOutOfBounds(size)
    PROVE  PageInv'
<1> USE SizesAssumption
<1>1. size < Word
  BY DEF InsertOutOfBounds, Placed
<1>2. /\ slot' \in Seq(Entry) /\ Len(slot') = numEntries + 1
      /\ \A i \in 1 .. numEntries : slot'[i] = slot[i]
  BY <1>1, InsertKeepsSlots DEF InsertOutOfBounds
<1>3. UNCHANGED <<build, numEntries>> /\ result' \in Outcomes /\ byte' = EntryWritten
  BY DEF InsertOutOfBounds, Outcomes
<1>4. byte' \in [Bytes -> Values \cup {"Blank", "Slot"}]
  BY <1>3 DEF EntryWritten, PageInv, SlotsOK
<1>5. SlotsOK'
  BY <1>2, <1>3, <1>4 DEF SlotsOK, PageInv
<1>6. RecordsDescend'
  BY <1>2, <1>3 DEF RecordsDescend, PageInv
<1>7. get_freespace_start' = get_freespace_start /\ Lowest' = Lowest
  <2>1. numEntries # 0 => numEntries \in 1 .. numEntries
    BY DEF PageInv, SlotsOK
  <2> QED BY <1>2, <1>3, <2>1 DEF get_freespace_start, Lowest
<1>8. SlotArrayIntact'
  <2>1. \A b \in HeaderSize .. get_freespace_start - 1 : b \in Bytes /\ byte[b] = "Slot"
    BY RecordsAboveSlots DEF PageInv, SlotArrayIntact, Bytes
  <2> QED BY <1>3, <1>7, <2>1 DEF SlotArrayIntact, EntryWritten
<1> QED BY <1>5, <1>6, <1>7, <1>8 DEF PageInv, ArraysApart

LEMMA InsertOkKeepsInv ==
    ASSUME PageInv, NEW size \in Nat, NEW v \in Values, InsertOk(size, v)
    PROVE  PageInv'
<1> USE SizesAssumption
<1>1. size < Word /\ UNCHANGED build /\ result' \in Outcomes
      /\ numEntries' = numEntries + 1 /\ slot' = WithEntry(size)
  BY DEF InsertOk, Placed, Outcomes
<1>2. /\ slot' \in Seq(Entry) /\ Len(slot') = numEntries + 1
      /\ \A i \in 1 .. numEntries : slot'[i] = slot[i]
      /\ slot'[numEntries + 1] = [offset |-> Offset(size), size |-> size]
  BY <1>1, InsertKeepsSlots
<1>3. /\ size <= Lowest /\ Offset(size) = Lowest - size
      /\ new_freespace_start <= Offset(size)
      /\ byte' \in [Bytes -> Values \cup {"Blank", "Slot"}]
      /\ \A b \in HeaderSize .. new_freespace_start - 1 : byte'[b] = "Slot"
  BY InsertWritesBelow
<1>4. /\ numEntries \in Nat /\ numEntries' # 0 /\ numEntries' \in Nat
      /\ 1 .. numEntries' = (1 .. numEntries) \cup {numEntries + 1}
      /\ numEntries + 1 \notin 1 .. numEntries
  BY <1>1 DEF PageInv, SlotsOK
<1>5. /\ slot'[numEntries + 1].offset = Lowest - size
      /\ slot'[numEntries + 1].size = size
  BY <1>2, <1>3
<1>6. get_freespace_start' = new_freespace_start
  <2>1. get_freespace_start' = HeaderSize + SlotSize * (numEntries + 1)
    BY <1>1 DEF get_freespace_start
  <2>2. SlotSize * (numEntries + 1) = SlotSize * numEntries + SlotSize
        /\ SlotSize * numEntries \in Nat
    BY <1>4, OneSlotMore
  <2> QED BY <2>1, <2>2 DEF get_freespace_start, new_freespace_start
<1>7. SlotsOK'
  BY <1>1, <1>2, <1>3, <1>4 DEF SlotsOK, PageInv
<1>8. RecordsDescend'
  <2>1. /\ Lowest \in Nat /\ Lowest <= PageSize
        /\ \A i \in 1 .. numEntries : Lowest <= slot[i].offset
    BY RecordsAboveSlots
  <2>2. \A i \in 1 .. numEntries' : slot'[i].offset + slot'[i].size <= PageSize
    <3>1. \A i \in 1 .. numEntries : slot'[i].offset + slot'[i].size <= PageSize
      BY <1>2 DEF PageInv, RecordsDescend
    <3> QED BY <1>4, <1>5, <2>1, <3>1
  <2>3. \A i, j \in 1 .. numEntries' :
           i < j => slot'[j].offset + slot'[j].size <= slot'[i].offset
    <3> TAKE i, j \in 1 .. numEntries'
    <3> HAVE i < j
    <3>1. i \in 1 .. numEntries
      BY <1>1, <1>4
    <3>2. CASE j \in 1 .. numEntries
      BY <1>2, <3>1, <3>2 DEF PageInv, RecordsDescend
    <3>3. CASE j = numEntries + 1
      BY <1>2, <1>5, <2>1, <3>1, <3>3
    <3> QED BY <1>4, <3>2, <3>3
  <2> QED BY <2>2, <2>3 DEF RecordsDescend
<1>9. ArraysApart'
  <2>1. Lowest' = Lowest - size
    BY <1>1, <1>4, <1>5 DEF Lowest
  <2> QED BY <1>3, <1>6, <2>1 DEF ArraysApart
<1>10. SlotArrayIntact'
  BY <1>3, <1>6 DEF SlotArrayIntact
<1> QED BY <1>7, <1>8, <1>9, <1>10 DEF PageInv

LEMMA NextPage == ASSUME PageInv, [Next]_vars PROVE PageInv'
<1>1. ASSUME NEW size \in Sizes, NEW v \in Values, Insert(size, v) PROVE PageInv'
  <2>1. size \in Nat
    BY RecordsAssumption
  <2>2. CASE InsertInvalidSize(size) \/ InsertUnderflow(size) \/ InsertPageFull(size)
    BY <2>2, RefusalKeepsInv
       DEF InsertInvalidSize, InsertUnderflow, InsertPageFull, Outcomes
  <2>3. CASE InsertOutOfBounds(size)
    BY <2>1, <2>3, OutOfBoundsKeepsInv
  <2>4. CASE InsertOk(size, v)
    BY <2>1, <2>4, InsertOkKeepsInv
  <2> QED BY <1>1, <2>2, <2>3, <2>4 DEF Insert
<1>2. CASE UNCHANGED vars
  BY <1>2, RefusalKeepsInv DEF vars, PageInv, SlotsOK
<1> QED BY <1>1, <1>2 DEF Next

\* Whatever is inserted, into a page of any size and in either build, the
\* records of a page do not overlap and stay clear of its slot array.
THEOREM PageIsSafe == Spec => []PageInv
BY InitPage, NextPage, PTL DEF Spec

\* Every slot that counts names bytes of the page, and there are no more slots
\* than the page has room for (page/mod.rs, insert and get_slot).
THEOREM PageIsWellTyped == Spec => []TypeOK
BY InvGivesType, PageIsSafe, PTL

\* The entries a reader decodes are the entries that insert encoded: no record
\* is written over the slot array, not even when an offset wraps around.
THEOREM SlotsStayIntact == Spec => []SlotArrayIntact
<1>1. PageInv => SlotArrayIntact
  BY DEF PageInv
<1> QED BY <1>1, PageIsSafe, PTL

-----------------------------------------------------------------------------
(* What a reader sees of an insert. *)

LEMMA SameBytesSameRecord ==
    ASSUME PageInv, NEW i \in 1 .. numEntries, slot'[i] = slot[i],
           \A b \in Bytes : b >= slot[i].offset => byte'[b] = byte[b]
    PROVE  get_slot(i)' = get_slot(i)
<1>1. /\ slot[i].offset \in Nat /\ slot[i].size \in Nat
      /\ Lowest <= slot[i].offset /\ slot[i].offset + slot[i].size <= PageSize
      /\ HeaderSize <= Lowest /\ Lowest \in Nat /\ HeaderSize \in Nat /\ PageSize \in Nat
  BY RecordsAboveSlots, SizesAssumption
<1>2. \A k \in 1 .. slot[i].size : byte'[slot[i].offset + k - 1] = byte[slot[i].offset + k - 1]
  <2> TAKE k \in 1 .. slot[i].size
  <2>1. slot[i].offset + k - 1 \in Bytes /\ slot[i].offset + k - 1 >= slot[i].offset
    BY <1>1 DEF Bytes
  <2> QED BY <2>1
<1> QED BY <1>2 DEF get_slot

LEMMA InsertKeepsRecords ==
    ASSUME PageInv, NEW size \in Nat, NEW v \in Values, InsertOk(size, v),
           NEW i \in 1 .. numEntries
    PROVE  get_slot(i)' = get_slot(i)
<1>1. slot'[i] = slot[i]
  BY EntryAppended DEF InsertOk, Placed
<1>2. \A b \in Bytes : b >= Lowest => byte'[b] = byte[b]
  BY InsertWritesBelow
<1>3. \A b \in Bytes : b >= slot[i].offset => byte'[b] = byte[b]
  <2>1. Lowest \in Nat /\ slot[i].offset \in Nat /\ Lowest <= slot[i].offset
        /\ \A b \in Bytes : b \in Int
    BY RecordsAboveSlots, SizesAssumption DEF Bytes
  <2> QED BY <1>2, <2>1
<1> QED BY <1>1, <1>3, SameBytesSameRecord

\* Behind the place of the next entry nothing changes.
LEMMA StepKeepsRecordsBehind ==
    ASSUME PageInv, [Next]_vars, NEW i \in 1 .. numEntries,
           slot[i].offset >= new_freespace_start
    PROVE  get_slot(i)' = get_slot(i)
<1>1. ASSUME UNCHANGED <<byte, slot>> PROVE get_slot(i)' = get_slot(i)
  BY <1>1 DEF get_slot
<1>2. ASSUME NEW size \in Sizes, NEW v \in Values, Insert(size, v)
      PROVE  get_slot(i)' = get_slot(i)
  <2>1. size \in Nat
    BY RecordsAssumption
  <2>2. CASE InsertInvalidSize(size) \/ InsertUnderflow(size) \/ InsertPageFull(size)
    BY <1>1, <2>2 DEF InsertInvalidSize, InsertUnderflow, InsertPageFull
  <2>3. CASE InsertOutOfBounds(size)
    <3>1. slot'[i] = slot[i] /\ byte' = EntryWritten
      BY <2>1, <2>3, EntryAppended DEF InsertOutOfBounds, Placed
    <3>2. \A b \in Bytes : b >= slot[i].offset => b \notin EntryBytes
      BY RecordsAboveSlots, SizesAssumption DEF EntryBytes, Bytes
    <3>3. \A b \in Bytes : b >= slot[i].offset => byte'[b] = byte[b]
      BY <3>1, <3>2 DEF EntryWritten
    <3> QED BY <3>1, <3>3, SameBytesSameRecord
  <2>4. CASE InsertOk(size, v)
    BY <2>1, <2>4, InsertKeepsRecords
  <2> QED BY <1>2, <2>2, <2>3, <2>4 DEF Insert
<1> QED BY <1>1, <1>2 DEF Next, vars

\* Whatever an insert does, in either build, a record that begins behind the
\* place of the next slot entry reads as before.
THEOREM RecordsBehindAreKept == Spec => RecordsBehindNextEntryKept
<1>1. PageInv /\ [Next]_vars =>
         [\A i \in 1 .. numEntries :
             slot[i].offset >= new_freespace_start => get_slot(i)' = get_slot(i)]_vars
  BY StepKeepsRecordsBehind
<1> QED BY <1>1, PageIsSafe, PTL DEF Spec, RecordsBehindNextEntryKept

-----------------------------------------------------------------------------
(* The refinement of RecordList. *)

\* What the instance List sees.
Records == IF OverflowChecks THEN [i \in 1 .. numEntries |-> get_slot(i)] ELSE <<>>

LEMMA InitLists == Init => List!Init
<1> SUFFICES ASSUME Init PROVE Records = <<>>
  BY DEF List!Init, Records
<1>1. [i \in 1 .. 0 |-> get_slot(i)] = <<>>
  OBVIOUS
<1> QED BY <1>1 DEF Init, Records

\* Where overflow checks are on, no record gets past the end of the page.
LEMMA CheckedInsertsFit ==
    ASSUME PageInv, NEW size \in Nat, OverflowChecks
    PROVE  ~ InsertOutOfBounds(size)
BY CheckedOffset DEF InsertOutOfBounds, Placed

LEMMA InsertAppendsRecord ==
    ASSUME PageInv, NEW size \in Sizes, NEW v \in Values, InsertOk(size, v), OverflowChecks
    PROVE  \E bytes \in Payloads : Records' = Append(Records, bytes)
<1> DEFINE payload == [k \in 1 .. size |-> v]
           s == [i \in 1 .. numEntries |-> get_slot(i)]
           t == [i \in 1 .. numEntries + 1 |-> IF i = numEntries + 1 THEN payload ELSE get_slot(i)]
           S == {t[i] : i \in 1 .. numEntries + 1}
<1>1. /\ size \in Nat /\ payload \in Payloads /\ numEntries \in Nat
      /\ numEntries' = numEntries + 1 /\ build' = build
  BY RecordsAssumption DEF Payloads, PageInv, SlotsOK, InsertOk
<1>2. /\ slot'[numEntries + 1].offset = Lowest - size
      /\ slot'[numEntries + 1].size = size
      /\ Lowest \in Nat /\ size <= Lowest
      /\ \A b \in Lowest - size .. Lowest - 1 : byte'[b] = v
  <2>1. slot'[numEntries + 1] = [offset |-> Offset(size), size |-> size]
    BY <1>1, EntryAppended DEF InsertOk, Placed
  <2>2. /\ size <= Lowest /\ Offset(size) = Lowest - size
        /\ \A b \in Offset(size) .. Lowest - 1 : byte'[b] = v
    BY <1>1, InsertWritesBelow
  <2> QED BY <2>1, <2>2, RecordsAboveSlots
<1>3. ASSUME NEW i, i = numEntries + 1 PROVE get_slot(i)' = payload
  <2>1. \A k \in 1 .. size : byte'[Lowest - size + k - 1] = v
    BY <1>1, <1>2
  <2>2. get_slot(i)' = [k \in 1 .. size |-> byte'[Lowest - size + k - 1]]
    BY <1>2, <1>3 DEF get_slot
  <2> QED BY <2>1, <2>2
<1>4. \A i \in 1 .. numEntries : get_slot(i)' = get_slot(i)
  BY <1>1, InsertKeepsRecords
<1>5. Records' = t
  <2>1. Records' = [i \in 1 .. numEntries + 1 |-> get_slot(i)']
    BY <1>1 DEF Records, OverflowChecks
  <2>2. \A i \in 1 .. numEntries + 1 : get_slot(i)' = t[i]
    BY <1>1, <1>3, <1>4
  <2> QED BY <2>1, <2>2
<1>6. Records = s /\ t[numEntries + 1] = payload
  BY <1>1 DEF Records
<1>7. s \in [1 .. numEntries -> S] /\ t \in [1 .. numEntries + 1 -> S]
      /\ \A i \in 1 .. numEntries : t[i] = s[i]
  <2>1. \A i \in 1 .. numEntries : i \in 1 .. numEntries + 1 /\ t[i] = s[i]
    BY <1>1
  <2> QED BY <2>1
<1> HIDE DEF s, t, S, payload
<1>8. t = Append(s, t[numEntries + 1])
  BY <1>1, <1>7, OneElementMore
<1> QED BY <1>1, <1>5, <1>6, <1>8

LEMMA NextLists == ASSUME PageInv, [Next]_vars PROVE [List!Insert]_Records
<1>1. build' = build
  BY DEF Next, Insert, InsertInvalidSize, InsertUnderflow, InsertPageFull, InsertOutOfBounds,
         InsertOk, vars
<1>2. CASE ~ OverflowChecks
  BY <1>1, <1>2 DEF Records, OverflowChecks
<1>3. ASSUME UNCHANGED <<byte, slot, numEntries>> PROVE Records' = Records
  BY <1>1, <1>3 DEF Records, OverflowChecks, get_slot
<1>4. ASSUME NEW size \in Sizes, NEW v \in Values, Insert(size, v), OverflowChecks
      PROVE  [List!Insert]_Records
  <2>1. CASE InsertInvalidSize(size) \/ InsertUnderflow(size) \/ InsertPageFull(size)
    BY <1>3, <2>1 DEF InsertInvalidSize, InsertUnderflow, InsertPageFull
  <2>2. CASE InsertOk(size, v)
    BY <1>4, <2>2, InsertAppendsRecord DEF List!Insert, Records
  <2> QED BY <1>4, <2>1, <2>2, CheckedInsertsFit, RecordsAssumption DEF Insert
<1> QED BY <1>2, <1>3, <1>4 DEF Next, vars

\* In a debug build a page is an append-only list of records: whatever sizes
\* are inserted, a slot number once returned names the bytes that were inserted
\* for as long as the page exists.
THEOREM PageImplementsRecordList == Spec => ImplementsRecordList
<1>1. PageInv /\ [Next]_vars => [List!Insert]_Records
  BY NextLists
<1> QED BY <1>1, InitLists, PageIsSafe, PTL DEF Spec, ImplementsRecordList, List!Spec, Records
=============================================================================
