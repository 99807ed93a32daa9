--------------------------- MODULE HeapTableProofs ---------------------------
(***************************************************************************)
(* Proofs about HeapTable for files of any length and rows of any size,    *)
(* wherever the process is killed.                                         *)
(***************************************************************************)
EXTENDS HeapTable, SequenceTheorems, FiniteSetTheorems, TLAPS

-----------------------------------------------------------------------------
(* Sequences and numbers. *)

\* What appending does, in terms of the domain.
LEMMA AppendedDomain ==
    ASSUME NEW S, NEW s \in Seq(S), NEW e \in S
    PROVE  /\ Append(s, e) \in Seq(S) /\ Len(Append(s, e)) = Len(s) + 1
           /\ DOMAIN Append(s, e) = DOMAIN s \cup {Len(s) + 1}
           /\ Len(s) + 1 \notin DOMAIN s
           /\ \A i \in DOMAIN s : Append(s, e)[i] = s[i]
           /\ Append(s, e)[Len(s) + 1] = e
<1>1. Len(s) \in Nat /\ DOMAIN s = 1 .. Len(s)
  BY LenProperties
<1>2. /\ Append(s, e) \in Seq(S) /\ Len(Append(s, e)) = Len(s) + 1
      /\ \A i \in 1 .. Len(s) : Append(s, e)[i] = s[i]
      /\ Append(s, e)[Len(s) + 1] = e
  BY AppendProperties
<1>3. DOMAIN Append(s, e) = 1 .. Len(s) + 1
  BY <1>2, LenProperties
<1>4. 1 .. Len(s) + 1 = (1 .. Len(s)) \cup {Len(s) + 1}
  BY <1>1
<1> QED BY <1>1, <1>2, <1>3, <1>4

-----------------------------------------------------------------------------
(* The inductive invariant. *)

\* A page's header has its number, but for the blocks that were never formatted.
PagesNamed ==
    /\ unformatted \subseteq 1 .. num_pages - 1
    /\ \A n \in 1 .. num_pages - 1 : page[n].page_id = IF n \in unformatted THEN 0 ELSE n

\* A page on disk is an earlier state of the page in the pool.
DiskLagsBehind ==
    \A n \in 1 .. num_pages - 1 :
        /\ disk[n] = ZeroPage \/ disk[n].page_id = page[n].page_id
        /\ Len(disk[n].rows) <= Len(page[n].rows)
        /\ \A k \in 1 .. Len(disk[n].rows) : disk[n].rows[k] = page[n].rows[k]

\* The ids that were handed out are of pages of the file.
RidsInFile == \A i \in inserted : i.at \in 1 .. num_pages - 1

\* An insert has room on a page of its own, and needs only one.
InsertEnds ==
    Inserting =>
        /\ ~ TooLarge(call.row)
        /\ call.created \in 0 .. 1
        /\ call.created = 1 => /\ current_heap_page < num_pages
                               /\ page[current_heap_page].rows = <<>>

\* The rows found are those of a part of the matching slots, in their order.
RowsFound(slots) ==
    /\ Len(out) = Cardinality(slots)
    /\ \A p \in slots : out[Cardinality({q \in Matching : Before(q, p)}) + 1] = RowAt(p)

\* The slots a scan has behind it.
Seen == {p \in Matching : Before(p, <<call.page, call.slot + 1>>)}

ScanFollows ==
    /\ call.op = "Scan" =>
          /\ call.num_pages = num_pages /\ call.page <= num_pages
          /\ IF call.page < num_pages THEN call.slot <= Len(page[call.page].rows)
                                      ELSE call.slot = 0
          /\ RowsFound(Seen)
    /\ call.op = "Found" => RowsFound(Matching)

FileInv ==
    /\ TypeOK
    /\ PagesNamed
    /\ DiskLagsBehind
    /\ RidsInFile
    /\ RidNamesRow

HeapInv ==
    /\ FileInv
    /\ InsertEnds
    /\ ScanFollows

-----------------------------------------------------------------------------
(* The room on a page. *)

LEMMA NoBytes == Bytes(<<>>) = 0
<1>1. DOMAIN <<>> = {}
  OBVIOUS
<1> DEFINE iter[s \in SUBSET {}] ==
              IF s = {} THEN 0
                        ELSE LET x == CHOOSE x \in s : TRUE
                             IN  RowSize[<<>>[x]] + iter[s \ {x}]
<1>2. iter[{}] = 0
  <2>1. \E f : f = [s \in SUBSET {} |->
                      IF s = {} THEN 0
                                ELSE LET x == CHOOSE x \in s : TRUE
                                     IN  RowSize[<<>>[x]] + f[s \ {x}]]
    <3> WITNESS [s \in SUBSET {} |-> 0]
    <3> QED OBVIOUS
  <2>2. iter = [s \in SUBSET {} |->
                  IF s = {} THEN 0
                            ELSE LET x == CHOOSE x \in s : TRUE
                                 IN  RowSize[<<>>[x]] + iter[s \ {x}]]
    BY <2>1
  <2> QED BY <2>2
<1>3. MapThenSumSet(LAMBDA i : RowSize[<<>>[i]], {}) = iter[{}]
  BY DEF MapThenSumSet, MapThenFoldSet
<1> QED BY <1>1, <1>2, <1>3 DEF Bytes

\* A record that is not refused fits on an empty page: insert_record's check
\* counts the header and the slot entry as insert does.
LEMMA EmptyPageFits ==
    ASSUME NEW r \in Rows, ~ TooLarge(r)
    PROVE  Fits(<<>>, r) /\ ~ Underflows(<<>>, r)
<1>1. RowSize[r] \in Nat /\ PageSize \in Nat /\ HeaderSize \in Nat /\ SlotSize \in Nat
  BY RowsAssumption, SizesAssumption
<1>2. Lowest(<<>>) = PageSize
  BY <1>1, NoBytes DEF Lowest
<1>3. Len(<<>>) = 0 /\ SlotSize * 1 = SlotSize
  BY <1>1, EmptySeq
<1> QED BY <1>1, <1>2, <1>3 DEF Fits, Underflows, TooLarge

-----------------------------------------------------------------------------
(* The slots of the file. *)

LEMMA SlotsAre ==
    \A p : p \in Slots <=> \E n \in 1 .. num_pages - 1 : \E i \in DOMAIN page[n].rows : p = <<n, i>>
BY DEF Slots

LEMMA PageTypes ==
    ASSUME FileInv
    PROVE  /\ num_pages \in Nat /\ num_pages >= 1 /\ num_pages <= MaxPages /\ MaxPages \in Nat
           /\ 1 .. num_pages - 1 \subseteq HeapPages
           /\ \A n \in HeapPages : n \in Nat /\ n >= 1 /\ n < MaxPages
           /\ \A n \in HeapPages :
                 /\ page[n] \in Page /\ disk[n] \in Page
                 /\ page[n].rows \in Seq(Rows) /\ disk[n].rows \in Seq(Rows)
                 /\ DOMAIN page[n].rows = 1 .. Len(page[n].rows) /\ Len(page[n].rows) \in Nat
                 /\ DOMAIN disk[n].rows = 1 .. Len(disk[n].rows) /\ Len(disk[n].rows) \in Nat
<1>1. /\ num_pages \in Nat /\ num_pages >= 1 /\ num_pages <= MaxPages /\ MaxPages \in Nat
      /\ 1 .. num_pages - 1 \subseteq HeapPages
      /\ \A n \in HeapPages : n \in Nat /\ n >= 1 /\ n < MaxPages
  BY SizesAssumption DEF FileInv, TypeOK, HeapPages
<1>2. \A n \in HeapPages : /\ page[n] \in Page /\ disk[n] \in Page
                           /\ page[n].rows \in Seq(Rows) /\ disk[n].rows \in Seq(Rows)
  BY DEF FileInv, TypeOK, Page
<1>3. \A n \in HeapPages :
         /\ DOMAIN page[n].rows = 1 .. Len(page[n].rows) /\ Len(page[n].rows) \in Nat
         /\ DOMAIN disk[n].rows = 1 .. Len(disk[n].rows) /\ Len(disk[n].rows) \in Nat
  BY <1>2, LenProperties
<1> QED BY <1>1, <1>2, <1>3

LEMMA SlotsFinite == ASSUME FileInv PROVE IsFiniteSet(Slots)
<1> DEFINE pages == {{n} \X DOMAIN page[n].rows : n \in 1 .. num_pages - 1}
           f == [n \in 1 .. num_pages - 1 |-> {n} \X DOMAIN page[n].rows]
<1>1. num_pages - 1 \in Int
  BY PageTypes
<1>2. IsFiniteSet(1 .. num_pages - 1)
  BY <1>1, FS_Interval
<1>3. f \in Surjection(1 .. num_pages - 1, pages)
  BY DEF Surjection
<1>4. IsFiniteSet(pages)
  <2> HIDE DEF f, pages
  <2> QED BY <1>2, <1>3, FS_Surjection
<1>5. ASSUME NEW T \in pages PROVE IsFiniteSet(T)
  <2>1. PICK n \in 1 .. num_pages - 1 : T = {n} \X DOMAIN page[n].rows
    BY <1>5
  <2>2. n \in HeapPages
    BY PageTypes
  <2>3. DOMAIN page[n].rows = 1 .. Len(page[n].rows) /\ Len(page[n].rows) \in Nat
    BY <2>2, PageTypes
  <2>4. IsFiniteSet(DOMAIN page[n].rows)
    BY <2>3, FS_Interval
  <2>5. IsFiniteSet({n})
    BY FS_Singleton
  <2> QED BY <2>1, <2>4, <2>5, FS_Product
<1>6. IsFiniteSet(UNION pages)
  <2> HIDE DEF pages
  <2> QED BY <1>4, <1>5, FS_UNION
<1> QED BY <1>6 DEF Slots

\* Slots come one after the other.
LEMMA SlotsInOrder ==
    ASSUME FileInv
    PROVE  /\ \A p \in Slots : /\ p = <<p[1], p[2]>> /\ p[1] \in Nat /\ p[2] \in Nat
                               /\ p[1] \in 1 .. num_pages - 1
                               /\ p[2] \in 1 .. Len(page[p[1]].rows)
           /\ \A p \in Slots : ~ Before(p, p)
           /\ \A p, q, r : p[1] \in Nat /\ p[2] \in Nat /\ q[1] \in Nat /\ q[2] \in Nat
                 /\ r[1] \in Nat /\ r[2] \in Nat /\ Before(p, q) /\ Before(q, r) => Before(p, r)
<1>1. ASSUME NEW p \in Slots
      PROVE  /\ p = <<p[1], p[2]>> /\ p[1] \in Nat /\ p[2] \in Nat
             /\ p[1] \in 1 .. num_pages - 1 /\ p[2] \in 1 .. Len(page[p[1]].rows)
  <2>1. PICK n \in 1 .. num_pages - 1 : \E i \in DOMAIN page[n].rows : p = <<n, i>>
    BY SlotsAre
  <2>2. PICK i \in DOMAIN page[n].rows : p = <<n, i>>
    BY <2>1
  <2>3. n \in HeapPages /\ DOMAIN page[n].rows = 1 .. Len(page[n].rows)
        /\ Len(page[n].rows) \in Nat /\ n \in Nat
    BY PageTypes
  <2> QED BY <2>2, <2>3
<1>2. \A p \in Slots : ~ Before(p, p)
  BY <1>1 DEF Before
<1>3. \A p, q, r : p[1] \in Nat /\ p[2] \in Nat /\ q[1] \in Nat /\ q[2] \in Nat
         /\ r[1] \in Nat /\ r[2] \in Nat /\ Before(p, q) /\ Before(q, r) => Before(p, r)
  BY DEF Before
<1> QED BY <1>1, <1>2, <1>3

-----------------------------------------------------------------------------
(* The first states. *)

LEMMA InitHeap == ASSUME Init PROVE HeapInv
<1>1. MaxPages \in Nat /\ MaxPages >= 2 /\ MaxKills \in Nat
  BY SizesAssumption
<1>2. 1 \in HeapPages /\ num_pages \in 1 .. MaxPages /\ <<>> \in Seq(Rows)
  BY <1>1 DEF Init, HeapPages
<1>3. \A n \in HeapPages : BlankPage(n) \in Page /\ ZeroPage \in Page
  BY <1>1, <1>2 DEF HeapPages, BlankPage, ZeroPage, Page
<1>4. TypeOK
  BY <1>1, <1>2, <1>3 DEF Init, TypeOK
<1>5. \A n \in 1 .. num_pages - 1 : n \in HeapPages
  BY <1>1 DEF Init, HeapPages
<1>6. PagesNamed
  BY <1>5 DEF Init, PagesNamed, BlankPage
<1>7. DiskLagsBehind
  BY <1>5, EmptySeq DEF Init, DiskLagsBehind, BlankPage, ZeroPage
<1>8. RidsInFile /\ RidNamesRow
  BY DEF Init, RidsInFile, RidNamesRow
<1>9. InsertEnds /\ ScanFollows
  BY DEF Init, InsertEnds, Inserting, ScanFollows, Idle
<1> QED BY <1>4, <1>6, <1>7, <1>8, <1>9 DEF HeapInv, FileInv

-----------------------------------------------------------------------------
(* What an action does to the file. *)

\* A page is added to the file: empty, with the row it was created for, or as
\* the bare block.
LEMMA PageAdded ==
    ASSUME FileInv, NextPage, NEW P \in Page, TypeOK',
           page' = [page EXCEPT ![num_pages] = P],
           unformatted' \in {unformatted, unformatted \cup {num_pages}},
           P.page_id = IF num_pages \in unformatted' THEN 0 ELSE num_pages,
           inserted \subseteq inserted',
           \A i \in inserted' \ inserted :
              /\ i.at = num_pages /\ i.rid.page = P.page_id
              /\ i.rid.slot + 1 \in DOMAIN P.rows /\ P.rows[i.rid.slot + 1] = i.row
    PROVE  FileInv'
<1> DEFINE N == num_pages
<1>1. /\ N \in Nat /\ N >= 1 /\ N < MaxPages /\ MaxPages \in Nat /\ N \in HeapPages
      /\ num_pages' = N + 1
      /\ disk' = [disk EXCEPT ![N] = ZeroPage]
  BY PageTypes DEF NextPage, HeapPages
<1>2. /\ page' \in [HeapPages -> Page] /\ page'[N] = P
      /\ disk' \in [HeapPages -> Page] /\ disk'[N] = ZeroPage
      /\ \A n \in 1 .. N - 1 : n \in HeapPages /\ n # N /\ page'[n] = page[n] /\ disk'[n] = disk[n]
  BY <1>1, PageTypes DEF FileInv, TypeOK
<1>3. 1 .. num_pages' - 1 = (1 .. N - 1) \cup {N} /\ N \notin 1 .. N - 1
  BY <1>1
<1>4. unformatted \subseteq 1 .. N - 1
  BY DEF FileInv, PagesNamed
<1>5. \A n \in 1 .. N - 1 : n \in unformatted' <=> n \in unformatted
  BY <1>2
<1>6. PagesNamed'
  <2>1. unformatted' \subseteq 1 .. num_pages' - 1
    BY <1>3, <1>4
  <2>2. ASSUME NEW n \in 1 .. num_pages' - 1
        PROVE  page'[n].page_id = IF n \in unformatted' THEN 0 ELSE n
    <3>1. CASE n = N
      BY <3>1, <1>2
    <3>2. CASE n \in 1 .. N - 1
      BY <3>2, <1>2, <1>5 DEF FileInv, PagesNamed
    <3> QED BY <3>1, <3>2, <1>3
  <2> QED BY <2>1, <2>2 DEF PagesNamed
<1>7. DiskLagsBehind'
  <2>1. ASSUME NEW n \in 1 .. num_pages' - 1
        PROVE  /\ disk'[n] = ZeroPage \/ disk'[n].page_id = page'[n].page_id
               /\ Len(disk'[n].rows) <= Len(page'[n].rows)
               /\ \A k \in 1 .. Len(disk'[n].rows) : disk'[n].rows[k] = page'[n].rows[k]
    <3>1. CASE n = N
      <4>1. Len(ZeroPage.rows) = 0
        BY EmptySeq DEF ZeroPage
      <4>2. Len(P.rows) \in Nat
        BY LenProperties DEF Page
      <4> QED BY <3>1, <4>1, <4>2, <1>2
    <3>2. CASE n \in 1 .. N - 1
      BY <3>2, <1>2 DEF FileInv, DiskLagsBehind
    <3> QED BY <3>1, <3>2, <1>3
  <2> QED BY <2>1 DEF DiskLagsBehind
<1>8. ASSUME NEW i \in inserted'
      PROVE  /\ i.at \in 1 .. num_pages' - 1
             /\ i.rid.page = IF i.at \in unformatted' THEN 0 ELSE i.at
             /\ i.rid.slot + 1 \in DOMAIN page'[i.at].rows
             /\ page'[i.at].rows[i.rid.slot + 1] = i.row
  <2>1. CASE i \in inserted
    <3>1. i.at \in 1 .. N - 1
      BY <2>1 DEF FileInv, RidsInFile
    <3> QED BY <2>1, <3>1, <1>2, <1>3, <1>5 DEF FileInv, RidNamesRow
  <2>2. CASE i \notin inserted
    BY <2>2, <1>2, <1>3
  <2> QED BY <2>1, <2>2
<1>9. RidsInFile' /\ RidNamesRow'
  BY <1>8 DEF RidsInFile, RidNamesRow
<1> QED BY <1>6, <1>7, <1>9 DEF FileInv

\* A row is appended to a page, and the id of its slot handed out.
LEMMA RowAdded ==
    ASSUME FileInv, NEW n \in 1 .. num_pages - 1, NEW r \in Rows, TypeOK',
           page' = [page EXCEPT ![n].rows = Append(@, r)],
           inserted' = inserted \cup {[rid |-> [page |-> page[n].page_id,
                                               slot |-> Len(page[n].rows)],
                                      row |-> r, at |-> n]},
           UNCHANGED <<num_pages, disk, unformatted>>
    PROVE  FileInv'
<1> DEFINE rows == page[n].rows
<1>1. /\ n \in HeapPages /\ page[n] \in Page /\ rows \in Seq(Rows)
      /\ DOMAIN rows = 1 .. Len(rows) /\ Len(rows) \in Nat
  BY PageTypes
<1>2. /\ page' = [page EXCEPT ![n] = [page[n] EXCEPT !.rows = Append(rows, r)]]
      /\ page \in [HeapPages -> Page]
  BY DEF FileInv, TypeOK
<1>3. /\ page'[n].page_id = page[n].page_id /\ page'[n].rows = Append(rows, r)
      /\ \A m \in 1 .. num_pages - 1 : m \in HeapPages /\ (m # n => page'[m] = page[m])
  <2>1. page'[n] = [page[n] EXCEPT !.rows = Append(rows, r)]
    BY <1>1, <1>2
  <2>2. ASSUME NEW pg \in Page, NEW rs
        PROVE  [pg EXCEPT !.rows = rs].page_id = pg.page_id /\ [pg EXCEPT !.rows = rs].rows = rs
    BY DEF Page
  <2>3. /\ [page[n] EXCEPT !.rows = Append(rows, r)].page_id = page[n].page_id
        /\ [page[n] EXCEPT !.rows = Append(rows, r)].rows = Append(rows, r)
    <3> HIDE DEF rows
    <3> QED BY <1>1, <2>2, Zenon
  <2>4. page'[n].page_id = page[n].page_id /\ page'[n].rows = Append(rows, r)
    BY <2>1, <2>3, Zenon
  <2> QED BY <1>2, <2>4, PageTypes
<1>4. /\ Len(Append(rows, r)) = Len(rows) + 1
      /\ DOMAIN Append(rows, r) = DOMAIN rows \cup {Len(rows) + 1}
      /\ \A k \in DOMAIN rows : Append(rows, r)[k] = rows[k]
      /\ Append(rows, r)[Len(rows) + 1] = r
  BY <1>1, AppendedDomain
<1>5. \A m \in 1 .. num_pages - 1 :
         /\ page'[m].page_id = page[m].page_id
         /\ \A k \in DOMAIN page[m].rows : /\ k \in DOMAIN page'[m].rows
                                            /\ page'[m].rows[k] = page[m].rows[k]
         /\ Len(page[m].rows) <= Len(page'[m].rows)
  <2> TAKE m \in 1 .. num_pages - 1
  <2>1. Len(page[m].rows) \in Nat /\ DOMAIN page[m].rows = 1 .. Len(page[m].rows)
    BY PageTypes
  <2> HIDE DEF rows
  <2>2. CASE m = n
    BY <2>1, <2>2, <1>1, <1>3, <1>4 DEF rows
  <2>3. CASE m # n
    BY <2>1, <2>3, <1>3
  <2> QED BY <2>2, <2>3
<1>6. PagesNamed'
  BY <1>5 DEF FileInv, PagesNamed
<1>7. DiskLagsBehind'
  <2>1. ASSUME NEW m \in 1 .. num_pages - 1
        PROVE  /\ disk[m] = ZeroPage \/ disk[m].page_id = page'[m].page_id
               /\ Len(disk[m].rows) <= Len(page'[m].rows)
               /\ \A k \in 1 .. Len(disk[m].rows) : disk[m].rows[k] = page'[m].rows[k]
    <3>1. /\ m \in HeapPages /\ DOMAIN page[m].rows = 1 .. Len(page[m].rows)
          /\ Len(page[m].rows) \in Nat /\ Len(disk[m].rows) \in Nat
      BY PageTypes
    <3>2. Len(page'[m].rows) \in Nat
      <4>1. m \in HeapPages => page'[m].rows \in Seq(Rows)
        BY DEF TypeOK, Page
      <4> QED BY <4>1, <3>1, LenProperties
    <3>3. /\ disk[m] = ZeroPage \/ disk[m].page_id = page[m].page_id
          /\ Len(disk[m].rows) <= Len(page[m].rows)
          /\ \A k \in 1 .. Len(disk[m].rows) : disk[m].rows[k] = page[m].rows[k]
      BY DEF FileInv, DiskLagsBehind
    <3>4. \A k \in 1 .. Len(disk[m].rows) : k \in DOMAIN page[m].rows
      BY <3>1, <3>3
    <3> QED BY <3>1, <3>2, <3>3, <3>4, <1>5
  <2> QED BY <2>1 DEF DiskLagsBehind
<1>8. ASSUME NEW i \in inserted'
      PROVE  /\ i.at \in 1 .. num_pages - 1
             /\ i.rid.page = IF i.at \in unformatted THEN 0 ELSE i.at
             /\ i.rid.slot + 1 \in DOMAIN page'[i.at].rows
             /\ page'[i.at].rows[i.rid.slot + 1] = i.row
  <2>1. CASE i \in inserted
    <3>1. i.at \in 1 .. num_pages - 1
      BY <2>1 DEF FileInv, RidsInFile
    <3> QED BY <2>1, <3>1, <1>5 DEF FileInv, RidNamesRow
  <2>2. CASE i = [rid |-> [page |-> page[n].page_id, slot |-> Len(rows)], row |-> r, at |-> n]
    <3>1. page[n].page_id = IF n \in unformatted THEN 0 ELSE n
      BY DEF FileInv, PagesNamed
    <3> HIDE DEF rows
    <3> QED BY <2>2, <3>1, <1>3, <1>4
  <2> QED BY <2>1, <2>2
<1>9. RidsInFile' /\ RidNamesRow'
  BY <1>8 DEF RidsInFile, RidNamesRow
<1> QED BY <1>6, <1>7, <1>9 DEF FileInv

\* Nothing happens to the file.
LEMMA FileKept ==
    ASSUME FileInv, TypeOK', UNCHANGED <<num_pages, page, disk, inserted, unformatted>>
    PROVE  FileInv'
BY DEF FileInv, PagesNamed, DiskLagsBehind, RidsInFile, RidNamesRow

\* One page reaches the disk, or all of them do.
LEMMA FileWritten ==
    ASSUME FileInv, TypeOK', UNCHANGED <<num_pages, page, inserted, unformatted>>,
           \A n \in 1 .. num_pages - 1 : disk'[n] = disk[n] \/ disk'[n] = page[n]
    PROVE  FileInv'
<1>1. PagesNamed' /\ RidsInFile' /\ RidNamesRow'
  BY DEF FileInv, PagesNamed, RidsInFile, RidNamesRow
<1>2. ASSUME NEW n \in 1 .. num_pages - 1
      PROVE  /\ disk'[n] = ZeroPage \/ disk'[n].page_id = page[n].page_id
             /\ Len(disk'[n].rows) <= Len(page[n].rows)
             /\ \A k \in 1 .. Len(disk'[n].rows) : disk'[n].rows[k] = page[n].rows[k]
  <2>1. Len(page[n].rows) \in Nat
    BY PageTypes
  <2>2. CASE disk'[n] = disk[n]
    BY <2>2 DEF FileInv, DiskLagsBehind
  <2>3. CASE disk'[n] = page[n]
    BY <2>1, <2>3
  <2> QED BY <2>2, <2>3
<1>3. DiskLagsBehind'
  BY <1>2 DEF DiskLagsBehind
<1> QED BY <1>1, <1>3 DEF FileInv

\* Of the pages only what is on disk remains.
LEMMA FileLost == ASSUME FileInv, TypeOK', Kill PROVE FileInv'
<1>1. /\ page' = disk /\ disk' = disk /\ num_pages' = num_pages
      /\ inserted' = {i \in inserted : i.rid.slot < Len(disk[i.at].rows)}
      /\ unformatted' = {n \in 1 .. num_pages - 1 : disk[n].page_id = 0}
  BY DEF Kill
<1>2. \A n \in 1 .. num_pages - 1 :
         /\ disk[n] = ZeroPage \/ disk[n].page_id = page[n].page_id
         /\ page[n].page_id = IF n \in unformatted THEN 0 ELSE n
         /\ Len(disk[n].rows) \in Nat /\ DOMAIN disk[n].rows = 1 .. Len(disk[n].rows)
  BY PageTypes DEF FileInv, DiskLagsBehind, PagesNamed
<1>3. ZeroPage.page_id = 0 /\ Len(ZeroPage.rows) = 0
  BY EmptySeq DEF ZeroPage
<1>4. PagesNamed'
  BY <1>1, <1>2, <1>3 DEF PagesNamed
<1>5. DiskLagsBehind'
  BY <1>1, <1>2 DEF DiskLagsBehind
<1>6. ASSUME NEW i \in inserted'
      PROVE  /\ i.at \in 1 .. num_pages - 1
             /\ i.rid.page = IF i.at \in unformatted' THEN 0 ELSE i.at
             /\ i.rid.slot + 1 \in DOMAIN disk[i.at].rows
             /\ disk[i.at].rows[i.rid.slot + 1] = i.row
  <2>1. i \in inserted /\ i.rid.slot < Len(disk[i.at].rows) /\ i.at \in 1 .. num_pages - 1
        /\ i.rid.slot \in Nat
    BY <1>1 DEF FileInv, RidsInFile, TypeOK, RecordId
  <2>2. /\ i.rid.page = IF i.at \in unformatted THEN 0 ELSE i.at
        /\ page[i.at].rows[i.rid.slot + 1] = i.row
    BY <2>1 DEF FileInv, RidNamesRow
  <2>3. i.rid.slot + 1 \in 1 .. Len(disk[i.at].rows)
    BY <2>1, <1>2
  <2>4. disk[i.at].rows[i.rid.slot + 1] = page[i.at].rows[i.rid.slot + 1]
    BY <2>1, <2>3 DEF FileInv, DiskLagsBehind
  <2>5. disk[i.at] # ZeroPage
    BY <2>1, <1>3
  <2>6. i.rid.page = disk[i.at].page_id
    BY <2>1, <2>2, <2>5, <1>2
  <2>7. i.at \in unformatted' <=> disk[i.at].page_id = 0
    BY <2>1, <1>1
  <2>8. i.rid.page = IF i.at \in unformatted' THEN 0 ELSE i.at
    BY <2>1, <2>2, <2>6, <2>7
  <2> QED BY <2>1, <2>2, <2>3, <2>4, <2>8, <1>2
<1>7. RidsInFile' /\ RidNamesRow'
  BY <1>1, <1>6 DEF RidsInFile, RidNamesRow
<1> QED BY <1>4, <1>5, <1>7 DEF FileInv

-----------------------------------------------------------------------------
(* Every action keeps the types. *)

\* The statement in progress, as the actions take it apart.
LEMMA CallTypes ==
    ASSUME FileInv
    PROVE  /\ call.op = "Insert" => /\ call.row \in Rows /\ call.created \in Nat
                                    /\ call = [op |-> "Insert", row |-> call.row,
                                               created |-> call.created]
           /\ call.op = "Scan" => /\ call.filter \in Filters /\ call.slot \in Nat
                                  /\ call.page \in Nat /\ call.page >= 1 /\ call.page <= MaxPages
                                  /\ call.num_pages \in Nat /\ call.num_pages <= MaxPages
                                  /\ call.num_pages \in 1 .. MaxPages
                                  /\ call = [op |-> "Scan", filter |-> call.filter,
                                             page |-> call.page, slot |-> call.slot,
                                             num_pages |-> call.num_pages]
           /\ call.op = "Found" => call.filter \in Filters
<1>1. call \in {Idle} \cup [op : {"Insert"}, row : Rows, created : Nat]
              \cup [op : {"Scan"}, filter : Filters, page : HeapPages \cup {MaxPages},
                    slot : Nat, num_pages : 1 .. MaxPages]
              \cup [op : {"Found"}, filter : Filters]
  BY DEF FileInv, TypeOK
<1>2. CASE call = Idle
  BY <1>2 DEF Idle
<1>3. CASE call \in [op : {"Insert"}, row : Rows, created : Nat]
  BY <1>3
<1>4. CASE call \in [op : {"Scan"}, filter : Filters, page : HeapPages \cup {MaxPages},
                     slot : Nat, num_pages : 1 .. MaxPages]
  BY <1>4, SizesAssumption DEF HeapPages
<1>5. CASE call \in [op : {"Found"}, filter : Filters]
  BY <1>5
<1> QED BY <1>1, <1>2, <1>3, <1>4, <1>5

\* The page that is created for a row has that row.
LEMMA NewPagePlaced ==
    ASSUME FileInv, num_pages < MaxPages, NEW r \in Rows
    PROVE  /\ [Created(page) EXCEPT ![num_pages].rows = Append(@, r)]
                 = [page EXCEPT ![num_pages] = [page_id |-> num_pages, rows |-> <<r>>]]
           /\ Created(page)[num_pages] = BlankPage(num_pages)
           /\ [page_id |-> num_pages, rows |-> <<r>>] \in Page
           /\ BlankPage(num_pages) \in Page /\ ZeroPage \in Page
           /\ num_pages \in HeapPages
<1>1. num_pages \in HeapPages /\ num_pages \in 0 .. MaxPages - 1 /\ 0 \in 0 .. MaxPages - 1
  BY PageTypes DEF HeapPages
<1>2. page \in [HeapPages -> Page]
  BY DEF FileInv, TypeOK
<1>3. Created(page)[num_pages] = BlankPage(num_pages) /\ Created(page) \in [HeapPages -> Page]
  <2>1. BlankPage(num_pages) \in Page
    BY <1>1 DEF BlankPage, Page
  <2> QED BY <1>1, <1>2, <2>1 DEF Created
<1>4. Append(<<>>, r) = <<r>> /\ <<r>> \in Seq(Rows) /\ <<>> \in Seq(Rows)
  OBVIOUS
<1>5. [BlankPage(num_pages) EXCEPT !.rows = Append(@, r)] = [page_id |-> num_pages, rows |-> <<r>>]
  BY <1>4 DEF BlankPage
<1>6. [Created(page) EXCEPT ![num_pages].rows = Append(@, r)]
         = [Created(page) EXCEPT ![num_pages] = [BlankPage(num_pages) EXCEPT !.rows = Append(@, r)]]
  BY <1>3
<1>7. [Created(page) EXCEPT ![num_pages] = [page_id |-> num_pages, rows |-> <<r>>]]
         = [page EXCEPT ![num_pages] = [page_id |-> num_pages, rows |-> <<r>>]]
  BY <1>1, <1>2 DEF Created
<1>8. /\ [page_id |-> num_pages, rows |-> <<r>>] \in Page
      /\ BlankPage(num_pages) \in Page /\ ZeroPage \in Page
  BY <1>1, <1>4 DEF Page, BlankPage, ZeroPage
<1> QED BY <1>1, <1>3, <1>5, <1>6, <1>7, <1>8

\* What the insertion of a row into a page does.
LEMMA PlacedTypes ==
    ASSUME FileInv, NEW n \in 1 .. num_pages - 1, NEW r \in Rows
    PROVE  /\ [page EXCEPT ![n].rows = Append(@, r)] \in [HeapPages -> Page]
           /\ [rid |-> [page |-> page[n].page_id, slot |-> Len(page[n].rows)], row |-> r, at |-> n]
                 \in [rid : RecordId, row : Rows, at : HeapPages]
<1>1. n \in HeapPages /\ page[n] \in Page /\ page[n].rows \in Seq(Rows) /\ Len(page[n].rows) \in Nat
      /\ page[n].page_id \in 0 .. MaxPages - 1
  BY PageTypes DEF Page
<1>2. Append(page[n].rows, r) \in Seq(Rows)
  BY <1>1, AppendProperties
<1>3. [page[n] EXCEPT !.rows = Append(page[n].rows, r)] \in Page
  BY <1>1, <1>2 DEF Page
<1>4. [page EXCEPT ![n].rows = Append(@, r)] \in [HeapPages -> Page]
  BY <1>1, <1>3 DEF FileInv, TypeOK
<1> QED BY <1>1, <1>4 DEF RecordId

\* What the actions do that put a row on the page of the table or add a page.
LEMMA InsertTypes ==
    ASSUME FileInv, InsertIntoCurrent \/ PageFull \/ InsertIntoNew \/ InsertFails
    PROVE  TypeOK'
<1>1. call.row \in Rows /\ call.created \in Nat
  BY CallTypes DEF InsertIntoCurrent, PageFull, InsertIntoNew, InsertFails, Inserting
<1>2. CASE InsertIntoCurrent
  <2>1. current_heap_page \in 1 .. num_pages - 1
    BY <1>2, PageTypes DEF InsertIntoCurrent, FileInv, TypeOK, HeapPages
  <2>2. /\ page' \in [HeapPages -> Page]
        /\ inserted' \subseteq [rid : RecordId, row : Rows, at : HeapPages]
    <3>1. /\ page' = [page EXCEPT ![current_heap_page].rows = Append(@, call.row)]
          /\ inserted' = inserted \cup
                {[rid |-> [page |-> page[current_heap_page].page_id,
                           slot |-> Len(page[current_heap_page].rows)],
                  row |-> call.row, at |-> current_heap_page]}
      BY <1>2 DEF InsertIntoCurrent, Placed
    <3>2. inserted \subseteq [rid : RecordId, row : Rows, at : HeapPages]
      BY DEF FileInv, TypeOK
    <3> QED BY <2>1, <1>1, <3>1, <3>2, PlacedTypes
  <2> QED BY <1>2, <2>2 DEF InsertIntoCurrent, Placed, FileInv, TypeOK
<1>3. CASE NextPage
  <2>1. /\ num_pages < MaxPages /\ num_pages \in HeapPages /\ num_pages + 1 \in 1 .. MaxPages
    BY <1>3, PageTypes DEF NextPage, HeapPages
  <2>2. /\ BlankPage(num_pages) \in Page /\ ZeroPage \in Page
        /\ [page_id |-> num_pages, rows |-> <<call.row>>] \in Page
        /\ Created(page)[num_pages] = BlankPage(num_pages)
        /\ [Created(page) EXCEPT ![num_pages].rows = Append(@, call.row)]
              = [page EXCEPT ![num_pages] = [page_id |-> num_pages, rows |-> <<call.row>>]]
    BY <2>1, <1>1, NewPagePlaced
  <2>3. /\ num_pages' \in 1 .. MaxPages /\ disk' \in [HeapPages -> Page]
    BY <1>3, <2>1, <2>2 DEF NextPage, FileInv, TypeOK
  <2>4. CASE PageFull
    <3>1. page' \in [HeapPages -> Page]
      BY <2>4, <2>2 DEF PageFull, Created, FileInv, TypeOK
    <3>2. call' \in [op : {"Insert"}, row : Rows, created : Nat]
      <4>1. call = [op |-> "Insert", row |-> call.row, created |-> call.created]
        BY <2>4, CallTypes DEF PageFull, Inserting
      <4>2. call' = [op |-> "Insert", row |-> call.row, created |-> call.created + 1]
        BY <2>4, <4>1 DEF PageFull
      <4> QED BY <1>1, <4>2
    <3> QED BY <2>1, <2>3, <2>4, <3>1, <3>2
         DEF PageFull, CreatesPage, history, FileInv, TypeOK
  <2>5. CASE InsertIntoNew
    <3>1. page' \in [HeapPages -> Page]
      <4>1. page' = Created(page)
               \/ page' = [page EXCEPT ![num_pages] = [page_id |-> num_pages, rows |-> <<call.row>>]]
        BY <2>5, <2>2 DEF InsertIntoNew, Placed
      <4> QED BY <4>1, <2>2 DEF Created, FileInv, TypeOK
    <3>2. call' = Idle \/ call' \in [op : {"Insert"}, row : Rows, created : Nat]
      <4>1. call = [op |-> "Insert", row |-> call.row, created |-> call.created]
        BY <2>5, CallTypes DEF InsertIntoNew, Inserting
      <4>2. call' = Idle \/ call' = [op |-> "Insert", row |-> call.row, created |-> call.created + 1]
        BY <2>5, <4>1 DEF InsertIntoNew, Placed
      <4> QED BY <1>1, <4>2
    <3>3. inserted' \subseteq [rid : RecordId, row : Rows, at : HeapPages]
      <4>1. \/ inserted' = inserted
            \/ inserted' = inserted \cup {[rid |-> [page |-> num_pages, slot |-> 0],
                                          row |-> call.row, at |-> num_pages]}
        BY <2>5, <2>2, EmptySeq DEF InsertIntoNew, Placed, BlankPage
      <4>2. num_pages \in 0 .. MaxPages - 1
        BY <2>1, PageTypes
      <4>3. [rid |-> [page |-> num_pages, slot |-> 0], row |-> call.row, at |-> num_pages]
               \in [rid : RecordId, row : Rows, at : HeapPages]
        BY <1>1, <2>1, <4>2 DEF RecordId
      <4> QED BY <4>1, <4>3 DEF FileInv, TypeOK
    <3> QED BY <2>1, <2>3, <2>5, <3>1, <3>2, <3>3 DEF InsertIntoNew, CreatesPage, FileInv, TypeOK
  <2>6. CASE InsertFails
    <3>1. page' \in [HeapPages -> Page]
      BY <2>6, <2>2 DEF InsertFails, pageVars, FileInv, TypeOK
    <3>2. unformatted' \subseteq HeapPages
      BY <2>1, <2>6 DEF InsertFails, FileInv, TypeOK
    <3> QED BY <2>3, <2>6, <3>1, <3>2 DEF InsertFails, FileInv, TypeOK
  <2> QED BY <1>2, <2>4, <2>5, <2>6
<1>4. CASE InsertFails /\ UNCHANGED <<pageVars, unformatted>>
  BY <1>4 DEF InsertFails, pageVars, FileInv, TypeOK
<1> QED
  BY <1>2, <1>3, <1>4 DEF InsertIntoCurrent, PageFull, InsertIntoNew, InsertFails, CreatesPage

LEMMA ScanTypes ==
    ASSUME FileInv, Scan \/ (\E f \in Filters : ScanStarts(f))
    PROVE  TypeOK'
<1> USE DEF pageVars, history
<1>1. MaxPages \in Nat /\ HeapPages \cup {MaxPages} = 1 .. MaxPages
  BY SizesAssumption DEF HeapPages
<1>2. <<>> \in Seq(Rows)
  OBVIOUS
<1>3. CASE ScanSkips \/ ScanFinds \/ ScanTurnsPage
  <2>1. /\ call.filter \in Filters /\ call.slot \in Nat /\ call.page \in 1 .. MaxPages
        /\ call.num_pages \in 1 .. MaxPages
        /\ call.page < call.num_pages
        /\ call = [op |-> "Scan", filter |-> call.filter, page |-> call.page,
                   slot |-> call.slot, num_pages |-> call.num_pages]
    BY <1>1, <1>3, CallTypes DEF ScanSkips, ScanFinds, ScanTurnsPage, Scanning
  <2>2. \/ call' = [op |-> "Scan", filter |-> call.filter, page |-> call.page,
                    slot |-> call.slot + 1, num_pages |-> call.num_pages]
        \/ call' = [op |-> "Scan", filter |-> call.filter, page |-> call.page + 1,
                    slot |-> 0, num_pages |-> call.num_pages]
    <3>1. PICK f, p, s, n : call = [op |-> "Scan", filter |-> f, page |-> p,
                                  slot |-> s, num_pages |-> n]
      BY <2>1, Zenon
    <3>2. call.filter = f /\ call.page = p /\ call.slot = s /\ call.num_pages = n
      BY <3>1
    <3>3. call' = [call EXCEPT !.slot = @ + 1] \/ call' = [call EXCEPT !.page = @ + 1, !.slot = 0]
      BY <1>3 DEF ScanSkips, ScanFinds, ScanTurnsPage
    <3> QED BY <3>1, <3>2, <3>3
  <2>3. call.page + 1 \in 1 .. MaxPages /\ call.slot + 1 \in Nat
    BY <2>1, <1>1
  <2>4. call' \in [op : {"Scan"}, filter : Filters, page : HeapPages \cup {MaxPages},
                   slot : Nat, num_pages : 1 .. MaxPages]
    BY <1>1, <2>1, <2>2, <2>3
  <2>5. out' \in Seq(Rows)
    <3>1. CASE ScanFinds
      <4>1. call.page \in HeapPages
        BY <1>1, <2>1 DEF HeapPages
      <4>2. call.slot + 1 \in DOMAIN Scanned /\ Scanned \in Seq(Rows)
        BY <2>1, <3>1, <4>1, PageTypes DEF ScanFinds, Scanned
      <4>3. Scanned[call.slot + 1] \in Rows
        BY <4>2, ElementOfSeq, LenProperties
      <4> QED BY <3>1, <4>3, AppendProperties DEF ScanFinds, FileInv, TypeOK
    <3> QED BY <1>3, <3>1 DEF ScanSkips, ScanTurnsPage, FileInv, TypeOK
  <2> QED BY <1>3, <2>4, <2>5 DEF ScanSkips, ScanFinds, ScanTurnsPage, FileInv, TypeOK
<1>4. CASE ScanFails \/ ScanReturns
  BY <1>2, <1>4 DEF ScanFails, ScanReturns, FileInv, TypeOK
<1>5. CASE ScanEnds
  BY <1>5, CallTypes DEF ScanEnds, FileInv, TypeOK
<1>6. ASSUME NEW f \in Filters, ScanStarts(f) PROVE TypeOK'
  <2>1. call' \in [op : {"Scan"}, filter : Filters, page : HeapPages \cup {MaxPages},
                   slot : Nat, num_pages : 1 .. MaxPages]
    BY <1>1, <1>6 DEF ScanStarts, FileInv, TypeOK
  <2> QED BY <1>2, <1>6, <2>1 DEF ScanStarts, FileInv, TypeOK
<1> QED BY <1>3, <1>4, <1>5, <1>6 DEF Scan

LEMMA OtherTypes ==
    ASSUME FileInv,
           \/ \E r \in Rows : InsertStarts(r)
           \/ \E n \in HeapPages : WriteBack(n)
           \/ Drop \/ Kill
           \/ UNCHANGED vars
    PROVE  TypeOK'
<1> USE DEF pageVars, history
<1>1. ASSUME NEW r \in Rows, InsertStarts(r) PROVE TypeOK'
  BY <1>1 DEF InsertStarts, FileInv, TypeOK
<1>2. ASSUME NEW n \in HeapPages, WriteBack(n) PROVE TypeOK'
  <2>1. disk' \in [HeapPages -> Page]
    BY <1>2, PageTypes DEF WriteBack, FileInv, TypeOK
  <2> QED BY <1>2, <2>1 DEF WriteBack, FileInv, TypeOK
<1>3. 1 \in HeapPages /\ <<>> \in Seq(Rows) /\ MaxKills \in Nat
  BY SizesAssumption DEF HeapPages
<1>4. CASE Drop
  BY <1>3, <1>4 DEF Drop, Reopens, FileInv, TypeOK
<1>5. CASE Kill
  <2>1. kills' \in 0 .. MaxKills
    BY <1>3, <1>5 DEF Kill, FileInv, TypeOK
  <2>2. unformatted' \subseteq HeapPages
    BY <1>5, PageTypes DEF Kill
  <2> QED BY <1>3, <1>5, <2>1, <2>2 DEF Kill, Reopens, FileInv, TypeOK
<1>6. CASE UNCHANGED vars
  BY <1>6 DEF vars, FileInv, TypeOK
<1> QED BY <1>1, <1>2, <1>4, <1>5, <1>6

-----------------------------------------------------------------------------
(* Every action keeps the file in order. *)

LEMMA FileStep == ASSUME FileInv, InsertEnds, [Next]_vars PROVE FileInv'
<1>1. CASE InsertIntoCurrent
  <2>1. TypeOK'
    BY <1>1, InsertTypes
  <2>2. current_heap_page \in 1 .. num_pages - 1
    BY <1>1, PageTypes DEF InsertIntoCurrent, FileInv, TypeOK, HeapPages
  <2>3. call.row \in Rows
    BY <1>1, CallTypes DEF InsertIntoCurrent, Inserting
  <2> QED BY <1>1, <2>1, <2>2, <2>3, RowAdded DEF InsertIntoCurrent, Placed
<1>2. ASSUME NextPage, PageFull \/ InsertIntoNew \/ InsertFails PROVE FileInv'
  <2>1. TypeOK'
    BY <1>2, InsertTypes
  <2>2. /\ num_pages < MaxPages /\ call.row \in Rows /\ num_pages \in Nat /\ num_pages >= 1
        /\ num_pages \notin unformatted
    BY <1>2, CallTypes, PageTypes
       DEF NextPage, PageFull, InsertIntoNew, InsertFails, Inserting, FileInv, PagesNamed
  <2>3. /\ BlankPage(num_pages) \in Page /\ ZeroPage \in Page
        /\ [page_id |-> num_pages, rows |-> <<call.row>>] \in Page
        /\ Created(page)[num_pages] = BlankPage(num_pages)
        /\ [Created(page) EXCEPT ![num_pages].rows = Append(@, call.row)]
              = [page EXCEPT ![num_pages] = [page_id |-> num_pages, rows |-> <<call.row>>]]
    BY <2>2, NewPagePlaced
  <2>4. BlankPage(num_pages).page_id = num_pages /\ ZeroPage.page_id = 0
    BY DEF BlankPage, ZeroPage
  <2>5. CASE page' = Created(page) /\ UNCHANGED <<inserted, unformatted>>
    BY <1>2, <2>1, <2>2, <2>3, <2>4, <2>5, PageAdded DEF Created
  <2>6. CASE InsertIntoNew /\ Fits(<<>>, call.row)
    <3> DEFINE P == [page_id |-> num_pages, rows |-> <<call.row>>]
               new == [rid |-> [page |-> num_pages, slot |-> 0], row |-> call.row, at |-> num_pages]
    <3>1. page' = [page EXCEPT ![num_pages] = P]
      BY <2>3, <2>6 DEF InsertIntoNew, Placed
    <3>2. inserted' = inserted \cup {new}
      BY <2>3, <2>6, EmptySeq DEF InsertIntoNew, Placed, BlankPage
    <3>3. /\ new.at = num_pages /\ new.rid.page = P.page_id
          /\ new.rid.slot + 1 \in DOMAIN P.rows /\ P.rows[new.rid.slot + 1] = new.row
      OBVIOUS
    <3>4. P.page_id = num_pages /\ P \in Page
      BY <2>3
    <3>5. unformatted' = unformatted
      BY <2>6 DEF InsertIntoNew
    <3>6. /\ inserted \subseteq inserted'
          /\ \A i \in inserted' \ inserted :
                /\ i.at = num_pages /\ i.rid.page = P.page_id
                /\ i.rid.slot + 1 \in DOMAIN P.rows /\ P.rows[i.rid.slot + 1] = i.row
      <4> HIDE DEF P, new
      <4> QED BY <3>2, <3>3
    <3> HIDE DEF P, new
    <3> QED BY <1>2, <2>1, <2>2, <3>1, <3>4, <3>5, <3>6, PageAdded
  <2>7. CASE InsertFails
    <3>1. CASE UNCHANGED <<pageVars, unformatted>>
      BY <2>1, <2>7, <3>1, FileKept DEF InsertFails, pageVars
    <3>2. CASE /\ page' = [page EXCEPT ![num_pages] = ZeroPage]
               /\ unformatted' = unformatted \cup {num_pages}
      <4>1. inserted' = inserted
        BY <2>7 DEF InsertFails
      <4>2. \A i \in inserted' \ inserted : FALSE
        BY <4>1
      <4> QED BY <1>2, <2>1, <2>2, <2>3, <2>4, <3>2, <4>1, <4>2, PageAdded
    <3> QED BY <2>7, <3>1, <3>2 DEF InsertFails
  <2> QED BY <1>2, <2>5, <2>6, <2>7 DEF PageFull, InsertIntoNew, history
<1>3. CASE InsertFails /\ UNCHANGED <<pageVars, unformatted>>
  BY <1>3, InsertTypes, FileKept DEF InsertFails, pageVars
<1>4. ASSUME NEW n \in HeapPages, WriteBack(n) PROVE FileInv'
  <2>1. TypeOK'
    BY <1>4, OtherTypes
  <2>2. \A m \in 1 .. num_pages - 1 : disk'[m] = disk[m] \/ disk'[m] = page[m]
    BY <1>4, PageTypes DEF WriteBack, FileInv, TypeOK
  <2> QED BY <1>4, <2>1, <2>2, FileWritten DEF WriteBack, history
<1>5. CASE Drop
  <2>1. TypeOK'
    BY <1>5, OtherTypes
  <2> QED BY <1>5, <2>1, FileWritten DEF Drop, history
<1>6. CASE Kill
  BY <1>6, OtherTypes, FileLost
<1>7. CASE Scan \/ \E f \in Filters : ScanStarts(f)
  <2>1. TypeOK'
    BY <1>7, ScanTypes
  <2>2. UNCHANGED <<pageVars, history>>
    BY <1>7 DEF Scan, ScanSkips, ScanFinds, ScanFails, ScanTurnsPage, ScanEnds, ScanReturns, ScanStarts
  <2> QED BY <2>1, <2>2, FileKept DEF pageVars, history
<1>8. CASE (\E r \in Rows : InsertStarts(r)) \/ UNCHANGED vars
  <2>1. TypeOK'
    BY <1>8, OtherTypes
  <2>2. UNCHANGED <<pageVars, history>>
    BY <1>8 DEF InsertStarts, vars, pageVars, history
  <2> QED BY <2>1, <2>2, FileKept DEF pageVars, history
<1> QED
  BY <1>1, <1>2, <1>3, <1>4, <1>5, <1>6, <1>7, <1>8
     DEF Next, Insert, PageFull, InsertIntoNew, InsertFails, CreatesPage, InsertPanics, Shutdown

-----------------------------------------------------------------------------
(* An insert ends. *)

LEMMA InsertStep == ASSUME FileInv, InsertEnds, [Next]_vars PROVE InsertEnds'
<1>1. CASE call' = Idle \/ call'.op # "Insert"
  BY <1>1 DEF InsertEnds, Inserting, Idle
<1>2. ASSUME NEW r \in Rows, InsertStarts(r) PROVE InsertEnds'
  BY <1>2 DEF InsertStarts, InsertEnds, Inserting, TooLarge
<1>3. CASE PageFull
  <2>1. /\ call.row \in Rows /\ ~ TooLarge(call.row) /\ current_heap_page < num_pages
        /\ call.created \in 0 .. 1
        /\ call.created = 1 => page[current_heap_page].rows = <<>>
    BY <1>3, CallTypes DEF PageFull, Inserting, InsertEnds
  <2>2. call.created = 0
    BY <1>3, <2>1, EmptyPageFits DEF PageFull
  <2>3. call'.op = "Insert" /\ call'.created = 1 /\ call'.row = call.row
    <3>1. call = [op |-> "Insert", row |-> call.row, created |-> call.created]
      BY <1>3, CallTypes DEF PageFull, Inserting
    <3>2. call' = [op |-> "Insert", row |-> call.row, created |-> call.created + 1]
      BY <1>3, <3>1 DEF PageFull
    <3> QED BY <2>2, <3>2
  <2>4. /\ num_pages' = num_pages + 1 /\ current_heap_page' = num_pages /\ num_pages \in Nat
        /\ page'[num_pages].rows = <<>>
    <3>1. num_pages < MaxPages
      BY <1>3 DEF PageFull, CreatesPage, NextPage
    <3>2. Created(page)[num_pages] = BlankPage(num_pages)
      BY <2>1, <3>1, NewPagePlaced
    <3> QED BY <1>3, <3>2, PageTypes DEF PageFull, CreatesPage, NextPage, BlankPage
  <2> QED BY <2>1, <2>3, <2>4 DEF InsertEnds, Inserting, TooLarge
<1>4. CASE InsertIntoNew
  <2>1. Fits(<<>>, call.row)
    BY <1>4, EmptyPageFits, CallTypes DEF InsertIntoNew, Inserting, InsertEnds
  <2> QED BY <1>1, <1>4, <2>1 DEF InsertIntoNew, Placed
<1>5. CASE UNCHANGED <<call, page, num_pages, current_heap_page>>
  BY <1>5 DEF InsertEnds, Inserting, TooLarge
<1>6. CASE InsertIntoCurrent \/ InsertFails \/ InsertPanics \/ Shutdown \/ Kill
  BY <1>1, <1>6 DEF InsertIntoCurrent, Placed, InsertFails, InsertPanics, Shutdown, Drop, Kill, Reopens
<1>7. ASSUME NEW n \in HeapPages, WriteBack(n) PROVE InsertEnds'
  BY <1>5, <1>7 DEF WriteBack
<1>8. ASSUME NEW f \in Filters, ScanStarts(f) PROVE InsertEnds'
  BY <1>1, <1>8 DEF ScanStarts
<1>9. CASE Scan
  <2>1. CASE ScanFails \/ ScanReturns \/ ScanEnds
    BY <1>1, <2>1 DEF ScanFails, ScanReturns, ScanEnds
  <2>2. CASE ScanSkips \/ ScanFinds \/ ScanTurnsPage
    <3>1. call = [op |-> "Scan", filter |-> call.filter, page |-> call.page,
                 slot |-> call.slot, num_pages |-> call.num_pages]
      BY <2>2, CallTypes DEF ScanSkips, ScanFinds, ScanTurnsPage, Scanning
    <3>2. PICK f, p, s, n : call = [op |-> "Scan", filter |-> f, page |-> p,
                                  slot |-> s, num_pages |-> n]
      BY <3>1, Zenon
    <3>3. call'.op = "Scan"
      BY <2>2, <3>2 DEF ScanSkips, ScanFinds, ScanTurnsPage
    <3> QED BY <1>1, <3>3
  <2> QED BY <1>9, <2>1, <2>2 DEF Scan
<1>10. CASE UNCHANGED vars
  BY <1>5, <1>10 DEF vars, pageVars
<1> QED
  BY <1>2, <1>3, <1>4, <1>6, <1>7, <1>8, <1>9, <1>10 DEF Next, Insert

-----------------------------------------------------------------------------
(* A scan follows the slots. *)

\* While the file stays, and the filter, so do the slots that match.
LEMMA SlotsKept ==
    ASSUME UNCHANGED <<num_pages, page>>
    PROVE  /\ Slots' = Slots /\ \A p : RowAt(p)' = RowAt(p)
           /\ call'.filter = call.filter => Matching' = Matching
<1>1. Slots' = Slots
  BY DEF Slots
<1>2. \A p : RowAt(p)' = RowAt(p)
  BY DEF RowAt
<1> QED BY <1>1, <1>2 DEF Matching, RowAt

\* The scan moves, or ends, and the slots behind it remain those it has seen.
LEMMA FoundKept ==
    ASSUME UNCHANGED <<num_pages, page, out>>, Matching' = Matching, NEW S, RowsFound(S)
    PROVE  /\ Len(out') = Cardinality(S)
           /\ \A p \in S : out'[Cardinality({q \in Matching' : Before(q, p)}) + 1] = RowAt(p)'
BY SlotsKept DEF RowsFound

\* The next row is appended, behind those of the slots before its own.
LEMMA FoundMore ==
    ASSUME FileInv, UNCHANGED <<num_pages, page>>, Matching' = Matching,
           NEW p \in Matching, NEW S, S = {q \in Matching : Before(q, p)}, RowsFound(S),
           out' = Append(out, RowAt(p)), RowAt(p) \in Rows
    PROVE  /\ Len(out') = Cardinality(S \cup {p})
           /\ \A q \in S \cup {p} :
                 out'[Cardinality({r \in Matching' : Before(r, q)}) + 1] = RowAt(q)'
<1>1. /\ Matching \subseteq Slots /\ IsFiniteSet(Matching) /\ IsFiniteSet(S)
      /\ S \subseteq Matching
  BY SlotsFinite, FS_Subset DEF Matching
<1>2. p \notin S /\ p[1] \in Nat /\ p[2] \in Nat
  BY <1>1, SlotsInOrder
<1>3. /\ Cardinality(S) \in Nat /\ Cardinality(S \cup {p}) = Cardinality(S) + 1
  BY <1>1, <1>2, FS_AddElement, FS_CardinalityType
<1>4. out \in Seq(Rows) /\ Len(out) = Cardinality(S)
  BY DEF FileInv, TypeOK, RowsFound
<1>5. /\ Len(out') = Len(out) + 1 /\ out'[Len(out) + 1] = RowAt(p)
      /\ \A i \in 1 .. Len(out) : out'[i] = out[i]
  BY <1>4, AppendProperties, ZenonT(40)
<1>6. ASSUME NEW q \in S
      PROVE  out'[Cardinality({r \in Matching : Before(r, q)}) + 1] = RowAt(q)
  <2> DEFINE B == {r \in Matching : Before(r, q)}
  <2>1. q \in Slots /\ q[1] \in Nat /\ q[2] \in Nat /\ Before(q, p) /\ q \notin B
    BY <1>1, SlotsInOrder
  <2>2. B \subseteq S
    <3> SUFFICES ASSUME NEW r \in B PROVE r \in S
      OBVIOUS
    <3>1. r \in Slots /\ r[1] \in Nat /\ r[2] \in Nat /\ Before(r, q)
      BY <1>1, SlotsInOrder
    <3>2. Before(r, p)
      BY <1>2, <2>1, <3>1, SlotsInOrder
    <3> QED BY <3>2
  <2> HIDE DEF B
  <2>3. Cardinality(B) \in Nat /\ Cardinality(B) < Cardinality(S)
    <3>1. B # S
      BY <2>1
    <3>2. /\ IsFiniteSet(B) /\ Cardinality(B) <= Cardinality(S)
          /\ Cardinality(S) # Cardinality(B)
      BY <1>1, <2>2, <3>1, FS_Subset
    <3>3. Cardinality(B) \in Nat
      BY <3>2, FS_CardinalityType
    <3> QED BY <3>2, <3>3, <1>3
  <2>4. Cardinality(B) + 1 \in 1 .. Len(out)
    BY <1>3, <1>4, <2>3
  <2>5. out[Cardinality(B) + 1] = RowAt(q)
    BY DEF RowsFound, B
  <2> QED BY <1>5, <2>4, <2>5 DEF B
<1>7. ASSUME NEW q \in S \cup {p}
      PROVE  out'[Cardinality({r \in Matching' : Before(r, q)}) + 1] = RowAt(q)'
  <2>1. RowAt(q)' = RowAt(q)
    BY SlotsKept
  <2>2. CASE q = p
    BY <1>4, <1>5, <2>1, <2>2
  <2>3. CASE q \in S
    BY <1>6, <2>1, <2>3
  <2> QED BY <2>2, <2>3
<1> QED BY <1>3, <1>4, <1>5, <1>7

\* Where the scan is: the slots before its next one.
LEMMA SeenMoves ==
    ASSUME FileInv, ScanFollows, call.op = "Scan"
    PROVE  /\ call.page \in Nat /\ call.slot \in Nat /\ call.num_pages = num_pages
           /\ call.page >= 1
           /\ call.page < num_pages => Len(page[call.page].rows) \in Nat
           /\ Seen \subseteq Matching /\ Matching \subseteq Slots
           /\ call.page < num_pages /\ call.slot >= Len(page[call.page].rows) =>
                 /\ Seen = {p \in Matching : Before(p, <<call.page + 1, 1>>)}
           /\ call.page < num_pages /\ call.slot < Len(page[call.page].rows) =>
                 /\ <<call.page, call.slot + 1>> \in Slots
                 /\ Seen \cup ({<<call.page, call.slot + 1>>} \cap Matching)
                       = {p \in Matching : Before(p, <<call.page, call.slot + 2>>)}
           /\ call.page >= num_pages => Seen = Matching
<1>1. /\ call.page \in Nat /\ call.slot \in Nat /\ call.num_pages = num_pages /\ call.page >= 1
      /\ call.page <= num_pages /\ num_pages \in Nat
  BY CallTypes, PageTypes DEF ScanFollows
<1>2. Seen \subseteq Matching /\ Matching \subseteq Slots
  BY DEF Seen, Matching
<1>3. \A p \in Matching : /\ p[1] \in Nat /\ p[2] \in Nat /\ p[1] < num_pages /\ p[2] >= 1
                          /\ p[2] <= Len(page[p[1]].rows)
                          /\ p = <<p[1], p[2]>>
  <2> TAKE p \in Matching
  <2>1. /\ p = <<p[1], p[2]>> /\ p[1] \in Nat /\ p[2] \in Nat
        /\ p[1] \in 1 .. num_pages - 1 /\ p[2] \in 1 .. Len(page[p[1]].rows)
    BY <1>2, SlotsInOrder
  <2> QED BY <1>1, <2>1
<1>4. call.page < num_pages =>
         /\ Len(page[call.page].rows) \in Nat /\ call.page \in 1 .. num_pages - 1
         /\ DOMAIN page[call.page].rows = 1 .. Len(page[call.page].rows)
         /\ call.slot <= Len(page[call.page].rows)
  <2>1. call.page < num_pages => call.page \in 1 .. num_pages - 1 /\ call.page \in HeapPages
    BY <1>1, PageTypes
  <2> QED BY <1>1, <2>1, PageTypes DEF ScanFollows
<1>5. call.page < num_pages /\ call.slot >= Len(page[call.page].rows) =>
         /\ Seen = {p \in Matching : Before(p, <<call.page + 1, 1>>)}
  <2> HAVE call.page < num_pages /\ call.slot >= Len(page[call.page].rows)
  <2>1. \A p \in Matching : Before(p, <<call.page, call.slot + 1>>)
                              <=> Before(p, <<call.page + 1, 1>>)
    BY <1>1, <1>3, <1>4 DEF Before
  <2> QED BY <2>1 DEF Seen
<1>6. ASSUME call.page < num_pages, call.slot < Len(page[call.page].rows)
      PROVE  /\ <<call.page, call.slot + 1>> \in Slots
             /\ Seen \cup ({<<call.page, call.slot + 1>>} \cap Matching)
                   = {p \in Matching : Before(p, <<call.page, call.slot + 2>>)}
  <2>1. call.slot + 1 \in DOMAIN page[call.page].rows
    BY <1>1, <1>4, <1>6
  <2>2. <<call.page, call.slot + 1>> \in Slots
    BY <1>4, <1>6, <2>1, SlotsAre
  <2>3. \A p \in Matching :
           Before(p, <<call.page, call.slot + 2>>)
              <=> Before(p, <<call.page, call.slot + 1>>) \/ p = <<call.page, call.slot + 1>>
    BY <1>1, <1>3 DEF Before
  <2> QED BY <2>2, <2>3 DEF Seen
<1>7. call.page >= num_pages => Seen = Matching
  <2> HAVE call.page >= num_pages
  <2>1. \A p \in Matching : Before(p, <<call.page, call.slot + 1>>)
    BY <1>1, <1>3 DEF Before
  <2> QED BY <2>1 DEF Seen
<1> QED BY <1>1, <1>2, <1>4, <1>5, <1>6, <1>7

LEMMA ScanStep == ASSUME FileInv, ScanFollows, [Next]_vars PROVE ScanFollows'
<1>1. CASE call'.op = "Idle" \/ call'.op = "Insert"
  BY <1>1 DEF ScanFollows
<1>2. Idle.op = "Idle"
  BY DEF Idle
<1>3. CASE UNCHANGED <<call, page, num_pages, out>>
  <2>1. Matching' = Matching /\ \A p : RowAt(p)' = RowAt(p)
    BY <1>3, SlotsKept
  <2>2. Seen' = Seen
    BY <1>3, <2>1 DEF Seen
  <2> QED BY <1>3, <2>1, <2>2 DEF ScanFollows, RowsFound
<1>4. ASSUME NEW f \in Filters, ScanStarts(f) PROVE ScanFollows'
  <2>1. call' = [op |-> "Scan", filter |-> f, page |-> 1, slot |-> 0, num_pages |-> num_pages]
        /\ out' = <<>> /\ UNCHANGED <<num_pages, page>>
    BY <1>4 DEF ScanStarts, pageVars
  <2>2. \A p \in Slots : ~ Before(p, <<1, 1>>)
    <3> TAKE p \in Slots
    <3>1. p[1] \in Nat /\ p[2] \in Nat /\ p[1] >= 1 /\ p[2] >= 1
      <4>1. p[1] \in 1 .. num_pages - 1 /\ p[2] \in 1 .. Len(page[p[1]].rows)
        BY SlotsInOrder
      <4> QED BY <4>1
    <3> QED BY <3>1 DEF Before
  <2>3. Slots' = Slots
    BY <2>1, SlotsKept
  <2>4. Seen' = {}
    BY <2>1, <2>2, <2>3 DEF Seen, Matching
  <2>5. RowsFound(Seen)'
    BY <2>1, <2>4, FS_EmptySet, EmptySeq DEF RowsFound
  <2>6. /\ 1 <= num_pages /\ num_pages \in Nat
        /\ 1 < num_pages => Len(page[1].rows) \in Nat
    <3>1. 1 < num_pages => 1 \in HeapPages
      BY PageTypes DEF HeapPages
    <3> QED BY <3>1, PageTypes
  <2> QED BY <2>1, <2>5, <2>6 DEF ScanFollows
<1>5. ASSUME Scanning, ScanSkips \/ ScanFinds \/ ScanTurnsPage
      PROVE  ScanFollows'
  <2>1. /\ call.op = "Scan" /\ call.page < num_pages /\ call.num_pages = num_pages
        /\ call.page \in Nat /\ call.slot \in Nat /\ num_pages \in Nat
        /\ UNCHANGED <<num_pages, page>>
        /\ RowsFound(Seen)
        /\ Len(page[call.page].rows) \in Nat
    <3>1. call.op = "Scan" /\ call.page < num_pages /\ call.num_pages = num_pages
      BY <1>5 DEF Scanning, ScanFollows
    <3>2. UNCHANGED <<num_pages, page>>
      BY <1>5 DEF ScanSkips, ScanFinds, ScanTurnsPage, pageVars
    <3> QED BY <3>1, <3>2, SeenMoves, PageTypes DEF ScanFollows
  <2>2. PICK f, p, s, n : call = [op |-> "Scan", filter |-> f, page |-> p,
                                slot |-> s, num_pages |-> n]
    BY <2>1, CallTypes, Zenon
  <2>3. call.filter = f /\ call.page = p /\ call.slot = s /\ call.num_pages = n
    BY <2>2
  <2>4. call' = [call EXCEPT !.slot = @ + 1] \/ call' = [call EXCEPT !.page = @ + 1, !.slot = 0]
    BY <1>5 DEF ScanSkips, ScanFinds, ScanTurnsPage
  <2>5. /\ call'.op = "Scan" /\ call'.filter = call.filter /\ call'.num_pages = call.num_pages
        /\ call' = [call EXCEPT !.slot = @ + 1] =>
              call'.page = call.page /\ call'.slot = call.slot + 1
        /\ call' = [call EXCEPT !.page = @ + 1, !.slot = 0] =>
              call'.page = call.page + 1 /\ call'.slot = 0
    BY <2>2, <2>3, <2>4
  <2>6. Matching' = Matching /\ \A q : RowAt(q)' = RowAt(q)
    BY <2>1, <2>5, SlotsKept
  <2>7. Seen' = {q \in Matching : Before(q, <<call'.page, call'.slot + 1>>)}
    BY <2>6 DEF Seen
  <2>8. CASE ScanTurnsPage
    <3>1. call.slot >= Len(page[call.page].rows)
          /\ call'.page = call.page + 1 /\ call'.slot = 0 /\ out' = out
      BY <2>8, <2>5 DEF ScanTurnsPage, Scanned
    <3>2. Seen' = Seen
      BY <2>1, <2>7, <3>1, SeenMoves
    <3>3. RowsFound(Seen)'
      BY <2>1, <2>6, <3>1, <3>2, FoundKept DEF RowsFound
    <3>4. call'.page <= num_pages
      BY <2>1, <3>1
    <3>5. call'.page < num_pages => Len(page[call'.page].rows) \in Nat
      <4>1. call'.page < num_pages => call'.page \in HeapPages
        BY <2>1, <3>1, PageTypes DEF HeapPages
      <4> QED BY <4>1, PageTypes
    <3> QED BY <2>1, <2>5, <3>1, <3>3, <3>4, <3>5 DEF ScanFollows
  <2>9. CASE ScanSkips \/ ScanFinds
    <3> DEFINE here == <<call.page, call.slot + 1>>
    <3>1. call.slot < Len(page[call.page].rows)
          /\ call'.page = call.page /\ call'.slot = call.slot + 1
      BY <2>9, <2>5 DEF ScanSkips, ScanFinds, Scanned
    <3>2. /\ here \in Slots
          /\ Seen \cup ({here} \cap Matching) = {q \in Matching : Before(q, <<call.page, call.slot + 2>>)}
      BY <2>1, <3>1, SeenMoves
    <3>3. RowAt(here) = Scanned[call.slot + 1]
      BY DEF RowAt, Scanned
    <3>4. Seen' = Seen \cup ({here} \cap Matching)
      <4>1. call'.slot + 1 = call.slot + 2
        BY <2>1, <3>1
      <4> QED BY <2>7, <3>1, <3>2, <4>1
    <3>5. RowsFound(Seen)'
      <4>1. CASE ScanSkips
        <5>1. here \notin Matching /\ out' = out
          BY <4>1, <3>3 DEF ScanSkips, Matching
        <5>2. Seen' = Seen
          BY <3>4, <5>1
        <5> QED BY <2>1, <2>6, <5>1, <5>2, FoundKept DEF RowsFound
      <4>2. CASE ScanFinds
        <5>1. here \in Matching /\ out' = Append(out, RowAt(here))
          BY <4>2, <3>2, <3>3 DEF ScanFinds, Matching
        <5>2. Seen' = Seen \cup {here}
          BY <3>4, <5>1
        <5>3. Seen = {q \in Matching : Before(q, here)}
          BY DEF Seen
        <5>4. RowAt(here) \in Rows
          <6>1. call.page \in HeapPages /\ call.slot + 1 \in DOMAIN page[call.page].rows
            <7>1. call.page \in HeapPages
              BY <2>1, SeenMoves, PageTypes DEF HeapPages
            <7> QED BY <7>1, <2>1, <3>1, PageTypes
          <6> QED BY <6>1, PageTypes, ElementOfSeq, LenProperties DEF RowAt
        <5> HIDE DEF here
        <5> QED BY <2>1, <2>6, <5>1, <5>2, <5>3, <5>4, FoundMore DEF RowsFound
      <4> QED BY <2>9, <4>1, <4>2
    <3>6. call'.slot <= Len(page[call.page].rows)
      BY <2>1, <3>1
    <3> QED BY <2>1, <2>5, <3>1, <3>5, <3>6 DEF ScanFollows
  <2> QED BY <1>5, <2>8, <2>9
<1>6. CASE ScanEnds
  <2>1. call.op = "Scan" /\ call.page >= num_pages /\ RowsFound(Seen) /\ Seen = Matching
    <3>1. call.op = "Scan" /\ call.page >= num_pages /\ RowsFound(Seen)
      BY <1>6 DEF ScanEnds, ScanFollows
    <3> QED BY <3>1, SeenMoves
  <2>2. call' = [op |-> "Found", filter |-> call.filter] /\ UNCHANGED <<num_pages, page, out>>
    BY <1>6 DEF ScanEnds, pageVars
  <2>3. Matching' = Matching
    BY <2>2, SlotsKept
  <2>4. RowsFound(Matching)'
    BY <2>1, <2>2, <2>3, FoundKept DEF RowsFound
  <2> QED BY <2>2, <2>4 DEF ScanFollows
<1>7. CASE ScanFails \/ ScanReturns
  BY <1>1, <1>2, <1>7 DEF ScanFails, ScanReturns
<1>8. CASE Insert
  <2>1. CASE PageFull
    <3>1. call = [op |-> "Insert", row |-> call.row, created |-> call.created]
      BY <2>1, CallTypes DEF PageFull, Inserting
    <3>2. PICK r, c : call = [op |-> "Insert", row |-> r, created |-> c]
      BY <3>1, Zenon
    <3> QED BY <1>1, <2>1, <3>2 DEF PageFull
  <2>2. CASE InsertIntoNew
    <3>1. call = [op |-> "Insert", row |-> call.row, created |-> call.created]
      BY <2>2, CallTypes DEF InsertIntoNew, Inserting
    <3>2. PICK r, c : call = [op |-> "Insert", row |-> r, created |-> c]
      BY <3>1, Zenon
    <3> QED BY <1>1, <1>2, <2>2, <3>2 DEF InsertIntoNew, Placed
  <2>3. CASE InsertIntoCurrent \/ InsertFails \/ InsertPanics
    BY <1>1, <1>2, <2>3 DEF InsertIntoCurrent, Placed, InsertFails, InsertPanics, Drop, Reopens
  <2> QED BY <1>8, <2>1, <2>2, <2>3 DEF Insert
<1>9. CASE Shutdown \/ Kill
  BY <1>1, <1>2, <1>9 DEF Shutdown, Drop, Kill, Reopens
<1>10. ASSUME NEW r \in Rows, InsertStarts(r) PROVE ScanFollows'
  BY <1>1, <1>10 DEF InsertStarts
<1>11. ASSUME NEW n \in HeapPages, WriteBack(n) PROVE ScanFollows'
  BY <1>3, <1>11 DEF WriteBack
<1>12. CASE UNCHANGED vars
  BY <1>3, <1>12 DEF vars, pageVars
<1> QED
  BY <1>4, <1>5, <1>6, <1>7, <1>8, <1>9, <1>10, <1>11, <1>12
     DEF Next, Scan, ScanSkips, ScanFinds, ScanTurnsPage

-----------------------------------------------------------------------------
(* The theorems. *)

\* The invariant holds wherever the process is killed: pages keep their names,
\* the disk lags behind the pool, ids name their rows, inserts end and scans
\* follow the slots.
THEOREM HeapIsSafe == Spec => []HeapInv
<1>1. Init => HeapInv
  BY InitHeap
<1>2. HeapInv /\ [Next]_vars => HeapInv'
  BY FileStep, InsertStep, ScanStep DEF HeapInv
<1> QED BY <1>1, <1>2, PTL DEF Spec

\* The variables range over what the code declares.
THEOREM HeapIsWellTyped == Spec => []TypeOK
<1>1. HeapInv => TypeOK
  BY DEF HeapInv, FileInv
<1> QED BY <1>1, HeapIsSafe, PTL

\* A scan that ends well returns the rows its filter is true of, each as often
\* as the file holds it and in the order of the file (SeqScanExecutor's
\* next_tuple), for any filter and any file, whatever happened to it before.
THEOREM ScansAreExact == Spec => []ScanIsExact
<1>1. HeapInv => ScanIsExact
  BY DEF HeapInv, ScanFollows, RowsFound, ScanIsExact
<1> QED BY <1>1, HeapIsSafe, PTL

\* A record id goes on to name the record it was handed out for, as long as the
\* record survives (insert and Table::open, with the page cache over the disk).
THEOREM IdsNameRows == Spec => []RidNamesRow
<1>1. HeapInv => RidNamesRow
  BY DEF HeapInv, FileInv
<1> QED BY <1>1, HeapIsSafe, PTL

\* insert_record's loop creates a page once at most before the record is in,
\* for any sizes of rows and pages.
THEOREM InsertsNeedOnePage == Spec => []FewNewPages
<1>1. HeapInv => FewNewPages
  BY DEF HeapInv, InsertEnds, FewNewPages
<1> QED BY <1>1, HeapIsSafe, PTL

-----------------------------------------------------------------------------
(* The heap file is a bag of rows. *)

\* The slots that hold a row are as many as a number.
LEMMA CountsAreNumbers ==
    ASSUME FileInv, NEW r
    PROVE  /\ IsFiniteSet({p \in Slots : RowAt(p) = r})
           /\ Cardinality({p \in Slots : RowAt(p) = r}) \in Nat
<1>1. {p \in Slots : RowAt(p) = r} \in SUBSET Slots
  OBVIOUS
<1>2. IsFiniteSet({p \in Slots : RowAt(p) = r})
  BY <1>1, SlotsFinite, FS_Subset
<1> QED BY <1>2, FS_CardinalityType

\* One slot more is one row more.
LEMMA OneRowMore ==
    ASSUME FileInv, NEW new, new \notin Slots, Slots' = Slots \cup {new},
           \A p \in Slots : RowAt(p)' = RowAt(p),
           NEW r \in Rows, RowAt(new)' = r
    PROVE  RowCount' = [RowCount EXCEPT ![r] = @ + 1]
<1>1. ASSUME NEW q \in Rows
      PROVE  Cardinality({p \in Slots' : RowAt(p)' = q})
                = IF q = r THEN Cardinality({p \in Slots : RowAt(p) = q}) + 1
                           ELSE Cardinality({p \in Slots : RowAt(p) = q})
  <2>1. CASE q = r
    <3>1. {p \in Slots' : RowAt(p)' = q} = {p \in Slots : RowAt(p) = q} \cup {new}
      BY <2>1
    <3>2. new \notin {p \in Slots : RowAt(p) = q}
      OBVIOUS
    <3> QED BY <2>1, <3>1, <3>2, CountsAreNumbers, FS_AddElement
  <2>2. CASE q # r
    <3>1. {p \in Slots' : RowAt(p)' = q} = {p \in Slots : RowAt(p) = q}
      BY <2>2
    <3> QED BY <2>2, <3>1
  <2> QED BY <2>1, <2>2
<1>2. /\ RowCount' = [q \in Rows |-> Cardinality({p \in Slots' : RowAt(p)' = q})]
      /\ RowCount = [q \in Rows |-> Cardinality({p \in Slots : RowAt(p) = q})]
  BY DEF RowCount
<1> QED BY <1>1, <1>2

\* As long as the slots stay, the counts do.
LEMMA SameRows ==
    ASSUME Slots' = Slots, \A p \in Slots : RowAt(p)' = RowAt(p)
    PROVE  RowCount' = RowCount
<1>1. ASSUME NEW q \in Rows
      PROVE  {p \in Slots' : RowAt(p)' = q} = {p \in Slots : RowAt(p) = q}
  OBVIOUS
<1>2. /\ RowCount' = [q \in Rows |-> Cardinality({p \in Slots' : RowAt(p)' = q})]
      /\ RowCount = [q \in Rows |-> Cardinality({p \in Slots : RowAt(p) = q})]
  BY DEF RowCount
<1> QED BY <1>1, <1>2

\* A page without rows adds no slot, one with a row adds its first.
LEMMA PageAddsSlots ==
    ASSUME FileInv, num_pages < MaxPages, num_pages' = num_pages + 1, NEW P,
           page' = [page EXCEPT ![num_pages] = P]
    PROVE  /\ P.rows = <<>> => Slots' = Slots
           /\ \A r : P.rows = <<r>> =>
                 \E new : new \notin Slots /\ Slots' = Slots \cup {new} /\ RowAt(new)' = r
           /\ \A p \in Slots : RowAt(p)' = RowAt(p)
<1>1. /\ num_pages \in Nat /\ num_pages >= 1 /\ num_pages \in HeapPages
      /\ 1 .. num_pages' - 1 = (1 .. num_pages - 1) \cup {num_pages}
      /\ num_pages \notin 1 .. num_pages - 1
  BY PageTypes DEF HeapPages
<1>2. page'[num_pages] = P /\ \A n \in 1 .. num_pages - 1 : page'[n] = page[n]
  BY <1>1, PageTypes DEF FileInv, TypeOK
<1>3. \A p : p \in Slots' <=> \E n \in 1 .. num_pages' - 1 : \E i \in DOMAIN page'[n].rows : p = <<n, i>>
  BY DEF Slots
<1>4. \A p : p \in Slots' <=> p \in Slots \/ \E i \in DOMAIN P.rows : p = <<num_pages, i>>
  <2> TAKE p
  <2>1. ASSUME p \in Slots PROVE p \in Slots'
    BY <2>1, <1>1, <1>2, <1>3, SlotsAre
  <2>2. ASSUME NEW i \in DOMAIN P.rows, p = <<num_pages, i>> PROVE p \in Slots'
    BY <2>2, <1>1, <1>2, <1>3
  <2>3. ASSUME p \in Slots' PROVE p \in Slots \/ \E i \in DOMAIN P.rows : p = <<num_pages, i>>
    <3>1. PICK n \in 1 .. num_pages' - 1 : \E i \in DOMAIN page'[n].rows : p = <<n, i>>
      BY <2>3, <1>3
    <3>2. CASE n = num_pages
      BY <3>1, <3>2, <1>2
    <3>3. CASE n \in 1 .. num_pages - 1
      BY <3>1, <3>3, <1>2, SlotsAre
    <3> QED BY <3>2, <3>3, <1>1
  <2> QED BY <2>1, <2>2, <2>3
<1>5. ASSUME P.rows = <<>> PROVE Slots' = Slots
  <2>1. DOMAIN P.rows = {}
    BY <1>5
  <2>2. \A p : p \in Slots' <=> p \in Slots
    BY <1>4, <2>1
  <2> QED BY <2>2
<1>6. \A p \in Slots : RowAt(p)' = RowAt(p)
  BY <1>2, SlotsInOrder DEF RowAt
<1>7. ASSUME NEW r, P.rows = <<r>>
      PROVE  \E new : new \notin Slots /\ Slots' = Slots \cup {new} /\ RowAt(new)' = r
  <2>1. PICK new : new = <<num_pages, 1>>
    OBVIOUS
  <2>2. DOMAIN P.rows = {1} /\ P.rows[1] = r
    BY <1>7
  <2>3. \A p : p \in Slots' <=> p \in Slots \/ p = new
    BY <1>4, <2>1, <2>2
  <2>4. Slots' = Slots \cup {new}
    BY <2>3
  <2>5. new \notin Slots
    BY <1>1, <2>1, SlotsInOrder
  <2>6. RowAt(new)' = r
    BY <1>2, <2>1, <2>2 DEF RowAt
  <2> QED BY <2>4, <2>5, <2>6
<1> QED BY <1>5, <1>6, <1>7

\* A row on a page adds the slot behind the last.
LEMMA RowAddsSlot ==
    ASSUME FileInv, NEW n \in 1 .. num_pages - 1, NEW r \in Rows, num_pages' = num_pages,
           page' = [page EXCEPT ![n].rows = Append(@, r)]
    PROVE  \E new : /\ new \notin Slots /\ Slots' = Slots \cup {new} /\ RowAt(new)' = r
                    /\ \A p \in Slots : RowAt(p)' = RowAt(p)
<1> DEFINE rows == page[n].rows
<1>0. PICK new : new = <<n, Len(rows) + 1>>
  OBVIOUS
<1>1. /\ n \in HeapPages /\ page[n] \in Page /\ rows \in Seq(Rows)
      /\ DOMAIN rows = 1 .. Len(rows) /\ Len(rows) \in Nat
  BY PageTypes
<1>2. /\ page' = [page EXCEPT ![n] = [page[n] EXCEPT !.rows = Append(rows, r)]]
      /\ page \in [HeapPages -> Page]
  BY DEF FileInv, TypeOK
<1>3. /\ page'[n].rows = Append(rows, r)
      /\ \A m \in 1 .. num_pages - 1 : m # n => page'[m] = page[m]
  <2>1. page'[n] = [page[n] EXCEPT !.rows = Append(rows, r)]
    BY <1>1, <1>2
  <2>2. ASSUME NEW pg \in Page, NEW rs PROVE [pg EXCEPT !.rows = rs].rows = rs
    BY DEF Page
  <2>3. [page[n] EXCEPT !.rows = Append(rows, r)].rows = Append(rows, r)
    <3> HIDE DEF rows
    <3> QED BY <1>1, <2>2, Zenon
  <2>4. page'[n].rows = Append(rows, r)
    BY <2>1, <2>3, Zenon
  <2> QED BY <1>2, <2>4, PageTypes
<1>4. /\ DOMAIN Append(rows, r) = DOMAIN rows \cup {Len(rows) + 1}
      /\ \A k \in DOMAIN rows : Append(rows, r)[k] = rows[k]
      /\ Append(rows, r)[Len(rows) + 1] = r
      /\ Len(rows) + 1 \notin DOMAIN rows
  BY <1>1, AppendedDomain
<1>5. \A p : p \in Slots' <=> \E m \in 1 .. num_pages - 1 : \E i \in DOMAIN page'[m].rows : p = <<m, i>>
  BY DEF Slots
<1>6. Slots' = Slots \cup {new}
  <2>1. ASSUME NEW p PROVE p \in Slots' <=> p \in Slots \/ p = new
    <3>1. ASSUME p \in Slots PROVE p \in Slots'
      <4>1. PICK m \in 1 .. num_pages - 1 : \E i \in DOMAIN page[m].rows : p = <<m, i>>
        BY <3>1, SlotsAre
      <4> HIDE DEF rows
      <4>2. DOMAIN page[m].rows \subseteq DOMAIN page'[m].rows
        BY <1>3, <1>4 DEF rows
      <4> QED BY <4>1, <4>2, <1>5
    <3>2. ASSUME p = new PROVE p \in Slots'
      <4>1. Len(rows) + 1 \in DOMAIN page'[n].rows
        BY <1>3, <1>4
      <4> QED BY <1>0, <3>2, <4>1, <1>5
    <3>3. ASSUME p \in Slots' PROVE p \in Slots \/ p = new
      <4>1. PICK m \in 1 .. num_pages - 1 : \E i \in DOMAIN page'[m].rows : p = <<m, i>>
        BY <3>3, <1>5
      <4>2. PICK i \in DOMAIN page'[m].rows : p = <<m, i>>
        BY <4>1
      <4>3. CASE m # n
        BY <4>2, <4>3, <1>3, SlotsAre
      <4>4. CASE m = n
        <5>1. i \in DOMAIN rows \/ i = Len(rows) + 1
          BY <4>2, <4>4, <1>3, <1>4
        <5> QED BY <1>0, <4>2, <4>4, <5>1, SlotsAre
      <4> QED BY <4>3, <4>4
    <3> QED BY <3>1, <3>2, <3>3
  <2> QED BY <2>1
<1>7. new \notin Slots
  BY <1>0, <1>1, <1>4, SlotsInOrder
<1>8. RowAt(new)' = r
  BY <1>0, <1>3, <1>4 DEF RowAt
<1>9. ASSUME NEW p \in Slots PROVE RowAt(p)' = RowAt(p)
  <2>1. p[1] \in 1 .. num_pages - 1 /\ p[2] \in DOMAIN page[p[1]].rows
    BY SlotsInOrder, PageTypes
  <2>2. CASE p[1] = n
    BY <2>1, <2>2, <1>3, <1>4 DEF RowAt
  <2>3. CASE p[1] # n
    BY <2>1, <2>3, <1>3 DEF RowAt
  <2> QED BY <2>2, <2>3
<1> QED BY <1>6, <1>7, <1>8, <1>9

\* A kill leaves a part of the slots.
LEMMA KillTakesRows ==
    ASSUME FileInv, Kill, FileInv'
    PROVE  \A r \in Rows : RowCount'[r] <= RowCount[r]
<1>1. page' = disk /\ num_pages' = num_pages
  BY DEF Kill
<1>2. ASSUME NEW p \in Slots' PROVE p \in Slots /\ RowAt(p)' = RowAt(p)
  <2>1. PICK n \in 1 .. num_pages - 1 : \E i \in DOMAIN disk[n].rows : p = <<n, i>>
    BY <1>1 DEF Slots
  <2>2. PICK i \in DOMAIN disk[n].rows : p = <<n, i>>
    BY <2>1
  <2>3. /\ DOMAIN disk[n].rows = 1 .. Len(disk[n].rows) /\ Len(disk[n].rows) \in Nat
        /\ DOMAIN page[n].rows = 1 .. Len(page[n].rows) /\ Len(page[n].rows) \in Nat
    BY PageTypes
  <2>4. Len(disk[n].rows) <= Len(page[n].rows) /\ disk[n].rows[i] = page[n].rows[i]
    BY <2>2, <2>3 DEF FileInv, DiskLagsBehind
  <2>5. i \in DOMAIN page[n].rows
    BY <2>2, <2>3, <2>4
  <2> QED BY <1>1, <2>2, <2>4, <2>5, SlotsAre DEF RowAt
<1>3. ASSUME NEW r \in Rows
      PROVE  Cardinality({p \in Slots' : RowAt(p)' = r}) <= Cardinality({p \in Slots : RowAt(p) = r})
  <2>1. {p \in Slots' : RowAt(p)' = r} \in SUBSET {p \in Slots : RowAt(p) = r}
    BY <1>2
  <2> QED BY <2>1, CountsAreNumbers, FS_Subset
<1>4. /\ RowCount' = [r \in Rows |-> Cardinality({p \in Slots' : RowAt(p)' = r})]
      /\ RowCount = [r \in Rows |-> Cardinality({p \in Slots : RowAt(p) = r})]
  BY DEF RowCount
<1> QED BY <1>3, <1>4

LEMMA InitBag == ASSUME Init PROVE Bag!Init
<1>1. HeapInv
  BY InitHeap
<1>2. Slots = {}
  <2>1. \A n \in 1 .. num_pages - 1 : n \in HeapPages /\ DOMAIN page[n].rows = {}
    <3> TAKE n \in 1 .. num_pages - 1
    <3>1. n \in HeapPages
      BY <1>1, PageTypes DEF HeapInv
    <3>2. page[n].rows = <<>>
      BY <3>1 DEF Init, BlankPage
    <3> QED BY <3>1, <3>2
  <2> QED BY <2>1, SlotsAre
<1>3. ASSUME NEW r \in Rows PROVE Cardinality({p \in Slots : RowAt(p) = r}) = 0
  BY <1>2, FS_EmptySet
<1>4. RowCount = [r \in Rows |-> 0]
  BY <1>3 DEF RowCount
<1>5. kills = 0
  BY DEF Init
<1> QED BY <1>4, <1>5 DEF Bag!Init

\* Every step is an insertion, a kill, or does nothing to the bag.
LEMMA NextBag ==
    ASSUME HeapInv, HeapInv', [Next]_vars
    PROVE  [Bag!Next]_<<RowCount, kills>>
<1>1. FileInv /\ FileInv'
  BY DEF HeapInv
<1>2. ASSUME NEW r \in Rows, RowCount' = [RowCount EXCEPT ![r] = @ + 1], UNCHANGED kills
      PROVE  Bag!Next
  BY <1>2 DEF Bag!Next, Bag!Insert
<1>3. CASE UNCHANGED <<num_pages, page, kills>>
  <2>1. RowCount' = RowCount
    BY <1>3, SlotsKept, SameRows
  <2> QED BY <1>3, <2>1
<1>4. CASE InsertIntoCurrent
  <2>1. current_heap_page \in 1 .. num_pages - 1 /\ call.row \in Rows
    BY <1>1, <1>4, PageTypes, CallTypes
       DEF InsertIntoCurrent, Inserting, FileInv, TypeOK, HeapPages
  <2>2. /\ page' = [page EXCEPT ![current_heap_page].rows = Append(@, call.row)]
        /\ num_pages' = num_pages /\ kills' = kills
    BY <1>4 DEF InsertIntoCurrent, Placed
  <2>3. PICK r \in Rows : r = call.row
    BY <2>1
  <2>4. PICK n \in 1 .. num_pages - 1 : n = current_heap_page
    BY <2>1
  <2>5. page' = [page EXCEPT ![n].rows = Append(@, r)]
    BY <2>2, <2>3, <2>4
  <2>6. PICK new : /\ new \notin Slots /\ Slots' = Slots \cup {new} /\ RowAt(new)' = r
                   /\ \A p \in Slots : RowAt(p)' = RowAt(p)
    BY <1>1, <2>2, <2>5, RowAddsSlot
  <2>7. RowCount' = [RowCount EXCEPT ![r] = @ + 1]
    BY <1>1, <2>6, OneRowMore
  <2> QED BY <1>2, <2>2, <2>7
<1>5. ASSUME NextPage, PageFull \/ InsertIntoNew \/ InsertFails PROVE [Bag!Next]_<<RowCount, kills>>
  <2>1. /\ num_pages < MaxPages /\ num_pages' = num_pages + 1 /\ kills' = kills
        /\ call.row \in Rows
    BY <1>1, <1>5, CallTypes DEF NextPage, PageFull, InsertIntoNew, InsertFails, Inserting, history
  <2>2. /\ Created(page)[num_pages] = BlankPage(num_pages)
        /\ [Created(page) EXCEPT ![num_pages].rows = Append(@, call.row)]
              = [page EXCEPT ![num_pages] = [page_id |-> num_pages, rows |-> <<call.row>>]]
    BY <1>1, <2>1, NewPagePlaced
  <2>3. ASSUME NEW P, P.rows = <<>>, page' = [page EXCEPT ![num_pages] = P]
        PROVE  [Bag!Next]_<<RowCount, kills>>
    <3>1. Slots' = Slots /\ \A p \in Slots : RowAt(p)' = RowAt(p)
      BY <1>1, <2>1, <2>3, PageAddsSlots
    <3>2. RowCount' = RowCount
      BY <3>1, SameRows
    <3> QED BY <2>1, <3>2
  <2>4. CASE page' = Created(page)
    <3>1. PICK P : P = BlankPage(num_pages)
      OBVIOUS
    <3> QED BY <2>3, <2>4, <3>1 DEF Created, BlankPage
  <2>5. CASE page' = [page EXCEPT ![num_pages] = ZeroPage]
    BY <2>3, <2>5 DEF ZeroPage
  <2>6. CASE page' = [page EXCEPT ![num_pages] = [page_id |-> num_pages, rows |-> <<call.row>>]]
    <3>1. PICK r \in Rows : r = call.row
      BY <2>1
    <3>2. PICK P : P = [page_id |-> num_pages, rows |-> <<call.row>>]
      OBVIOUS
    <3>3. P.rows = <<r>> /\ page' = [page EXCEPT ![num_pages] = P]
      BY <2>6, <3>1, <3>2
    <3>4. \A p \in Slots : RowAt(p)' = RowAt(p)
      BY <1>1, <2>1, <3>3, PageAddsSlots
    <3>5. PICK new : new \notin Slots /\ Slots' = Slots \cup {new} /\ RowAt(new)' = r
      BY <1>1, <2>1, <3>3, PageAddsSlots
    <3>6. RowCount' = [RowCount EXCEPT ![r] = @ + 1]
      BY <1>1, <3>4, <3>5, OneRowMore
    <3> QED BY <1>2, <2>1, <3>6
  <2>7. CASE UNCHANGED <<pageVars, unformatted>>
    BY <1>3, <2>1, <2>7 DEF pageVars
  <2> QED BY <1>5, <2>2, <2>4, <2>5, <2>6, <2>7 DEF PageFull, InsertIntoNew, Placed, InsertFails
<1>6. CASE InsertFails /\ UNCHANGED <<pageVars, unformatted>>
  BY <1>3, <1>6 DEF InsertFails, pageVars
<1>7. CASE Kill
  <2>1. \A r \in Rows : RowCount'[r] <= RowCount[r]
    BY <1>1, <1>7, KillTakesRows
  <2>2. DOMAIN RowCount' = Rows
    BY DEF RowCount
  <2>3. kills' = kills + 1
    BY <1>7 DEF Kill
  <2> QED BY <2>1, <2>2, <2>3 DEF Bag!Next, Bag!Kill
<1>8. CASE InsertPanics \/ Shutdown
  BY <1>3, <1>8 DEF InsertPanics, Shutdown, Drop, history
<1>9. CASE Scan \/ (\E f \in Filters : ScanStarts(f)) \/ (\E r \in Rows : InsertStarts(r))
  BY <1>3, <1>9 DEF Scan, ScanSkips, ScanFinds, ScanFails, ScanTurnsPage, ScanEnds, ScanReturns,
     ScanStarts, InsertStarts, pageVars, history
<1>10. ASSUME NEW n \in HeapPages, WriteBack(n) PROVE [Bag!Next]_<<RowCount, kills>>
  BY <1>3, <1>10 DEF WriteBack, history
<1>11. CASE UNCHANGED vars
  BY <1>3, <1>11 DEF vars, pageVars, history
<1> QED
  BY <1>4, <1>5, <1>6, <1>7, <1>8, <1>9, <1>10, <1>11
     DEF Next, Insert, PageFull, InsertIntoNew, InsertFails, CreatesPage

\* The heap file implements a bag of rows: an insert adds its row once, however
\* many pages it tries, nothing else adds any, and rows go only when the process
\* is killed; a failed insert, a full page, a new page, a page that was never
\* formatted and the end of a session lose and duplicate none.
THEOREM HeapImplementsRowBag == Spec => ImplementsRowBag
<1>1. Init => Bag!Init
  BY InitBag
<1>2. HeapInv /\ HeapInv' /\ [Next]_vars => [Bag!Next]_<<RowCount, kills>>
  BY NextBag
<1> QED BY <1>1, <1>2, HeapIsSafe, PTL DEF Spec, ImplementsRowBag, Bag!Spec

=============================================================================
