-------------------------- MODULE BufferPoolProofs --------------------------
(***************************************************************************)
(* Proofs about BufferPool for every number of frames, holders, files and  *)
(* pages, and whether the disk fails or not.                               *)
(***************************************************************************)
EXTENDS BufferPool, FiniteSetTheorems, SequenceTheorems, TLAPS

-----------------------------------------------------------------------------
(* The inductive invariant: the invariants the runs check, and what they   *)
(* need to be preserved.                                                   *)

\* The free list is what is left of the one BufferPool::new built.
FreeFramesInOrder == \A i \in 1 .. Len(freeFrames) : freeFrames[i] = i - 1

\* A frame with a page was filled, and its page is in the file.
FramePageExists ==
    \A f \in Frames : pageId[f] # None => data[f] # None /\ Allocated(pageId[f])

\* The blocks of a file are those its footer counts.
DiskHasAllocated == \A p \in PageId : disk[p] # None <=> Allocated(p)

SafeInv ==
    /\ TypeOK
    /\ PinsCountGuards
    /\ GuardKeepsPage
    /\ TableNamesFrame
    /\ DirtyFrameHasPage
    /\ FreeFramesUnused
    /\ FreeFramesInOrder
    /\ FramePageExists
    /\ DiskHasAllocated

-----------------------------------------------------------------------------
(* Lemmas. *)

\* A remainder is smaller than its divisor.
LEMMA RemainderInFrames ==
    ASSUME NEW n \in Nat PROVE n % NumFrames \in Frames
  BY NumFramesAssumption, SMT DEF Frames

\* Nobody holds a guard on an unpinned frame.
LEMMA UnpinnedUnguarded ==
    ASSUME SafeInv, NEW f \in Frames, pinCount[f] = 0, NEW h \in Holders, guard[h] # None
    PROVE  guard[h].frame # f
<1>1. IsFiniteSet(GuardsOn(f))
  BY HoldersAssumption, FS_Subset DEF GuardsOn
<1>2. Cardinality(GuardsOn(f)) = 0
  BY DEF SafeInv, PinsCountGuards
<1>3. GuardsOn(f) = {}
  BY <1>1, <1>2, FS_EmptySet
<1> QED BY <1>3 DEF GuardsOn

\* Taking the last element off a sequence keeps the others in place.
LEMMA PopKeepsPrefix ==
    ASSUME NEW S, NEW s \in Seq(S), s # <<>>
    PROVE  /\ Len(s) \in 1 .. Len(s)
           /\ SubSeq(s, 1, Len(s) - 1) \in Seq(S)
           /\ Len(SubSeq(s, 1, Len(s) - 1)) = Len(s) - 1
           /\ \A i \in 1 .. Len(s) - 1 : SubSeq(s, 1, Len(s) - 1)[i] = s[i]
<1>1. Len(s) \in Nat /\ Len(s) # 0 /\ \A i \in 1 .. Len(s) : s[i] \in S
  BY LenProperties, EmptySeq
<1>2. \A i \in 1 .. Len(s) - 1 : s[i] \in S
  BY <1>1
<1> DEFINE t == SubSeq(s, 1, Len(s) - 1)
<1>3. /\ t \in Seq(S)
      /\ Len(t) = IF 1 <= Len(s) - 1 THEN (Len(s) - 1) - 1 + 1 ELSE 0
      /\ \A i \in 1 .. (Len(s) - 1) - 1 + 1 : t[i] = s[1 + i - 1]
  BY <1>1, <1>2, SubSeqProperties
<1> HIDE DEF t
<1>4. Len(s) \in 1 .. Len(s) /\ Len(t) = Len(s) - 1
  <2> DEFINE n == Len(s)
  <2>1. n \in Nat /\ n # 0 /\ Len(t) = IF 1 <= n - 1 THEN (n - 1) - 1 + 1 ELSE 0
    BY <1>1, <1>3
  <2> HIDE DEF n
  <2>2. n \in 1 .. n /\ Len(t) = n - 1
    BY <2>1
  <2> QED BY <2>2 DEF n
<1>5. \A i \in 1 .. Len(s) - 1 : t[i] = s[i]
  BY <1>1, <1>3
<1> QED BY <1>3, <1>4, <1>5 DEF t

\* What select_victim returns is an unpinned frame that is off the free list.
LEMMA VictimIsUnpinned ==
    ASSUME SafeInv, NEW f \in Frames, SelectVictim(f)
    PROVE  /\ pinCount[f] = 0
           /\ clockHand' \in Frames
           /\ freeFrames' \in Seq(Frames)
           /\ Len(freeFrames') <= Len(freeFrames)
           /\ \A i \in 1 .. Len(freeFrames') :
                 freeFrames'[i] = freeFrames[i] /\ freeFrames'[i] # f
<1>1. clockHand \in Frames /\ freeFrames \in Seq(Frames) /\ Len(freeFrames) \in Nat
  BY LenProperties DEF SafeInv, TypeOK
<1>2. CASE /\ freeFrames # <<>>
           /\ f = freeFrames[Len(freeFrames)]
           /\ freeFrames' = SubSeq(freeFrames, 1, Len(freeFrames) - 1)
           /\ UNCHANGED clockHand
  <2>1. /\ Len(freeFrames) \in 1 .. Len(freeFrames)
        /\ freeFrames' \in Seq(Frames)
        /\ Len(freeFrames') = Len(freeFrames) - 1
        /\ \A i \in 1 .. Len(freeFrames) - 1 : freeFrames'[i] = freeFrames[i]
    BY <1>1, <1>2, PopKeepsPrefix
  <2>2. pinCount[f] = 0
    BY <1>2, <2>1 DEF SafeInv, FreeFramesUnused
  <2>3. \A i \in 1 .. Len(freeFrames') : freeFrames'[i] # f
    BY <1>1, <1>2, <2>1 DEF SafeInv, FreeFramesInOrder
  <2> QED BY <1>1, <1>2, <2>1, <2>2, <2>3
<1>3. CASE /\ freeFrames = <<>>
           /\ \E k \in Sweep : /\ StopsAt(k)
                               /\ f = Visited(k)
                               /\ clockHand' = (clockHand + k + 1) % NumFrames
           /\ UNCHANGED freeFrames
  <2>1. PICK k \in Sweep : /\ StopsAt(k)
                           /\ f = Visited(k)
                           /\ clockHand' = (clockHand + k + 1) % NumFrames
    BY <1>3
  <2>2. pinCount[f] = 0
    BY <2>1 DEF StopsAt, Selects
  <2>3. clockHand + k + 1 \in Nat
    BY <1>1, NumFramesAssumption DEF Sweep, Frames
  <2>4. clockHand' \in Frames
    BY <2>1, <2>3, RemainderInFrames
  <2>5. Len(freeFrames) = 0
    BY <1>3, EmptySeq
  <2> QED BY <1>1, <1>3, <2>2, <2>4, <2>5
<1> QED BY <1>2, <1>3 DEF SelectVictim

\* Eviction takes every entry out of the table that leads to the frame.
LEMMA UnmappedForgetsFrame ==
    ASSUME SafeInv, NEW f \in Frames
    PROVE  /\ Unmapped(f) \in [PageId -> Frames \cup {None}]
           /\ \A p \in PageId : Unmapped(f)[p] # None =>
                 /\ Unmapped(f)[p] = pageTable[p]
                 /\ Unmapped(f)[p] # f
                 /\ p # pageId[f]
<1>1. /\ pageTable \in [PageId -> Frames \cup {None}]
      /\ pageId \in [Frames -> PageId \cup {None}]
      /\ \A p \in PageId : pageTable[p] # None => pageId[pageTable[p]] = p
  BY DEF SafeInv, TypeOK, TableNamesFrame
<1> QED BY <1>1, NoneIsNoPage DEF Unmapped

\* A write-back replaces a block and adds none.
LEMMA WriteBackKeepsBlocks ==
    ASSUME SafeInv, NEW f \in Frames,
           NEW blocks \in [PageId -> Block \cup {None}],
           pageId[f] # None => blocks[pageId[f]] # None
    PROVE  /\ WriteBack(blocks, f) \in [PageId -> Block \cup {None}]
           /\ \A p \in PageId : WriteBack(blocks, f)[p] # None <=> blocks[p] # None
           /\ \A p \in PageId : p # pageId[f] => WriteBack(blocks, f)[p] = blocks[p]
<1>1. /\ pageId \in [Frames -> PageId \cup {None}]
      /\ data \in [Frames -> Block \cup {None}]
      /\ pageId[f] # None => data[f] # None
  BY DEF SafeInv, TypeOK, FramePageExists
<1> QED BY <1>1 DEF WriteBack

LEMMA SweptFlagsClear ==
    ASSUME SafeInv
    PROVE  /\ SweptFlags \in [Frames -> BOOLEAN]
           /\ \A f \in Frames : SweptFlags[f] => clockFlag[f]
BY Zenon DEF SweptFlags, SafeInv, TypeOK

\* The free list survives a call that took a victim f and changed f alone.
LEMMA FreeFramesKept ==
    ASSUME SafeInv, NEW f \in Frames, SelectVictim(f),
           \A g \in Frames \ {f} : /\ pageId'[g] = pageId[g]
                                   /\ pinCount'[g] = pinCount[g]
                                   /\ clockFlag'[g] => clockFlag[g]
    PROVE  FreeFramesUnused' /\ FreeFramesInOrder'
<1>1. /\ freeFrames' \in Seq(Frames) /\ Len(freeFrames') \in Nat /\ Len(freeFrames) \in Nat
      /\ Len(freeFrames') <= Len(freeFrames)
      /\ \A i \in 1 .. Len(freeFrames') :
            freeFrames'[i] = freeFrames[i] /\ freeFrames'[i] # f
  BY VictimIsUnpinned, LenProperties DEF SafeInv, TypeOK
<1>2. SUFFICES ASSUME NEW i \in 1 .. Len(freeFrames')
               PROVE  /\ pageId'[freeFrames'[i]] = None
                      /\ pinCount'[freeFrames'[i]] = 0
                      /\ ~ clockFlag'[freeFrames'[i]]
                      /\ freeFrames'[i] = i - 1
  BY DEF FreeFramesUnused, FreeFramesInOrder
<1> DEFINE g == freeFrames[i]
<1>3. i \in 1 .. Len(freeFrames) /\ freeFrames'[i] = g
  BY <1>1
<1>4. g \in Frames \ {f}
  BY <1>1, <1>3, ElementOfSeq DEF SafeInv, TypeOK
<1>5. pageId[g] = None /\ pinCount[g] = 0 /\ ~ clockFlag[g] /\ g = i - 1
  BY <1>3 DEF SafeInv, FreeFramesUnused, FreeFramesInOrder
<1> HIDE DEF g
<1> QED BY <1>3, <1>4, <1>5, Zenon

\* ... and a call that leaves the frames without a page alone.
LEMMA FreeFramesUntouched ==
    ASSUME SafeInv, UNCHANGED freeFrames,
           \A g \in Frames : pageId[g] = None =>
                                /\ pageId'[g] = None
                                /\ pinCount'[g] = pinCount[g]
                                /\ clockFlag'[g] => clockFlag[g]
    PROVE  FreeFramesUnused' /\ FreeFramesInOrder'
<1>1. \A i \in 1 .. Len(freeFrames) : freeFrames[i] \in Frames
  BY ElementOfSeq DEF SafeInv, TypeOK
<1> QED BY <1>1 DEF SafeInv, FreeFramesUnused, FreeFramesInOrder

\* A guard handed out goes with one pin more ...
LEMMA PinTaken ==
    ASSUME SafeInv, NEW h \in Holders, NEW f \in Frames, NEW p \in PageId,
           guard[h] = None,
           guard' = [guard EXCEPT ![h] = [page_id |-> p, frame |-> f]],
           pinCount' = [pinCount EXCEPT ![f] = pinCount[f] + 1]
    PROVE  PinsCountGuards'
<1>1. /\ guard \in [Holders -> Guard \cup {None}]
      /\ pinCount \in [Frames -> Nat]
      /\ \A g \in Frames : pinCount[g] = Cardinality(GuardsOn(g))
  BY DEF SafeInv, TypeOK, PinsCountGuards
<1>2. [page_id |-> p, frame |-> f] # None
  BY NoneIsNoGuard DEF Guard
<1>3. GuardsOn(f)' = GuardsOn(f) \cup {h} /\ h \notin GuardsOn(f)
  BY <1>1, <1>2 DEF GuardsOn
<1>4. IsFiniteSet(GuardsOn(f))
  BY HoldersAssumption, FS_Subset DEF GuardsOn
<1>5. Cardinality(GuardsOn(f)') = pinCount[f] + 1
  BY <1>1, <1>3, <1>4, FS_AddElement
<1>6. \A g \in Frames \ {f} : GuardsOn(g)' = GuardsOn(g)
  BY <1>1, <1>2 DEF GuardsOn
<1>7. ASSUME NEW g \in Frames PROVE (pinCount[g] = Cardinality(GuardsOn(g)))'
  <2>1. CASE g = f
    BY <1>1, <1>5, <2>1
  <2>2. CASE g # f
    BY <1>1, <1>6, <2>2
  <2> QED BY <2>1, <2>2
<1> QED BY <1>7 DEF PinsCountGuards

\* ... and a guard dropped with one pin less.
LEMMA PinReleased ==
    ASSUME SafeInv, NEW h \in Holders, NEW f \in Frames,
           guard[h] # None, guard[h].frame = f,
           guard' = [guard EXCEPT ![h] = None],
           pinCount' = [pinCount EXCEPT ![f] = pinCount[f] - 1]
    PROVE  PinsCountGuards' /\ pinCount' \in [Frames -> Nat]
<1>1. /\ guard \in [Holders -> Guard \cup {None}]
      /\ pinCount \in [Frames -> Nat]
      /\ \A g \in Frames : pinCount[g] = Cardinality(GuardsOn(g))
  BY DEF SafeInv, TypeOK, PinsCountGuards
<1>2. GuardsOn(f)' = GuardsOn(f) \ {h} /\ h \in GuardsOn(f)
  BY <1>1 DEF GuardsOn
<1>3. IsFiniteSet(GuardsOn(f))
  BY HoldersAssumption, FS_Subset DEF GuardsOn
<1>4. Cardinality(GuardsOn(f)') = pinCount[f] - 1 /\ Cardinality(GuardsOn(f)') \in Nat
  <2>1. /\ IsFiniteSet(GuardsOn(f)')
        /\ Cardinality(GuardsOn(f)') = Cardinality(GuardsOn(f)) - 1
    BY <1>2, <1>3, FS_RemoveElement
  <2> QED BY <1>1, <2>1, FS_CardinalityType
<1>5. \A g \in Frames \ {f} : GuardsOn(g)' = GuardsOn(g)
  BY <1>1 DEF GuardsOn
<1>6. \A g \in Frames : pinCount'[g] = IF g = f THEN pinCount[g] - 1 ELSE pinCount[g]
  BY <1>1
<1>7. ASSUME NEW g \in Frames PROVE (pinCount[g] = Cardinality(GuardsOn(g)))'
  <2>1. CASE g = f
    BY <1>1, <1>4, <1>6, <2>1
  <2>2. CASE g # f
    BY <1>1, <1>5, <1>6, <2>2
  <2> QED BY <2>1, <2>2
<1>8. pinCount' \in [Frames -> Nat]
  <2>1. pinCount[f] - 1 \in Nat
    BY <1>4
  <2> QED BY <1>1, <2>1
<1> QED BY <1>7, <1>8 DEF PinsCountGuards

-----------------------------------------------------------------------------
(* Every call preserves the invariant.  The calls that evict a page first. *)

\* evict_page fails: the table loses the page of the victim, nothing else
\* changes but the disk, which may have grown before.
LEMMA FailedEvictionSafe ==
    ASSUME SafeInv, NEW f \in Frames, SelectVictim(f),
           pageTable' = Unmapped(f) \/ UNCHANGED pageTable,
           clockFlag' = SweptFlags, result' \in Outcomes,
           UNCHANGED <<pageId, pinCount, dirty, data, guard>>,
           numPages' \in [Files -> 1 .. MaxPages],
           \A file \in Files : numPages[file] <= numPages'[file],
           disk' \in [PageId -> Block \cup {None}],
           DiskHasAllocated'
    PROVE  SafeInv'
<1>1. /\ clockHand' \in Frames /\ freeFrames' \in Seq(Frames)
  BY VictimIsUnpinned
<1>2. /\ pageTable' \in [PageId -> Frames \cup {None}]
      /\ \A p \in PageId : pageTable'[p] # None => pageTable'[p] = pageTable[p]
  BY UnmappedForgetsFrame DEF SafeInv, TypeOK
<1>3. clockFlag' \in [Frames -> BOOLEAN] /\ \A g \in Frames : clockFlag'[g] => clockFlag[g]
  BY SweptFlagsClear, Zenon
<1>4. TypeOK'
  BY <1>1, <1>2, <1>3 DEF SafeInv, TypeOK
<1>5. PinsCountGuards'
  BY DEF SafeInv, PinsCountGuards, GuardsOn
<1>6. GuardKeepsPage' /\ DirtyFrameHasPage'
  BY DEF SafeInv, GuardKeepsPage, DirtyFrameHasPage
<1>7. TableNamesFrame'
  BY <1>2 DEF SafeInv, TableNamesFrame
<1>8. FreeFramesUnused' /\ FreeFramesInOrder'
  BY <1>3, FreeFramesKept
<1>9. FramePageExists'
  <2>1. SUFFICES ASSUME NEW g \in Frames, pageId[g] # None
                 PROVE  Allocated(pageId[g])'
    BY DEF SafeInv, FramePageExists
  <2>2. Allocated(pageId[g]) /\ pageId[g] \in PageId
    BY <2>1 DEF SafeInv, FramePageExists, TypeOK
  <2> QED BY <2>2 DEF Allocated, PageId, PageNums, SafeInv, TypeOK
<1> QED BY <1>4, <1>5, <1>6, <1>7, <1>8, <1>9 DEF SafeInv

\* Nobody sees the frame a victim loses its page in.
LEMMA VictimUnguarded ==
    ASSUME SafeInv, NEW f \in Frames, SelectVictim(f)
    PROVE  /\ pinCount[f] = 0
           /\ \A h \in Holders : guard[h] # None => guard[h].frame \in Frames \ {f}
BY VictimIsUnpinned, UnpinnedUnguarded DEF SafeInv, TypeOK, Guard

LEMMA GetPageLoadSafe ==
    ASSUME SafeInv, NEW h \in Holders, NEW p \in PageId, GetPageLoad(h, p)
    PROVE  SafeInv'
<1>1. PICK f \in Frames :
          /\ SelectVictim(f)
          /\ disk'      = WriteBack(disk, f)
          /\ pageTable' = [Unmapped(f) EXCEPT ![p] = f]
          /\ pageId'    = [pageId EXCEPT ![f] = p]
          /\ pinCount'  = [pinCount EXCEPT ![f] = 1]
          /\ clockFlag' = [SweptFlags EXCEPT ![f] = TRUE]
          /\ dirty'     = [dirty EXCEPT ![f] = FALSE]
          /\ data'      = [data EXCEPT ![f] = WriteBack(disk, f)[p]]
          /\ guard'     = [guard EXCEPT ![h] = [page_id |-> p, frame |-> f]]
  BY DEF GetPageLoad
<1>2. /\ guard[h] = None /\ pageTable[p] = None /\ Allocated(p)
      /\ result' = "Ok" /\ UNCHANGED numPages
  BY DEF GetPageLoad
<1>3. /\ clockHand' \in Frames /\ freeFrames' \in Seq(Frames)
      /\ pinCount[f] = 0
      /\ \A k \in Holders : guard[k] # None => guard[k].frame \in Frames \ {f}
  BY <1>1, VictimIsUnpinned, VictimUnguarded
<1>4. /\ disk' \in [PageId -> Block \cup {None}]
      /\ \A q \in PageId : disk'[q] # None <=> disk[q] # None
  BY <1>1, WriteBackKeepsBlocks, SMTT(30) DEF SafeInv, TypeOK, FramePageExists, DiskHasAllocated
<1>5. disk'[p] \in Block /\ data' = [data EXCEPT ![f] = disk'[p]]
  BY <1>1, <1>2, <1>4 DEF SafeInv, DiskHasAllocated
<1>6. /\ SweptFlags \in [Frames -> BOOLEAN]
      /\ \A g \in Frames : SweptFlags[g] => clockFlag[g]
  BY SweptFlagsClear
<1>7. TypeOK'
  <2>1. [page_id |-> p, frame |-> f] \in Guard
    BY DEF Guard
  <2> QED BY <1>1, <1>2, <1>3, <1>4, <1>5, <1>6, <2>1, UnmappedForgetsFrame
          DEF SafeInv, TypeOK, Outcomes
<1>8. PinsCountGuards'
  <2>1. pinCount' = [pinCount EXCEPT ![f] = pinCount[f] + 1]
    BY <1>1, <1>3
  <2> QED BY <1>1, <1>2, <2>1, PinTaken
<1>9. GuardKeepsPage'
  BY <1>1, <1>3 DEF SafeInv, TypeOK, GuardKeepsPage
<1>10. TableNamesFrame'
  BY <1>1, UnmappedForgetsFrame DEF SafeInv, TypeOK, TableNamesFrame
<1>11. DirtyFrameHasPage'
  BY <1>1 DEF SafeInv, TypeOK, DirtyFrameHasPage
<1>12. FreeFramesUnused' /\ FreeFramesInOrder'
  <2>1. \A g \in Frames \ {f} : /\ pageId'[g] = pageId[g]
                                /\ pinCount'[g] = pinCount[g]
                                /\ clockFlag'[g] => clockFlag[g]
    BY <1>1, <1>6 DEF SafeInv, TypeOK
  <2> QED BY <1>1, <2>1, FreeFramesKept
<1>13. FramePageExists'
  BY <1>1, <1>2, <1>5, NoneIsNoBlock DEF SafeInv, TypeOK, FramePageExists, Allocated
<1>14. DiskHasAllocated'
  BY <1>2, <1>4 DEF SafeInv, DiskHasAllocated, Allocated
<1> QED BY <1>7, <1>8, <1>9, <1>10, <1>11, <1>12, <1>13, <1>14 DEF SafeInv

LEMMA GetPageReadFailsSafe ==
    ASSUME SafeInv, NEW h \in Holders, NEW p \in PageId, GetPageReadFails(h, p)
    PROVE  SafeInv'
<1>1. PICK f \in Frames :
          /\ SelectVictim(f)
          /\ disk'      = WriteBack(disk, f)
          /\ clockFlag' = [SweptFlags EXCEPT ![f] = TRUE]
          /\ GiveUp(f, p)
  BY DEF GetPageReadFails
<1>2. /\ result' \in {"Io", "PageNotFound"}
      /\ UNCHANGED <<data, numPages, guard>>
  BY DEF GetPageReadFails
<1>3. /\ clockHand' \in Frames /\ freeFrames' \in Seq(Frames)
      /\ pinCount[f] = 0
      /\ \A k \in Holders : guard[k] # None => guard[k].frame \in Frames \ {f}
  BY <1>1, VictimIsUnpinned, VictimUnguarded
<1>4. /\ disk' \in [PageId -> Block \cup {None}]
      /\ \A q \in PageId : disk'[q] # None <=> disk[q] # None
  BY <1>1, WriteBackKeepsBlocks, ZenonT(40) DEF SafeInv, TypeOK, FramePageExists, DiskHasAllocated
<1>5. /\ SweptFlags \in [Frames -> BOOLEAN]
      /\ \A g \in Frames : SweptFlags[g] => clockFlag[g]
  BY SweptFlagsClear
<1>6. /\ pinCount' = pinCount
      /\ pageId' = [pageId EXCEPT ![f] = None]
      /\ dirty' = [dirty EXCEPT ![f] = FALSE]
      /\ pageTable' = [Unmapped(f) EXCEPT ![p] = None]
  BY <1>1, <1>3 DEF GiveUp, SafeInv, TypeOK
<1>7. TypeOK'
  BY <1>1, <1>2, <1>3, <1>4, <1>5, <1>6, UnmappedForgetsFrame DEF SafeInv, TypeOK, Outcomes
<1>8. PinsCountGuards'
  BY <1>2, <1>6 DEF SafeInv, PinsCountGuards, GuardsOn
<1>9. GuardKeepsPage'
  BY <1>2, <1>3, <1>6 DEF SafeInv, TypeOK, GuardKeepsPage
<1>10. TableNamesFrame'
  BY <1>6, UnmappedForgetsFrame DEF SafeInv, TypeOK, TableNamesFrame
<1>11. DirtyFrameHasPage'
  BY <1>6 DEF SafeInv, TypeOK, DirtyFrameHasPage
<1>12. FreeFramesUnused' /\ FreeFramesInOrder'
  <2>1. \A g \in Frames \ {f} : /\ pageId'[g] = pageId[g]
                                /\ pinCount'[g] = pinCount[g]
                                /\ clockFlag'[g] => clockFlag[g]
    BY <1>1, <1>5, <1>6 DEF SafeInv, TypeOK
  <2> QED BY <1>1, <2>1, FreeFramesKept
<1>13. FramePageExists'
  BY <1>2, <1>6 DEF SafeInv, TypeOK, FramePageExists, Allocated
<1>14. DiskHasAllocated'
  BY <1>2, <1>4 DEF SafeInv, DiskHasAllocated, Allocated
<1> QED BY <1>7, <1>8, <1>9, <1>10, <1>11, <1>12, <1>13, <1>14 DEF SafeInv

\* The page create_page appends is a new one, and the file has room for it.
LEMMA NextPageIsNew ==
    ASSUME SafeInv, NEW file \in Files, numPages[file] < MaxPages
    PROVE  /\ NextPage(file) \in PageId
           /\ ~ Allocated(NextPage(file))
           /\ pageTable[NextPage(file)] = None
           /\ Appended(file) \in [PageId -> Block \cup {None}]
           /\ \A p \in PageId : Appended(file)[p] # None <=>
                                   disk[p] # None \/ p = NextPage(file)
<1>1. /\ NextPage(file) \in PageId
      /\ NextPage(file).file_id = file /\ NextPage(file).page_num = numPages[file]
  BY MaxPagesAssumption DEF SafeInv, TypeOK, NextPage, PageId, PageNums
<1>2. ~ Allocated(NextPage(file))
  BY <1>1 DEF Allocated, SafeInv, TypeOK
<1>3. pageTable[NextPage(file)] = None
  <2>1. SUFFICES ASSUME pageTable[NextPage(file)] # None PROVE FALSE
    OBVIOUS
  <2>2. pageTable[NextPage(file)] \in Frames /\ pageId[pageTable[NextPage(file)]] = NextPage(file)
    BY <1>1, <2>1 DEF SafeInv, TypeOK, TableNamesFrame
  <2> QED BY <1>1, <1>2, <2>2, NoneIsNoPage DEF SafeInv, FramePageExists
<1>4. ZeroBlock \in Block
  BY MaxPagesAssumption, BodiesAssumption DEF ZeroBlock, Block, PageNums, PageKind
<1> QED BY <1>1, <1>2, <1>3, <1>4, NoneIsNoBlock DEF Appended, SafeInv, TypeOK

\* Counting the appended page makes it the one page that is allocated now.
LEMMA AppendedIsAllocated ==
    ASSUME SafeInv, NEW file \in Files, numPages[file] < MaxPages,
           numPages' = [numPages EXCEPT ![file] = @ + 1]
    PROVE  /\ numPages' \in [Files -> 1 .. MaxPages]
           /\ \A any \in Files : numPages[any] <= numPages'[any]
           /\ \A p \in PageId : Allocated(p)' <=> Allocated(p) \/ p = NextPage(file)
<1>1. numPages \in [Files -> 1 .. MaxPages]
  BY DEF SafeInv, TypeOK
<1>2. numPages' \in [Files -> 1 .. MaxPages] /\ \A any \in Files : numPages[any] <= numPages'[any]
  BY <1>1, MaxPagesAssumption
<1>3. ASSUME NEW p \in PageId
      PROVE  Allocated(p)' <=> Allocated(p) \/ p = NextPage(file)
  <2>1. p.file_id \in Files /\ p.page_num \in Nat
    BY DEF PageId, PageNums
  <2>2. p = NextPage(file) <=> p.file_id = file /\ p.page_num = numPages[file]
    BY DEF PageId, NextPage
  <2>3. CASE p.file_id = file
    BY <1>1, <2>1, <2>2, <2>3 DEF Allocated
  <2>4. CASE p.file_id # file
    BY <1>1, <2>1, <2>2, <2>4 DEF Allocated
  <2> QED BY <2>3, <2>4
<1> QED BY <1>2, <1>3

LEMMA CreatePageSafe ==
    ASSUME SafeInv, NEW h \in Holders, NEW file \in Files, NEW kind \in PageKind,
           CreatePage(h, file, kind)
    PROVE  SafeInv'
<1>0. PICK p : p = NextPage(file)
  OBVIOUS
<1>1. PICK f \in Frames :
          /\ SelectVictim(f)
          /\ disk'      = WriteBack(Appended(file), f)
          /\ pageTable' = [Unmapped(f) EXCEPT ![NextPage(file)] = f]
          /\ pageId'    = [pageId EXCEPT ![f] = NextPage(file)]
          /\ pinCount'  = [pinCount EXCEPT ![f] = @ + 1]
          /\ clockFlag' = [SweptFlags EXCEPT ![f] = TRUE]
          /\ dirty'     = [dirty EXCEPT ![f] = TRUE]
          /\ data'      = [data EXCEPT ![f] = create_blank_page(numPages[file], kind)]
          /\ guard'     = [guard EXCEPT ![h] = [page_id |-> NextPage(file), frame |-> f]]
  BY DEF CreatePage
<1>2. /\ guard[h] = None /\ numPages[file] < MaxPages
      /\ numPages' = [numPages EXCEPT ![file] = @ + 1]
      /\ result' = "Ok"
  BY DEF CreatePage
<1>3. /\ clockHand' \in Frames /\ freeFrames' \in Seq(Frames)
      /\ pinCount[f] = 0
      /\ \A k \in Holders : guard[k] # None => guard[k].frame \in Frames \ {f}
  BY <1>1, VictimIsUnpinned, VictimUnguarded
<1>4. /\ p \in PageId
      /\ Appended(file) \in [PageId -> Block \cup {None}]
      /\ \A q \in PageId : Appended(file)[q] # None <=> disk[q] # None \/ q = p
  BY <1>0, <1>2, NextPageIsNew
<1>5. /\ disk' \in [PageId -> Block \cup {None}]
      /\ \A q \in PageId : disk'[q] # None <=> disk[q] # None \/ q = p
  <2>1. pageId[f] # None => Appended(file)[pageId[f]] # None
    BY <1>4 DEF SafeInv, TypeOK, FramePageExists, DiskHasAllocated
  <2> QED BY <1>1, <1>4, <2>1, WriteBackKeepsBlocks
<1>6. /\ numPages' \in [Files -> 1 .. MaxPages]
      /\ \A q \in PageId : Allocated(q)' <=> Allocated(q) \/ q = p
  BY <1>0, <1>2, AppendedIsAllocated
<1>7. create_blank_page(numPages[file], kind) \in Block
  BY <1>2, BodiesAssumption, MaxPagesAssumption
     DEF create_blank_page, Block, PageNums, SafeInv, TypeOK
<1>8. /\ SweptFlags \in [Frames -> BOOLEAN]
      /\ \A g \in Frames : SweptFlags[g] => clockFlag[g]
  BY SweptFlagsClear
<1>9. /\ pageTable' = [Unmapped(f) EXCEPT ![p] = f]
      /\ pageId' = [pageId EXCEPT ![f] = p]
      /\ guard' = [guard EXCEPT ![h] = [page_id |-> p, frame |-> f]]
  BY <1>0, <1>1
<1>10. TypeOK'
  <2>1. [page_id |-> p, frame |-> f] \in Guard
    BY <1>4 DEF Guard
  <2>2. pinCount' \in [Frames -> Nat]
    BY <1>1 DEF SafeInv, TypeOK
  <2> QED BY <1>1, <1>2, <1>3, <1>4, <1>5, <1>6, <1>7, <1>8, <1>9, <2>1, <2>2,
             UnmappedForgetsFrame DEF SafeInv, TypeOK, Outcomes
<1>11. PinsCountGuards'
  BY <1>1, <1>2, <1>4, <1>9, PinTaken
<1>12. GuardKeepsPage'
  BY <1>3, <1>4, <1>9 DEF SafeInv, TypeOK, GuardKeepsPage
<1>13. TableNamesFrame'
  BY <1>4, <1>9, UnmappedForgetsFrame DEF SafeInv, TypeOK, TableNamesFrame
<1>14. DirtyFrameHasPage'
  BY <1>1, <1>4, <1>9, NoneIsNoPage DEF SafeInv, TypeOK, DirtyFrameHasPage
<1>15. FreeFramesUnused' /\ FreeFramesInOrder'
  <2>1. \A g \in Frames \ {f} : /\ pageId'[g] = pageId[g]
                                /\ pinCount'[g] = pinCount[g]
                                /\ clockFlag'[g] => clockFlag[g]
    BY <1>1, <1>8 DEF SafeInv, TypeOK
  <2> QED BY <1>1, <2>1, FreeFramesKept
<1>16. FramePageExists'
  <2>1. SUFFICES ASSUME NEW g \in Frames, pageId'[g] # None
                 PROVE  (data[g] # None /\ Allocated(pageId[g]))'
    BY DEF FramePageExists
  <2>2. CASE g = f
    <3>1. pageId'[g] = p /\ data'[g] \in Block
      BY <1>1, <1>4, <1>7, <1>9, <2>2 DEF SafeInv, TypeOK
    <3>2. Allocated(p)'
      BY <1>4, <1>6
    <3> QED BY <3>1, <3>2, NoneIsNoBlock DEF Allocated
  <2>3. CASE g # f
    <3>1. pageId'[g] = pageId[g] /\ data'[g] = data[g] /\ pageId[g] \in PageId
      BY <1>1, <1>9, <2>1, <2>3 DEF SafeInv, TypeOK
    <3>2. pageId[g] # None
      BY <2>1, <3>1
    <3>3. data[g] # None /\ Allocated(pageId[g])
      BY <3>2 DEF SafeInv, FramePageExists
    <3>4. \A q \in PageId : Allocated(q) => Allocated(q)'
      BY <1>6
    <3> QED BY <3>1, <3>3, <3>4 DEF Allocated
  <2> QED BY <2>2, <2>3
<1>17. DiskHasAllocated'
  BY <1>5, <1>6 DEF SafeInv, DiskHasAllocated
<1> QED BY <1>10, <1>11, <1>12, <1>13, <1>14, <1>15, <1>16, <1>17 DEF SafeInv

LEMMA CreatePageFailsSafe ==
    ASSUME SafeInv, NEW h \in Holders, NEW file \in Files,
           CreatePageAppendFails(h, file) \/ CreatePageEvictFails(h, file)
    PROVE  SafeInv'
<1>1. PICK f \in Frames : SelectVictim(f) /\ (pageTable' = Unmapped(f) \/ UNCHANGED pageTable)
  BY DEF CreatePageAppendFails, CreatePageEvictFails
<1>2. /\ numPages[file] < MaxPages
      /\ clockFlag' = SweptFlags /\ result' = "Io"
      /\ UNCHANGED <<pageId, pinCount, dirty, data, guard>>
      /\ \/ UNCHANGED diskVars
         \/ /\ disk' = Appended(file)
            /\ numPages' = [numPages EXCEPT ![file] = @ + 1]
  BY DEF CreatePageAppendFails, CreatePageEvictFails
<1>3. /\ disk' \in [PageId -> Block \cup {None}]
      /\ numPages' \in [Files -> 1 .. MaxPages]
      /\ \A any \in Files : numPages[any] <= numPages'[any]
      /\ DiskHasAllocated'
  <2>1. CASE UNCHANGED diskVars
    BY <2>1 DEF diskVars, SafeInv, TypeOK, DiskHasAllocated, Allocated
  <2>2. CASE disk' = Appended(file) /\ numPages' = [numPages EXCEPT ![file] = @ + 1]
    BY <1>2, <2>2, NextPageIsNew, AppendedIsAllocated DEF SafeInv, DiskHasAllocated
  <2> QED BY <1>2, <2>1, <2>2
<1>4. result' \in Outcomes
  BY <1>2 DEF Outcomes
<1> QED BY <1>1, <1>2, <1>3, <1>4, FailedEvictionSafe

(* The calls that evict nothing. *)

LEMMA GetPageHitSafe ==
    ASSUME SafeInv, NEW h \in Holders, NEW p \in PageId, GetPageHit(h, p)
    PROVE  SafeInv'
<1>1. PICK f : f = pageTable[p]
  OBVIOUS
<1>2. /\ guard[h] = None /\ f # None
      /\ pinCount'  = [pinCount EXCEPT ![f] = pinCount[f] + 1]
      /\ clockFlag' = [clockFlag EXCEPT ![f] = TRUE]
      /\ guard'     = [guard EXCEPT ![h] = [page_id |-> p, frame |-> f]]
      /\ result' = "Ok"
      /\ UNCHANGED <<pageId, dirty, data, clockVars, pageTable, diskVars>>
  BY <1>1 DEF GetPageHit
<1>3. f \in Frames /\ pageId[f] = p
  BY <1>1, <1>2 DEF SafeInv, TypeOK, TableNamesFrame
<1>4. TypeOK'
  <2>1. [page_id |-> p, frame |-> f] \in Guard
    BY <1>3 DEF Guard
  <2> QED BY <1>2, <1>3, <2>1 DEF SafeInv, TypeOK, clockVars, diskVars, Outcomes
<1>5. PinsCountGuards'
  BY <1>2, <1>3, PinTaken
<1>6. GuardKeepsPage'
  BY <1>2, <1>3 DEF SafeInv, TypeOK, GuardKeepsPage
<1>7. TableNamesFrame' /\ DirtyFrameHasPage'
  BY <1>2 DEF SafeInv, TableNamesFrame, DirtyFrameHasPage
<1>8. FreeFramesUnused' /\ FreeFramesInOrder'
  <2>1. \A g \in Frames : pageId[g] = None =>
           pageId'[g] = None /\ pinCount'[g] = pinCount[g] /\ (clockFlag'[g] => clockFlag[g])
    BY <1>2, <1>3, NoneIsNoPage DEF SafeInv, TypeOK
  <2> QED BY <1>2, <2>1, FreeFramesUntouched DEF clockVars
<1>9. FramePageExists' /\ DiskHasAllocated'
  BY <1>2 DEF SafeInv, FramePageExists, DiskHasAllocated, Allocated, diskVars
<1> QED BY <1>4, <1>5, <1>6, <1>7, <1>8, <1>9 DEF SafeInv

LEMMA RefusedSafe ==
    ASSUME SafeInv,
           clockHand' = (clockHand + 4 * NumFrames) % NumFrames,
           clockFlag' = SweptFlags, result' \in Outcomes,
           UNCHANGED <<pageId, pinCount, dirty, data, freeFrames, pageTable, diskVars, guard>>
    PROVE  SafeInv'
<1>1. clockHand' \in Frames
  <2>1. clockHand + 4 * NumFrames \in Nat
    BY NumFramesAssumption DEF SafeInv, TypeOK, Frames
  <2> QED BY <2>1, RemainderInFrames
<1>2. clockFlag' \in [Frames -> BOOLEAN] /\ \A g \in Frames : clockFlag'[g] => clockFlag[g]
  BY SweptFlagsClear, Zenon
<1>3. TypeOK'
  BY <1>1, <1>2 DEF SafeInv, TypeOK, diskVars
<1>4. PinsCountGuards' /\ GuardKeepsPage' /\ TableNamesFrame' /\ DirtyFrameHasPage'
  BY DEF SafeInv, PinsCountGuards, GuardsOn, GuardKeepsPage, TableNamesFrame,
         DirtyFrameHasPage
<1>5. FreeFramesUnused' /\ FreeFramesInOrder'
  BY <1>2, FreeFramesUntouched
<1>6. FramePageExists' /\ DiskHasAllocated'
  BY DEF SafeInv, FramePageExists, DiskHasAllocated, Allocated, diskVars
<1> QED BY <1>3, <1>4, <1>5, <1>6 DEF SafeInv

LEMMA WriteSafe ==
    ASSUME SafeInv, NEW h \in Holders, NEW kind \in PageKind, NEW body \in Bodies,
           Write(h, kind, body)
    PROVE  SafeInv'
<1>1. PICK f : f = guard[h].frame
  OBVIOUS
<1>2. /\ guard[h] # None
      /\ dirty' = [dirty EXCEPT ![f] = TRUE]
      /\ data' = [data EXCEPT ![f].body = body] \/ UNCHANGED data
      /\ result' \in {"Ok", "PageCast"}
      /\ UNCHANGED <<pageId, pinCount, clockFlag, clockVars, pageTable, diskVars, guard>>
  BY <1>1 DEF Write
<1>3. f \in Frames /\ pageId[f] # None /\ data[f] \in Block
  <2>1. guard[h] \in Guard
    BY <1>2 DEF SafeInv, TypeOK
  <2>2. f \in Frames /\ pageId[f] = guard[h].page_id /\ guard[h].page_id \in PageId
    BY <1>1, <1>2, <2>1 DEF SafeInv, GuardKeepsPage, Guard
  <2>3. pageId[f] # None
    BY <2>2, NoneIsNoPage
  <2> QED BY <2>2, <2>3 DEF SafeInv, TypeOK, FramePageExists
<1>4. /\ data' \in [Frames -> Block \cup {None}]
      /\ \A g \in Frames : data[g] # None => data'[g] # None
  <2>1. [data[f] EXCEPT !.body = body] \in Block
    BY <1>3 DEF Block
  <2> QED BY <1>2, <1>3, <2>1, NoneIsNoBlock DEF SafeInv, TypeOK
<1>5. TypeOK'
  BY <1>2, <1>3, <1>4 DEF SafeInv, TypeOK, clockVars, diskVars, Outcomes
<1>6. PinsCountGuards' /\ GuardKeepsPage' /\ TableNamesFrame'
  BY <1>2 DEF SafeInv, PinsCountGuards, GuardsOn, GuardKeepsPage, TableNamesFrame
<1>7. DirtyFrameHasPage'
  BY <1>2, <1>3 DEF SafeInv, TypeOK, DirtyFrameHasPage
<1>8. FreeFramesUnused' /\ FreeFramesInOrder'
  BY <1>2, FreeFramesUntouched DEF clockVars
<1>9. FramePageExists' /\ DiskHasAllocated'
  BY <1>2, <1>4 DEF SafeInv, FramePageExists, DiskHasAllocated, Allocated, diskVars
<1> QED BY <1>5, <1>6, <1>7, <1>8, <1>9 DEF SafeInv

LEMMA DropGuardSafe ==
    ASSUME SafeInv, NEW h \in Holders, DropGuard(h)
    PROVE  SafeInv'
<1>1. PICK f : f = guard[h].frame
  OBVIOUS
<1>2. /\ guard[h] # None
      /\ pinCount' = [pinCount EXCEPT ![f] = pinCount[f] - 1]
      /\ guard' = [guard EXCEPT ![h] = None]
      /\ result' = "Dropped"
      /\ UNCHANGED <<pageId, clockFlag, dirty, data, clockVars, pageTable, diskVars>>
  BY <1>1 DEF DropGuard
<1>3. f \in Frames /\ pageId[f] # None
  <2>1. guard[h] \in Guard
    BY <1>2 DEF SafeInv, TypeOK
  <2>2. f \in Frames /\ pageId[f] = guard[h].page_id /\ guard[h].page_id \in PageId
    BY <1>1, <1>2, <2>1 DEF SafeInv, GuardKeepsPage, Guard
  <2> QED BY <2>2, NoneIsNoPage
<1>4. PinsCountGuards' /\ pinCount' \in [Frames -> Nat]
  BY <1>1, <1>2, <1>3, PinReleased
<1>5. TypeOK'
  BY <1>2, <1>4 DEF SafeInv, TypeOK, clockVars, diskVars, Outcomes
<1>6. GuardKeepsPage'
  BY <1>2 DEF SafeInv, TypeOK, GuardKeepsPage
<1>7. TableNamesFrame' /\ DirtyFrameHasPage'
  BY <1>2 DEF SafeInv, TableNamesFrame, DirtyFrameHasPage
<1>8. FreeFramesUnused' /\ FreeFramesInOrder'
  <2>1. \A g \in Frames : pageId[g] = None => pinCount'[g] = pinCount[g]
    BY <1>2, <1>3 DEF SafeInv, TypeOK
  <2> QED BY <1>2, <2>1, FreeFramesUntouched DEF clockVars
<1>9. FramePageExists' /\ DiskHasAllocated'
  BY <1>2 DEF SafeInv, FramePageExists, DiskHasAllocated, Allocated, diskVars
<1> QED BY <1>4, <1>5, <1>6, <1>7, <1>8, <1>9 DEF SafeInv

\* Writing dirty frames back replaces blocks and adds none.
LEMMA FlushedKeepsBlocks ==
    ASSUME SafeInv, NEW n
    PROVE  /\ Flushed(n) \in [PageId -> Block \cup {None}]
           /\ \A p \in PageId : Flushed(n)[p] # None <=> disk[p] # None
<1>1. SUFFICES ASSUME NEW p \in PageId
               PROVE  /\ Flushed(n)[p] \in Block \cup {None}
                      /\ Flushed(n)[p] # None <=> disk[p] # None
  BY DEF Flushed
<1>2. CASE \E f \in Frames : LastWriter(f, n, p)
  <2>1. PICK f \in Frames : LastWriter(f, n, p) /\ Flushed(n)[p] = data[f]
    BY <1>2 DEF Flushed
  <2>2. pageId[f] = p
    BY <2>1 DEF LastWriter
  <2> QED BY <2>1, <2>2, NoneIsNoPage
          DEF SafeInv, TypeOK, FramePageExists, DiskHasAllocated
<1>3. CASE ~ \E f \in Frames : LastWriter(f, n, p)
  BY <1>3 DEF Flushed, SafeInv, TypeOK
<1> QED BY <1>2, <1>3

LEMMA FlushSafe ==
    ASSUME SafeInv, NEW n, disk' = Flushed(n), result' \in Outcomes,
           UNCHANGED <<frameVars, clockVars, pageTable, numPages, guard>>
    PROVE  SafeInv'
<1> USE DEF frameVars, clockVars
<1>1. TypeOK'
  BY FlushedKeepsBlocks DEF SafeInv, TypeOK
<1>2. PinsCountGuards' /\ GuardKeepsPage' /\ TableNamesFrame' /\ DirtyFrameHasPage'
  BY DEF SafeInv, PinsCountGuards, GuardsOn, GuardKeepsPage, TableNamesFrame,
         DirtyFrameHasPage
<1>3. FreeFramesUnused' /\ FreeFramesInOrder' /\ FramePageExists'
  BY DEF SafeInv, FreeFramesUnused, FreeFramesInOrder, FramePageExists, Allocated
<1>4. DiskHasAllocated'
  BY FlushedKeepsBlocks DEF SafeInv, DiskHasAllocated, Allocated
<1> QED BY <1>1, <1>2, <1>3, <1>4 DEF SafeInv

-----------------------------------------------------------------------------
(* The invariant holds at the start and after every call. *)

LEMMA InitSafe == Init => SafeInv
<1> SUFFICES ASSUME Init PROVE SafeInv
  OBVIOUS
<1> USE DEF Init
<1>1. \A p \in PageId : p.page_num \in PageNums /\ p.file_id \in Files
  BY DEF PageId
<1>2. /\ 0 \in PageNums
      /\ create_blank_page(0, "Catalog") \in Block
  BY MaxPagesAssumption, BodiesAssumption DEF create_blank_page, Block, PageNums, PageKind
<1>3. freeFrames \in Seq(Frames) /\ Len(freeFrames) = NumFrames
  <2>1. NumFrames \in Nat /\ \A i \in 1 .. NumFrames : i - 1 \in Frames
    BY NumFramesAssumption DEF Frames
  <2> QED BY <2>1
<1>4. TypeOK
  BY <1>1, <1>2, <1>3, NumFramesAssumption, MaxPagesAssumption
     DEF TypeOK, Frames, Outcomes
<1>5. PinsCountGuards
  <2>1. \A f \in Frames : GuardsOn(f) = {}
    BY DEF GuardsOn
  <2> QED BY <2>1, FS_EmptySet DEF PinsCountGuards
<1>6. GuardKeepsPage /\ TableNamesFrame /\ DirtyFrameHasPage /\ FramePageExists
  BY DEF GuardKeepsPage, TableNamesFrame, DirtyFrameHasPage, FramePageExists
<1>7. FreeFramesUnused /\ FreeFramesInOrder
  BY <1>3, NumFramesAssumption DEF FreeFramesUnused, FreeFramesInOrder, Frames
<1>8. DiskHasAllocated
  BY <1>1, <1>2, NoneIsNoBlock DEF DiskHasAllocated, Allocated, PageNums
<1> QED BY <1>4, <1>5, <1>6, <1>7, <1>8 DEF SafeInv

LEMMA NextSafe == SafeInv /\ [Next]_vars => SafeInv'
<1> SUFFICES ASSUME SafeInv, [Next]_vars PROVE SafeInv'
  OBVIOUS
<1>1. ASSUME NEW h \in Holders, NEW p \in PageId, GetPageHit(h, p) PROVE SafeInv'
  BY <1>1, GetPageHitSafe
<1>2. ASSUME NEW h \in Holders, NEW p \in PageId, GetPageLoad(h, p) PROVE SafeInv'
  BY <1>2, GetPageLoadSafe
<1>3. ASSUME NEW h \in Holders, NEW p \in PageId, GetPageReadFails(h, p) PROVE SafeInv'
  BY <1>3, GetPageReadFailsSafe
<1>4. ASSUME NEW h \in Holders, NEW p \in PageId, GetPageEvictFails(h, p) PROVE SafeInv'
  <2>1. PICK f \in Frames : SelectVictim(f) /\ pageTable' = Unmapped(f)
    BY <1>4 DEF GetPageEvictFails
  <2>2. /\ clockFlag' = SweptFlags /\ result' = "Io" /\ numPages' = numPages /\ disk' = disk
        /\ UNCHANGED <<pageId, pinCount, dirty, data, guard>>
    BY <1>4 DEF GetPageEvictFails, diskVars
  <2>3. /\ numPages' \in [Files -> 1 .. MaxPages]
        /\ \A file \in Files : numPages[file] <= numPages'[file]
        /\ disk' \in [PageId -> Block \cup {None}]
    BY <2>2 DEF SafeInv, TypeOK
  <2>4. DiskHasAllocated' /\ result' \in Outcomes
    BY <2>2 DEF SafeInv, DiskHasAllocated, Allocated, Outcomes
  <2> QED BY <2>1, <2>2, <2>3, <2>4, FailedEvictionSafe
<1>5. ASSUME NEW h \in Holders, NEW p \in PageId, GetPageRefused(h, p) PROVE SafeInv'
  BY <1>5, RefusedSafe DEF GetPageRefused, Outcomes
<1>6. ASSUME NEW h \in Holders, NEW file \in Files, NEW kind \in PageKind,
             CreatePage(h, file, kind)
      PROVE  SafeInv'
  BY <1>6, CreatePageSafe
<1>7. ASSUME NEW h \in Holders, NEW file \in Files,
             CreatePageAppendFails(h, file) \/ CreatePageEvictFails(h, file)
      PROVE  SafeInv'
  BY <1>7, CreatePageFailsSafe
<1>8. ASSUME NEW h \in Holders, CreatePageRefused(h) PROVE SafeInv'
  BY <1>8, RefusedSafe DEF CreatePageRefused, Outcomes
<1>9. ASSUME NEW h \in Holders, NEW kind \in PageKind, NEW body \in Bodies,
             Write(h, kind, body)
      PROVE  SafeInv'
  BY <1>9, WriteSafe
<1>10. ASSUME NEW h \in Holders, DropGuard(h) PROVE SafeInv'
  BY <1>10, DropGuardSafe
<1>11. ASSUME FlushAll \/ FlushAllFails PROVE SafeInv'
  BY <1>11, FlushSafe DEF FlushAll, FlushAllFails, Outcomes
<1>12. CASE UNCHANGED vars
  <2> USE <1>12 DEF vars, frameVars, clockVars, diskVars
  <2>1. TypeOK'
    BY DEF SafeInv, TypeOK
  <2>2. PinsCountGuards' /\ GuardKeepsPage' /\ TableNamesFrame' /\ DirtyFrameHasPage'
    BY DEF SafeInv, PinsCountGuards, GuardsOn, GuardKeepsPage, TableNamesFrame,
           DirtyFrameHasPage
  <2>3. FreeFramesUnused' /\ FreeFramesInOrder' /\ FramePageExists' /\ DiskHasAllocated'
    BY DEF SafeInv, FreeFramesUnused, FreeFramesInOrder, FramePageExists, DiskHasAllocated,
           Allocated
  <2> QED BY <2>1, <2>2, <2>3 DEF SafeInv
<1> QED BY <1>1, <1>2, <1>3, <1>4, <1>5, <1>6, <1>7, <1>8, <1>9, <1>10, <1>11, <1>12
        DEF Next, GetPage

\* The invariant holds in every state the pool can reach, with or without
\* disk failures.
THEOREM PoolIsSafe == Spec => []SafeInv
BY InitSafe, NextSafe, PTL DEF Spec

\* Every variable of the pool stays in its type (TypeOK).
THEOREM PoolIsWellTyped == Spec => []TypeOK
<1>1. SafeInv => TypeOK
  BY DEF SafeInv
<1> QED BY <1>1, PoolIsSafe, PTL

\* No path through get_page, create_page or a dropped guard leaks or loses a
\* pin: the pin count of a frame is the number of its guards.
THEOREM PinsAreBalanced == Spec => []PinsCountGuards
<1>1. SafeInv => PinsCountGuards
  BY DEF SafeInv
<1> QED BY <1>1, PoolIsSafe, PTL

\* A guard keeps the page it was given out for, however often the disk fails
\* and whatever the clock evicts in the meantime.
THEOREM GuardsKeepTheirPage == Spec => []GuardKeepsPage
<1>1. SafeInv => GuardKeepsPage
  BY DEF SafeInv
<1> QED BY <1>1, PoolIsSafe, PTL

\* flush_all never unwraps the page of a frame that has none.
THEOREM FlushNeverPanics == Spec => []DirtyFrameHasPage
<1>1. SafeInv => DirtyFrameHasPage
  BY DEF SafeInv
<1> QED BY <1>1, PoolIsSafe, PTL

-----------------------------------------------------------------------------
(* A disk that does not fail: no page has two copies, and the pool         *)
(* implements PageStore.                                                   *)

CoherentInv == SafeInv /\ FrameIsMapped /\ CleanFrameIsOnDisk

\* Two frames with the same page are one frame.
LEMMA OneFramePerPage ==
    ASSUME CoherentInv, NEW f \in Frames, NEW g \in Frames,
           pageId[f] = pageId[g], pageId[f] # None
    PROVE  f = g
BY DEF CoherentInv, FrameIsMapped

\* Evicting f changes neither the table nor the disk for the page of another
\* frame.
LEMMA EvictionSparesOthers ==
    ASSUME CoherentInv, NEW f \in Frames, NEW g \in Frames \ {f}, pageId[g] # None,
           NEW blocks \in [PageId -> Block \cup {None}]
    PROVE  /\ pageId[g] \in PageId
           /\ pageId[g] # pageId[f]
           /\ Unmapped(f)[pageId[g]] = g
           /\ WriteBack(blocks, f)[pageId[g]] = blocks[pageId[g]]
<1>1. pageId[g] \in PageId /\ pageId[g] # pageId[f] /\ pageTable[pageId[g]] = g
  BY OneFramePerPage DEF CoherentInv, FrameIsMapped, SafeInv, TypeOK
<1>2. pageTable \in [PageId -> Frames \cup {None}] /\ pageId[f] \in PageId \cup {None}
  BY DEF CoherentInv, SafeInv, TypeOK
<1> QED BY <1>1, <1>2 DEF Unmapped, WriteBack

LEMMA LoadCoherent ==
    ASSUME CoherentInv, NEW h \in Holders, NEW p \in PageId, GetPageLoad(h, p)
    PROVE  FrameIsMapped' /\ CleanFrameIsOnDisk'
<1>1. PICK f \in Frames :
          /\ disk'      = WriteBack(disk, f)
          /\ pageTable' = [Unmapped(f) EXCEPT ![p] = f]
          /\ pageId'    = [pageId EXCEPT ![f] = p]
          /\ dirty'     = [dirty EXCEPT ![f] = FALSE]
          /\ data'      = [data EXCEPT ![f] = WriteBack(disk, f)[p]]
  BY DEF GetPageLoad
<1>2. /\ pageTable[p] = None
      /\ pageId \in [Frames -> PageId \cup {None}]
      /\ data \in [Frames -> Block \cup {None}]
      /\ dirty \in [Frames -> BOOLEAN]
      /\ disk \in [PageId -> Block \cup {None}]
      /\ Unmapped(f) \in [PageId -> Frames \cup {None}]
  BY UnmappedForgetsFrame DEF GetPageLoad, CoherentInv, SafeInv, TypeOK
<1>3. SUFFICES ASSUME NEW g \in Frames, pageId'[g] # None
               PROVE  /\ pageTable'[pageId'[g]] = g
                      /\ ~ dirty'[g] => data'[g] = disk'[pageId'[g]]
  BY DEF FrameIsMapped, CleanFrameIsOnDisk
<1>4. CASE g = f
  BY <1>1, <1>2, <1>4
<1>5. CASE g # f
  <2>1. /\ pageId'[g] = pageId[g] /\ pageId[g] # None
        /\ dirty'[g] = dirty[g] /\ data'[g] = data[g]
    BY <1>1, <1>2, <1>3, <1>5
  <2>2. /\ pageId[g] \in PageId
        /\ Unmapped(f)[pageId[g]] = g
        /\ disk'[pageId[g]] = disk[pageId[g]]
    BY <1>1, <1>2, <1>5, <2>1, EvictionSparesOthers
  <2>3. pageId[g] # p
    BY <1>2, <2>1, NoneIsNoFrame DEF CoherentInv, FrameIsMapped
  <2>4. pageTable'[pageId[g]] = g
    BY <1>1, <1>2, <2>2, <2>3
  <2> QED BY <2>1, <2>2, <2>4 DEF CoherentInv, CleanFrameIsOnDisk
<1> QED BY <1>4, <1>5

LEMMA ReadFailsCoherent ==
    ASSUME CoherentInv, NEW h \in Holders, NEW p \in PageId, GetPageReadFails(h, p)
    PROVE  FrameIsMapped' /\ CleanFrameIsOnDisk'
<1>1. PICK f \in Frames :
          /\ disk'      = WriteBack(disk, f)
          /\ pageTable' = [Unmapped(f) EXCEPT ![p] = None]
          /\ pageId'    = [pageId EXCEPT ![f] = None]
          /\ dirty'     = [dirty EXCEPT ![f] = FALSE]
  BY DEF GetPageReadFails, GiveUp
<1>2. /\ pageTable[p] = None /\ UNCHANGED data
      /\ pageId \in [Frames -> PageId \cup {None}]
      /\ dirty \in [Frames -> BOOLEAN]
      /\ disk \in [PageId -> Block \cup {None}]
      /\ Unmapped(f) \in [PageId -> Frames \cup {None}]
  BY UnmappedForgetsFrame DEF GetPageReadFails, CoherentInv, SafeInv, TypeOK
<1>3. SUFFICES ASSUME NEW g \in Frames, pageId'[g] # None
               PROVE  /\ pageTable'[pageId'[g]] = g
                      /\ ~ dirty'[g] => data'[g] = disk'[pageId'[g]]
  BY DEF FrameIsMapped, CleanFrameIsOnDisk
<1>4. g # f /\ pageId'[g] = pageId[g] /\ pageId[g] # None /\ dirty'[g] = dirty[g]
  BY <1>1, <1>2, <1>3
<1>5. /\ pageId[g] \in PageId
      /\ Unmapped(f)[pageId[g]] = g
      /\ disk'[pageId[g]] = disk[pageId[g]]
  BY <1>1, <1>2, <1>4, EvictionSparesOthers
<1>6. pageId[g] # p
  BY <1>2, <1>4, NoneIsNoFrame DEF CoherentInv, FrameIsMapped
<1>7. pageTable'[pageId[g]] = g
  BY <1>1, <1>2, <1>5, <1>6
<1> QED BY <1>2, <1>4, <1>5, <1>7 DEF CoherentInv, CleanFrameIsOnDisk

LEMMA CreateCoherent ==
    ASSUME CoherentInv, NEW h \in Holders, NEW file \in Files, NEW kind \in PageKind,
           CreatePage(h, file, kind)
    PROVE  FrameIsMapped' /\ CleanFrameIsOnDisk'
<1>0. PICK p : p = NextPage(file)
  OBVIOUS
<1>1. PICK f \in Frames :
          /\ disk'      = WriteBack(Appended(file), f)
          /\ pageTable' = [Unmapped(f) EXCEPT ![p] = f]
          /\ pageId'    = [pageId EXCEPT ![f] = p]
          /\ dirty'     = [dirty EXCEPT ![f] = TRUE]
          /\ data'      = [data EXCEPT ![f] = create_blank_page(numPages[file], kind)]
  BY <1>0 DEF CreatePage
<1>2. /\ pageTable[p] = None /\ p \in PageId /\ ~ Allocated(p)
      /\ Appended(file) \in [PageId -> Block \cup {None}]
      /\ \A q \in PageId : q # p => Appended(file)[q] = disk[q]
  BY <1>0, NextPageIsNew DEF CreatePage, CoherentInv, Appended, SafeInv, TypeOK
<1>3. /\ pageId \in [Frames -> PageId \cup {None}]
      /\ data \in [Frames -> Block \cup {None}]
      /\ dirty \in [Frames -> BOOLEAN]
      /\ Unmapped(f) \in [PageId -> Frames \cup {None}]
  BY UnmappedForgetsFrame DEF CoherentInv, SafeInv, TypeOK
<1>4. SUFFICES ASSUME NEW g \in Frames, pageId'[g] # None
               PROVE  /\ pageTable'[pageId'[g]] = g
                      /\ ~ dirty'[g] => data'[g] = disk'[pageId'[g]]
  BY DEF FrameIsMapped, CleanFrameIsOnDisk
<1>5. CASE g = f
  BY <1>1, <1>2, <1>3, <1>5
<1>6. CASE g # f
  <2>1. /\ pageId'[g] = pageId[g] /\ pageId[g] # None
        /\ dirty'[g] = dirty[g] /\ data'[g] = data[g]
    BY <1>1, <1>3, <1>4, <1>6
  <2>2. pageId[g] # p
    BY <1>2, <2>1, NoneIsNoFrame DEF CoherentInv, FrameIsMapped
  <2>3. /\ pageId[g] \in PageId
        /\ Unmapped(f)[pageId[g]] = g
        /\ disk'[pageId[g]] = Appended(file)[pageId[g]]
    BY <1>1, <1>2, <1>6, <2>1, EvictionSparesOthers
  <2>4. disk'[pageId[g]] = disk[pageId[g]]
    BY <1>2, <2>2, <2>3
  <2>5. pageTable'[pageId[g]] = g
    BY <1>1, <1>3, <2>2, <2>3
  <2> QED BY <2>1, <2>4, <2>5 DEF CoherentInv, CleanFrameIsOnDisk
<1> QED BY <1>5, <1>6

LEMMA WriteCoherent ==
    ASSUME CoherentInv, NEW h \in Holders, NEW kind \in PageKind, NEW body \in Bodies,
           Write(h, kind, body)
    PROVE  FrameIsMapped' /\ CleanFrameIsOnDisk'
<1>1. PICK f : f = guard[h].frame
  OBVIOUS
<1>2. /\ dirty' = [dirty EXCEPT ![f] = TRUE]
      /\ data' = [data EXCEPT ![f].body = body] \/ UNCHANGED data
      /\ UNCHANGED <<pageId, pageTable, disk>>
  BY <1>1 DEF Write, diskVars
<1>3. \A g \in Frames : ~ dirty'[g] => ~ dirty[g] /\ data'[g] = data[g]
  BY <1>2 DEF CoherentInv, SafeInv, TypeOK
<1> QED BY <1>2, <1>3 DEF CoherentInv, FrameIsMapped, CleanFrameIsOnDisk

\* While no page has two copies, flush_all writes of each page the data of
\* the frame the table names.
LEMMA FlushedPage ==
    ASSUME CoherentInv, NEW n, NEW p \in PageId
    PROVE  /\ pageTable[p] = None => Flushed(n)[p] = disk[p]
           /\ pageTable[p] # None =>
                 LET f == pageTable[p] IN
                 /\ ~ dirty[f] => Flushed(n)[p] = disk[p]
                 /\ dirty[f] /\ f < n => Flushed(n)[p] = data[f]
<1>1. ASSUME NEW f \in Frames, pageId[f] = p
      PROVE  pageTable[p] = f
  BY <1>1, NoneIsNoPage DEF CoherentInv, FrameIsMapped
<1>2. ASSUME NEW f \in Frames, LastWriter(f, n, p)
      PROVE  pageTable[p] = f /\ dirty[f]
  BY <1>1, <1>2 DEF LastWriter
<1>3. ASSUME ~ \E f \in Frames : LastWriter(f, n, p)
      PROVE  Flushed(n)[p] = disk[p]
  BY <1>3 DEF Flushed
<1>4. CASE pageTable[p] = None
  BY <1>2, <1>3, <1>4, NoneIsNoFrame
<1>5. CASE pageTable[p] # None
  <2>1. PICK f \in Frames : f = pageTable[p] /\ pageId[f] = p
    BY <1>5 DEF CoherentInv, SafeInv, TypeOK, TableNamesFrame
  <2>2. CASE ~ dirty[f]
    BY <1>2, <1>3, <2>1, <2>2
  <2>3. CASE dirty[f] /\ f < n
    <3>1. LastWriter(f, n, p)
      BY <1>1, <2>1, <2>3 DEF LastWriter, Frames
    <3>2. \A g \in Frames : LastWriter(g, n, p) => g = f
      BY <1>2, <2>1
    <3>3. (CHOOSE g \in Frames : LastWriter(g, n, p)) = f
      BY <2>1, <3>1, <3>2
    <3>4. Flushed(n)[p] = data[f]
      BY <2>1, <3>1, <3>3 DEF Flushed
    <3> QED BY <1>5, <2>1, <2>3, <3>4
  <2>4. CASE dirty[f] /\ ~ f < n
    BY <1>5, <2>1, <2>4
  <2> QED BY <1>5, <2>1, <2>2, <2>3, <2>4
<1> QED BY <1>4, <1>5

LEMMA FlushCoherent ==
    ASSUME CoherentInv, FlushAll
    PROVE  FrameIsMapped' /\ CleanFrameIsOnDisk'
<1>1. UNCHANGED <<pageId, dirty, data, pageTable>> /\ disk' = Flushed(NumFrames)
  BY DEF FlushAll, frameVars
<1>2. ASSUME NEW f \in Frames, pageId[f] # None, ~ dirty[f]
      PROVE  disk'[pageId[f]] = disk[pageId[f]]
  <2>1. pageId[f] \in PageId /\ pageTable[pageId[f]] = f
    BY <1>2 DEF CoherentInv, SafeInv, TypeOK, FrameIsMapped
  <2> QED BY <1>1, <1>2, <2>1, FlushedPage, NoneIsNoFrame
<1> QED BY <1>1, <1>2 DEF CoherentInv, FrameIsMapped, CleanFrameIsOnDisk

LEMMA NextCoherent ==
    ASSUME IOFaults = FALSE, CoherentInv, [Next]_vars
    PROVE  CoherentInv'
<1>1. SafeInv'
  BY NextSafe DEF CoherentInv
<1>2. FrameIsMapped' /\ CleanFrameIsOnDisk'
  <2>1. ASSUME UNCHANGED <<pageId, dirty, data, pageTable, disk>>
        PROVE  FrameIsMapped' /\ CleanFrameIsOnDisk'
    BY <2>1 DEF CoherentInv, FrameIsMapped, CleanFrameIsOnDisk
  <2>2. ASSUME NEW h \in Holders, NEW p \in PageId, GetPage(h, p)
        PROVE  FrameIsMapped' /\ CleanFrameIsOnDisk'
    <3>1. CASE GetPageHit(h, p) \/ GetPageRefused(h, p)
      BY <2>1, <3>1 DEF GetPageHit, GetPageRefused, diskVars
    <3>2. CASE GetPageEvictFails(h, p)
      BY <3>2 DEF GetPageEvictFails, WriteBackFails
    <3>3. CASE GetPageLoad(h, p)
      BY <3>3, LoadCoherent
    <3>4. CASE GetPageReadFails(h, p)
      BY <3>4, ReadFailsCoherent
    <3> QED BY <2>2, <3>1, <3>2, <3>3, <3>4 DEF GetPage
  <2>3. ASSUME NEW h \in Holders, NEW file \in Files,
               CreatePageAppendFails(h, file) \/ CreatePageEvictFails(h, file)
        PROVE  FrameIsMapped' /\ CleanFrameIsOnDisk'
    BY <2>3 DEF CreatePageAppendFails, CreatePageEvictFails, WriteBackFails
  <2>4. ASSUME NEW h \in Holders, CreatePageRefused(h) \/ DropGuard(h)
        PROVE  FrameIsMapped' /\ CleanFrameIsOnDisk'
    BY <2>1, <2>4 DEF CreatePageRefused, DropGuard, diskVars
  <2>5. CASE FlushAllFails
    BY <2>5 DEF FlushAllFails
  <2>6. CASE UNCHANGED vars
    BY <2>1, <2>6 DEF vars, frameVars, diskVars
  <2> QED BY <2>2, <2>3, <2>4, <2>5, <2>6, CreateCoherent, WriteCoherent, FlushCoherent
          DEF Next
<1> QED BY <1>1, <1>2 DEF CoherentInv

LEMMA InitCoherent == Init => CoherentInv
<1>1. Init => FrameIsMapped /\ CleanFrameIsOnDisk
  BY DEF Init, FrameIsMapped, CleanFrameIsOnDisk
<1> QED BY <1>1, InitSafe DEF CoherentInv

\* While the disk does not fail, a page somebody holds is found in the table,
\* in the very frame that is held: no caller looks at a second copy.
THEOREM HeldPagesAreMapped ==
    ASSUME IOFaults = FALSE PROVE Spec => []GuardedPageIsMapped
<1>1. CoherentInv => GuardedPageIsMapped
  BY NoneIsNoPage
     DEF CoherentInv, SafeInv, TypeOK, Guard, GuardKeepsPage, FrameIsMapped,
         GuardedPageIsMapped
<1>2. CoherentInv /\ [Next]_vars => CoherentInv'
  BY NextCoherent
<1> QED BY <1>1, <1>2, InitCoherent, PTL DEF Spec

-----------------------------------------------------------------------------
(* The refinement.  A call changes the view of no page, or of one page the *)
(* way PageStore says.                                                     *)

\* A page has a view exactly when its file has it.
LEMMA ViewOfAllocated ==
    ASSUME SafeInv, NEW p \in PageId
    PROVE  View(p) # None <=> Allocated(p)
<1>1. CASE pageTable[p] = None
  BY <1>1 DEF View, SafeInv, DiskHasAllocated
<1>2. CASE pageTable[p] # None
  <2>1. PICK f \in Frames : f = pageTable[p] /\ pageId[f] = p
    BY <1>2 DEF SafeInv, TypeOK, TableNamesFrame
  <2>2. pageId[f] # None
    BY <2>1, NoneIsNoPage
  <2>3. data[f] # None /\ Allocated(p)
    BY <2>1, <2>2 DEF SafeInv, FramePageExists
  <2> QED BY <1>2, <2>1, <2>3 DEF View
<1> QED BY <1>1, <1>2

\* Evicting a page, with its write-back, leaves what callers see unchanged.
LEMMA EvictionKeepsView ==
    ASSUME CoherentInv, NEW f \in Frames, NEW p \in PageId,
           NEW blocks \in [PageId -> Block \cup {None}],
           blocks[p] = disk[p]
    PROVE  /\ Unmapped(f)[p] = None => WriteBack(blocks, f)[p] = View(p)
           /\ Unmapped(f)[p] # None => data[Unmapped(f)[p]] = View(p)
<1>1. /\ pageTable \in [PageId -> Frames \cup {None}]
      /\ pageId \in [Frames -> PageId \cup {None}]
  BY DEF CoherentInv, SafeInv, TypeOK
<1>2. CASE pageId[f] = p
  <2>1. pageTable[p] = f /\ Unmapped(f)[p] = None
    BY <1>1, <1>2, NoneIsNoPage DEF CoherentInv, FrameIsMapped, Unmapped
  <2>2. View(p) = data[f]
    BY <2>1, NoneIsNoFrame DEF View
  <2>3. CASE dirty[f]
    BY <1>2, <2>1, <2>2, <2>3, NoneIsNoPage DEF WriteBack
  <2>4. CASE ~ dirty[f]
    <3>1. WriteBack(blocks, f)[p] = disk[p]
      BY <2>4 DEF WriteBack
    <3> QED BY <1>2, <2>1, <2>2, <2>4, <3>1, NoneIsNoPage
            DEF CoherentInv, CleanFrameIsOnDisk
  <2> QED BY <2>3, <2>4
<1>3. CASE pageId[f] # p
  <2>1. Unmapped(f)[p] = pageTable[p] /\ WriteBack(blocks, f)[p] = blocks[p]
    BY <1>1, <1>3 DEF Unmapped, WriteBack
  <2> QED BY <2>1 DEF View
<1> QED BY <1>2, <1>3

LEMMA LoadKeepsView ==
    ASSUME CoherentInv, NEW h \in Holders, NEW p \in PageId, GetPageLoad(h, p),
           NEW q \in PageId
    PROVE  View(q)' = View(q)
<1>1. PICK f \in Frames :
          /\ disk'      = WriteBack(disk, f)
          /\ pageTable' = [Unmapped(f) EXCEPT ![p] = f]
          /\ data'      = [data EXCEPT ![f] = WriteBack(disk, f)[p]]
  BY DEF GetPageLoad
<1>2. /\ pageTable[p] = None
      /\ data \in [Frames -> Block \cup {None}]
      /\ disk \in [PageId -> Block \cup {None}]
      /\ Unmapped(f) \in [PageId -> Frames \cup {None}]
      /\ Unmapped(f)[q] # f /\ Unmapped(f)[p] = None
  BY UnmappedForgetsFrame, NoneIsNoFrame DEF GetPageLoad, CoherentInv, SafeInv, TypeOK
<1>3. CASE q = p
  <2>1. View(p)' = WriteBack(disk, f)[p]
    BY <1>1, <1>2, NoneIsNoFrame DEF View
  <2> QED BY <1>2, <1>3, <2>1, EvictionKeepsView
<1>4. CASE q # p
  <2>1. pageTable'[q] = Unmapped(f)[q]
    BY <1>1, <1>2, <1>4
  <2>2. Unmapped(f)[q] # None => data'[Unmapped(f)[q]] = data[Unmapped(f)[q]]
    BY <1>1, <1>2
  <2> QED BY <1>1, <1>2, <2>1, <2>2, EvictionKeepsView DEF View
<1> QED BY <1>3, <1>4

LEMMA ReadFailsKeepsView ==
    ASSUME CoherentInv, NEW h \in Holders, NEW p \in PageId, GetPageReadFails(h, p),
           NEW q \in PageId
    PROVE  View(q)' = View(q)
<1>1. PICK f \in Frames :
          /\ disk'      = WriteBack(disk, f)
          /\ pageTable' = [Unmapped(f) EXCEPT ![p] = None]
  BY DEF GetPageReadFails, GiveUp
<1>2. /\ pageTable[p] = None /\ UNCHANGED data
      /\ disk \in [PageId -> Block \cup {None}]
      /\ Unmapped(f) \in [PageId -> Frames \cup {None}]
      /\ Unmapped(f)[p] = None
  BY UnmappedForgetsFrame DEF GetPageReadFails, CoherentInv, SafeInv, TypeOK
<1>3. pageTable' = Unmapped(f)
  BY <1>1, <1>2
<1> QED BY <1>1, <1>2, <1>3, EvictionKeepsView DEF View

LEMMA CreateExtendsView ==
    ASSUME CoherentInv, NEW h \in Holders, NEW file \in Files, NEW kind \in PageKind,
           CreatePage(h, file, kind), NEW q \in PageId
    PROVE  View(q)' = IF q = NextPage(file) THEN create_blank_page(numPages[file], kind)
                      ELSE View(q)
<1>0. PICK p : p = NextPage(file)
  OBVIOUS
<1>1. PICK f \in Frames :
          /\ disk'      = WriteBack(Appended(file), f)
          /\ pageTable' = [Unmapped(f) EXCEPT ![p] = f]
          /\ data'      = [data EXCEPT ![f] = create_blank_page(numPages[file], kind)]
  BY <1>0 DEF CreatePage
<1>2. /\ p \in PageId
      /\ Appended(file) \in [PageId -> Block \cup {None}]
      /\ q # p => Appended(file)[q] = disk[q]
  BY <1>0, NextPageIsNew DEF CreatePage, CoherentInv, Appended, SafeInv, TypeOK
<1>3. /\ data \in [Frames -> Block \cup {None}]
      /\ Unmapped(f) \in [PageId -> Frames \cup {None}]
      /\ Unmapped(f)[q] # f
  BY UnmappedForgetsFrame, NoneIsNoFrame DEF CoherentInv, SafeInv, TypeOK
<1>4. CASE q = p
  BY <1>0, <1>1, <1>2, <1>3, <1>4, NoneIsNoFrame DEF View
<1>5. CASE q # p
  <2>1. pageTable'[q] = Unmapped(f)[q]
    BY <1>1, <1>3, <1>5
  <2>2. Unmapped(f)[q] # None => data'[Unmapped(f)[q]] = data[Unmapped(f)[q]]
    BY <1>1, <1>3
  <2>3. View(q)' = View(q)
    BY <1>1, <1>2, <1>5, <2>1, <2>2, EvictionKeepsView DEF View
  <2> QED BY <1>0, <1>5, <2>3
<1> QED BY <1>4, <1>5

LEMMA WriteUpdatesView ==
    ASSUME CoherentInv, NEW h \in Holders, NEW kind \in PageKind, NEW body \in Bodies,
           Write(h, kind, body)
    PROVE  \/ \A q \in PageId : View(q)' = View(q)
           \/ \E p \in PageId :
                 /\ View(p) # None
                 /\ \A q \in PageId :
                       View(q)' = IF q = p THEN [View(p) EXCEPT !.body = body] ELSE View(q)
<1>1. PICK f : f = guard[h].frame
  OBVIOUS
<1>2. /\ guard[h] # None
      /\ data' = [data EXCEPT ![f].body = body] \/ UNCHANGED data
      /\ UNCHANGED <<pageTable, disk>>
  BY <1>1 DEF Write, diskVars
<1>3. CASE UNCHANGED data
  BY <1>2, <1>3 DEF View
<1>4. CASE data' = [data EXCEPT ![f].body = body]
  <2>1. PICK p \in PageId : f \in Frames /\ pageId[f] = p
    BY <1>1, <1>2 DEF CoherentInv, SafeInv, TypeOK, GuardKeepsPage, Guard
  <2>2. pageTable[p] = f /\ data[f] # None
    BY <2>1, NoneIsNoPage DEF CoherentInv, FrameIsMapped, SafeInv, FramePageExists
  <2>3. View(p) = data[f] /\ View(p)' = [data[f] EXCEPT !.body = body]
    BY <1>2, <1>4, <2>1, <2>2, NoneIsNoFrame DEF View, CoherentInv, SafeInv, TypeOK
  <2>4. ASSUME NEW q \in PageId, q # p
        PROVE  View(q)' = View(q)
    <3>1. pageTable[q] # f
      BY <2>1, <2>4, NoneIsNoFrame DEF CoherentInv, SafeInv, TableNamesFrame
    <3>2. pageTable[q] # None => data'[pageTable[q]] = data[pageTable[q]]
      BY <1>4, <3>1 DEF CoherentInv, SafeInv, TypeOK
    <3> QED BY <1>2, <3>2 DEF View
  <2> QED BY <2>2, <2>3, <2>4
<1> QED BY <1>2, <1>3, <1>4

LEMMA FlushKeepsView ==
    ASSUME CoherentInv, FlushAll, NEW q \in PageId
    PROVE  View(q)' = View(q) /\ disk'[q] = View(q)
<1>1. UNCHANGED <<data, pageTable>> /\ disk' = Flushed(NumFrames)
  BY DEF FlushAll, frameVars
<1>2. CASE pageTable[q] = None
  BY <1>1, <1>2, FlushedPage DEF View
<1>3. CASE pageTable[q] # None
  <2>1. PICK f \in Frames : f = pageTable[q] /\ pageId[f] = q
    BY <1>3 DEF CoherentInv, SafeInv, TypeOK, TableNamesFrame
  <2>2. View(q) = data[f] /\ View(q)' = View(q)
    BY <1>1, <1>3, <2>1 DEF View
  <2>3. f < NumFrames
    BY NumFramesAssumption DEF Frames
  <2>4. CASE dirty[f]
    BY <1>1, <1>3, <2>1, <2>2, <2>3, <2>4, FlushedPage
  <2>5. CASE ~ dirty[f]
    <3>1. data[f] = disk[q]
      BY <2>1, <2>5, NoneIsNoPage DEF CoherentInv, CleanFrameIsOnDisk
    <3> QED BY <1>1, <1>3, <2>1, <2>2, <2>5, <3>1, FlushedPage
  <2> QED BY <2>4, <2>5
<1> QED BY <1>2, <1>3

\* PageStore speaks of the same pages, kinds and blank pages.
LEMMA SameVocabulary ==
    /\ Store!PageId = PageId
    /\ Store!PageKind = PageKind
    /\ \A n, kind : Store!create_blank_page(n, kind) = create_blank_page(n, kind)
BY DEF Store!PageId, PageId, Store!PageNums, PageNums, Store!PageKind, PageKind,
       Store!create_blank_page, create_blank_page

LEMMA InitRefines == Init => Store!Init
<1> SUFFICES ASSUME Init PROVE Store!Init
  OBVIOUS
<1>1. \A p \in PageId : View(p) = disk[p]
  BY DEF Init, View
<1> QED BY <1>1, SameVocabulary DEF Init, Store!Init

LEMMA NextRefines ==
    ASSUME IOFaults = FALSE, CoherentInv, [Next]_vars
    PROVE  [Store!Next]_([p \in PageId |-> View(p)])
<1> DEFINE Stutter == \A q \in PageId : View(q)' = View(q)
<1>1. ASSUME Stutter
      PROVE  UNCHANGED [p \in PageId |-> View(p)]
  BY <1>1, Zenon
<1> HIDE DEF Stutter
<1>2. ASSUME NEW h \in Holders, NEW p \in PageId, GetPage(h, p) PROVE Stutter
  <2>1. CASE GetPageHit(h, p) \/ GetPageRefused(h, p)
    BY <2>1 DEF GetPageHit, GetPageRefused, diskVars, View, Stutter
  <2>2. CASE GetPageEvictFails(h, p)
    BY <2>2 DEF GetPageEvictFails, WriteBackFails
  <2>3. CASE GetPageLoad(h, p)
    BY <2>3, LoadKeepsView DEF Stutter
  <2>4. CASE GetPageReadFails(h, p)
    BY <2>4, ReadFailsKeepsView DEF Stutter
  <2> QED BY <1>2, <2>1, <2>2, <2>3, <2>4 DEF GetPage
<1>3. ASSUME NEW h \in Holders, NEW file \in Files, NEW kind \in PageKind,
             CreatePage(h, file, kind)
      PROVE  Store!Next
  <2>1. PICK p : p = NextPage(file)
    OBVIOUS
  <2>2. p \in PageId /\ ~ Allocated(p) /\ p.file_id = file /\ p.page_num = numPages[file]
    BY <1>3, <2>1, NextPageIsNew DEF CreatePage, CoherentInv, NextPage
  <2>3. View(p) = None
    BY <2>2, ViewOfAllocated DEF CoherentInv
  <2>4. ASSUME NEW q \in PageId, q.file_id = p.file_id, q.page_num < p.page_num
        PROVE  View(q) # None
    BY <2>2, <2>4, ViewOfAllocated DEF CoherentInv, Allocated
  <2>5. \A q \in PageId : View(q)' = IF q = p THEN create_blank_page(p.page_num, kind)
                                     ELSE View(q)
    BY <1>3, <2>1, <2>2, CreateExtendsView
  <2>6. Store!Create(p, kind)
    BY <2>2, <2>3, <2>4, <2>5, SameVocabulary DEF Store!Create
  <2> QED BY <2>2, <2>6, SameVocabulary DEF Store!Next
<1>4. ASSUME NEW h \in Holders, NEW kind \in PageKind, NEW body \in Bodies,
             Write(h, kind, body)
      PROVE  Stutter \/ Store!Next
  <2>1. CASE Stutter
    BY <2>1
  <2>2. CASE ~ Stutter
    <3>1. PICK p \in PageId :
             /\ View(p) # None
             /\ \A q \in PageId :
                   View(q)' = IF q = p THEN [View(p) EXCEPT !.body = body] ELSE View(q)
      BY <1>4, <2>2, WriteUpdatesView DEF Stutter
    <3>2. Store!Update(p, body)
      BY <3>1 DEF Store!Update
    <3> QED BY <3>2, SameVocabulary DEF Store!Next
  <2> QED BY <2>1, <2>2
<1>5. ASSUME NEW h \in Holders, NEW file \in Files,
             CreatePageAppendFails(h, file) \/ CreatePageEvictFails(h, file)
      PROVE  Stutter
  BY <1>5 DEF CreatePageAppendFails, CreatePageEvictFails, WriteBackFails
<1>6. ASSUME NEW h \in Holders, CreatePageRefused(h) \/ DropGuard(h) PROVE Stutter
  BY <1>6 DEF CreatePageRefused, DropGuard, diskVars, View, Stutter
<1>7. ASSUME FlushAll PROVE Stutter
  BY <1>7, FlushKeepsView DEF Stutter
<1>8. ASSUME FlushAllFails PROVE Stutter
  BY <1>8 DEF FlushAllFails
<1>9. ASSUME UNCHANGED vars PROVE Stutter
  BY <1>9 DEF vars, frameVars, diskVars, View, Stutter
<1> QED BY <1>1, <1>2, <1>3, <1>4, <1>5, <1>6, <1>7, <1>8, <1>9 DEF Next

\* While the disk does not fail, the callers of the pool see PageStore: what
\* is cached, evicted or written back cannot be told from outside.
THEOREM PoolImplementsPageStore ==
    ASSUME IOFaults = FALSE PROVE Spec => ImplementsPageStore
<1>1. CoherentInv /\ [Next]_vars => CoherentInv'
  BY NextCoherent
<1>2. CoherentInv /\ [Next]_vars => [Store!Next]_([p \in PageId |-> View(p)])
  BY NextRefines
<1> QED BY <1>1, <1>2, InitCoherent, InitRefines, PTL
        DEF Spec, ImplementsPageStore, Store!Spec

\* While the disk does not fail, the disk alone has the latest content of
\* every page once flush_all has returned Ok.
THEOREM FlushIsDurable ==
    ASSUME IOFaults = FALSE PROVE Spec => []FlushedIsDurable
<1>1. CoherentInv /\ [Next]_vars => CoherentInv'
  BY NextCoherent
<1>2. Init => FlushedIsDurable
  BY DEF Init, FlushedIsDurable
<1>3. ASSUME CoherentInv, FlushedIsDurable, [Next]_vars
      PROVE  FlushedIsDurable'
  <2>1. ASSUME result' # "Flushed" PROVE FlushedIsDurable'
    BY <2>1 DEF FlushedIsDurable
  <2>2. CASE FlushAll
    BY <1>3, <2>2, FlushKeepsView DEF FlushedIsDurable
  <2>3. CASE UNCHANGED vars
    BY <1>3, <2>3 DEF vars, frameVars, diskVars, View, FlushedIsDurable
  <2>4. ASSUME Next, ~ FlushAll PROVE result' # "Flushed"
    BY <2>4 DEF Next, GetPage, GetPageHit, GetPageLoad, GetPageReadFails,
        GetPageEvictFails, GetPageRefused, CreatePage, CreatePageAppendFails,
        CreatePageEvictFails, CreatePageRefused, Write, DropGuard, FlushAllFails
  <2> QED BY <1>3, <2>1, <2>2, <2>3, <2>4
<1>4. CoherentInv /\ FlushedIsDurable /\ [Next]_vars => FlushedIsDurable'
  BY <1>3
<1> QED BY <1>1, <1>2, <1>4, InitCoherent, PTL DEF Spec

-----------------------------------------------------------------------------
(* The clock.  In its second lap the hand finds any frame that is not      *)
(* pinned, so a caller turned away has met pinned frames only.             *)

\* Some k of the first lap brings the hand to frame f.
LEMMA HandReachesFrame ==
    ASSUME NEW hand \in Frames, NEW f \in Frames
    PROVE  \E k \in Frames : (hand + NumFrames + k) % NumFrames = f
<1> DEFINE k == IF f >= hand THEN f - hand ELSE f - hand + NumFrames
<1>1. k \in Frames
  BY NumFramesAssumption DEF Frames
<1>2. hand + NumFrames + k = f + NumFrames \/ hand + NumFrames + k = f + 2 * NumFrames
  BY NumFramesAssumption DEF Frames
<1>3. (f + NumFrames) % NumFrames = f /\ (f + 2 * NumFrames) % NumFrames = f
  BY NumFramesAssumption DEF Frames
<1> QED BY <1>1, <1>2, <1>3

LEMMA NoVictimAllPinned ==
    ASSUME SafeInv, NoVictim PROVE \A f \in Frames : pinCount[f] > 0
<1>1. clockHand \in Frames /\ pinCount \in [Frames -> Nat]
  BY DEF SafeInv, TypeOK
<1>2. SUFFICES ASSUME NEW f \in Frames, pinCount[f] = 0 PROVE FALSE
  BY <1>1
<1>3. PICK k \in Frames : (clockHand + NumFrames + k) % NumFrames = f
  BY <1>1, HandReachesFrame
<1> DEFINE late == NumFrames + k
<1>4. late \in Sweep /\ late >= NumFrames
  BY NumFramesAssumption DEF Sweep, Frames
<1>5. Visited(late) = f
  <2>1. clockHand + late = clockHand + NumFrames + k
    BY <1>1, NumFramesAssumption DEF Frames
  <2> QED BY <1>3, <2>1 DEF Visited
<1>6. Selects(late)
  BY <1>2, <1>4, <1>5 DEF Selects
<1> QED BY <1>4, <1>6 DEF NoVictim

\* Four laps of the clock are enough, whether the disk fails or not: Err is
\* returned for want of a frame only when every frame is pinned.
THEOREM RefusalsAreJustified == Spec => []RefusedOnlyWhenAllPinned
<1>1. Init => RefusedOnlyWhenAllPinned
  BY DEF Init, RefusedOnlyWhenAllPinned
<1>2. ASSUME SafeInv, RefusedOnlyWhenAllPinned, [Next]_vars
      PROVE  RefusedOnlyWhenAllPinned'
  <2>1. ASSUME result' \notin {"NoPagesAvailable", "Unknown"}
        PROVE  RefusedOnlyWhenAllPinned'
    BY <2>1 DEF RefusedOnlyWhenAllPinned
  <2>2. ASSUME NEW h \in Holders, NEW p \in PageId,
               GetPageRefused(h, p) \/ CreatePageRefused(h)
        PROVE  RefusedOnlyWhenAllPinned'
    BY <1>2, <2>2, NoVictimAllPinned
       DEF GetPageRefused, CreatePageRefused, RefusedOnlyWhenAllPinned
  <2>3. ASSUME NEW h \in Holders, CreatePageRefused(h) PROVE RefusedOnlyWhenAllPinned'
    BY <1>2, <2>3, NoVictimAllPinned DEF CreatePageRefused, RefusedOnlyWhenAllPinned
  <2>4. CASE UNCHANGED vars
    BY <1>2, <2>4 DEF vars, frameVars, RefusedOnlyWhenAllPinned
  <2>5. ASSUME Next, \A h \in Holders : ~ CreatePageRefused(h),
               \A h \in Holders, p \in PageId : ~ GetPageRefused(h, p)
        PROVE  result' \notin {"NoPagesAvailable", "Unknown"}
    BY <2>5 DEF Next, GetPage, GetPageHit, GetPageLoad, GetPageReadFails,
        GetPageEvictFails, CreatePage, CreatePageAppendFails, CreatePageEvictFails,
        Write, DropGuard, FlushAll, FlushAllFails
  <2> QED BY <1>2, <2>1, <2>2, <2>3, <2>4, <2>5
<1>3. SafeInv /\ RefusedOnlyWhenAllPinned /\ [Next]_vars => RefusedOnlyWhenAllPinned'
  BY <1>2
<1> QED BY <1>1, <1>3, PoolIsSafe, PTL DEF Spec

-----------------------------------------------------------------------------
(* Blocks.  Bytes move between a frame and the block of the page the frame *)
(* is given to, and between no others.                                     *)

\* A block that is written back goes where it belongs.
LEMMA WriteBackInPlace ==
    ASSUME SafeInv, BlocksKeepTheirPage, NEW f \in Frames, NEW blocks,
           NEW p \in PageId, blocks[p] # None => OfPage(blocks[p], p),
           blocks \in [PageId -> Block \cup {None}]
    PROVE  WriteBack(blocks, f)[p] # None => OfPage(WriteBack(blocks, f)[p], p)
  BY DEF SafeInv, TypeOK, BlocksKeepTheirPage, WriteBack

\* A page that is loaded comes from its own block, unless the read fails and
\* the frame is left without a page.
LEMMA LoadInPlace ==
    ASSUME SafeInv, BlocksKeepTheirPage, NEW h \in Holders, NEW p \in PageId,
           GetPageLoad(h, p) \/ GetPageReadFails(h, p)
    PROVE  BlocksKeepTheirPage'
<1>1. disk \in [PageId -> Block \cup {None}] /\ data \in [Frames -> Block \cup {None}]
      /\ pageId \in [Frames -> PageId \cup {None}]
  BY DEF SafeInv, TypeOK
<1>2. PICK f \in Frames :
        /\ disk' = WriteBack(disk, f)
        /\ \/ /\ pageId' = [pageId EXCEPT ![f] = None]
              /\ data' = data
           \/ /\ pageId' = [pageId EXCEPT ![f] = p]
              /\ data' = [data EXCEPT ![f] = WriteBack(disk, f)[p]]
              /\ disk[p] # None
  BY DEF GetPageLoad, GetPageReadFails, GiveUp, SafeInv, DiskHasAllocated
<1>3. \A q \in PageId : disk'[q] # None => OfPage(disk'[q], q)
  BY <1>1, <1>2, WriteBackInPlace DEF BlocksKeepTheirPage
<1>4. WriteBack(disk, f)[p] # None \/ disk[p] = None
  BY <1>1, <1>2 DEF WriteBack, SafeInv, FramePageExists
<1>5. \A g \in Frames : pageId'[g] # None => OfPage(data'[g], pageId'[g])
  BY <1>1, <1>2, <1>3, <1>4 DEF BlocksKeepTheirPage
<1> QED BY <1>3, <1>5 DEF BlocksKeepTheirPage

\* A new page begins as a block of zeros, and as a blank page in its frame.
LEMMA CreateInPlace ==
    ASSUME SafeInv, BlocksKeepTheirPage, NEW h \in Holders, NEW file \in Files,
           \/ \E kind \in PageKind : CreatePage(h, file, kind)
           \/ CreatePageAppendFails(h, file)
           \/ CreatePageEvictFails(h, file)
    PROVE  BlocksKeepTheirPage'
<1>1. disk \in [PageId -> Block \cup {None}] /\ data \in [Frames -> Block \cup {None}]
      /\ pageId \in [Frames -> PageId \cup {None}]
  BY DEF SafeInv, TypeOK
<1>2. numPages[file] < MaxPages
  BY DEF CreatePage, CreatePageAppendFails, CreatePageEvictFails
<1>3. NextPage(file) \in PageId
  BY <1>2, NextPageIsNew
<1>4. ZeroBlock \in Block /\ ZeroBlock # None
  BY AppendedIsAllocated, NoneIsNoBlock, BodiesAssumption, MaxPagesAssumption
     DEF ZeroBlock, Block, PageNums, PageKind
<1>5. Appended(file) \in [PageId -> Block \cup {None}]
  BY <1>1, <1>4 DEF Appended
<1>6. \A q \in PageId : Appended(file)[q] # None => OfPage(Appended(file)[q], q)
  BY <1>1, <1>3, <1>4 DEF Appended, BlocksKeepTheirPage, OfPage
<1>7. CASE \E kind \in PageKind : CreatePage(h, file, kind)
  <2>1. PICK kind \in PageKind, f \in Frames :
          /\ disk' = WriteBack(Appended(file), f)
          /\ pageId' = [pageId EXCEPT ![f] = NextPage(file)]
          /\ data' = [data EXCEPT ![f] = create_blank_page(numPages[file], kind)]
    BY <1>7 DEF CreatePage
  <2>2. \A q \in PageId : disk'[q] # None => OfPage(disk'[q], q)
    BY <1>5, <1>6, <2>1, WriteBackInPlace
  <2>3. numPages[file] \in PageNums
    BY <1>3 DEF NextPage, PageId
  <2>4. create_blank_page(numPages[file], kind) \in Block
    BY <2>3, BodiesAssumption DEF create_blank_page, Block
  <2>5. OfPage(create_blank_page(numPages[file], kind), NextPage(file))
    BY <2>4, NoneIsNoBlock DEF OfPage, create_blank_page, NextPage
  <2>6. \A g \in Frames : pageId'[g] # None => OfPage(data'[g], pageId'[g])
    BY <1>1, <2>1, <2>5 DEF BlocksKeepTheirPage
  <2> QED BY <2>2, <2>6 DEF BlocksKeepTheirPage
<1>8. CASE CreatePageAppendFails(h, file)
  <2>1. UNCHANGED <<pageId, data>> /\ (disk' = disk \/ disk' = Appended(file))
    BY <1>8 DEF CreatePageAppendFails, diskVars
  <2> QED BY <1>6, <2>1 DEF BlocksKeepTheirPage
<1>9. CASE CreatePageEvictFails(h, file)
  <2>1. UNCHANGED <<pageId, data>> /\ disk' = Appended(file)
    BY <1>9 DEF CreatePageEvictFails
  <2> QED BY <1>6, <2>1 DEF BlocksKeepTheirPage
<1> QED BY <1>7, <1>8, <1>9

\* Writing to a page leaves its header alone.
LEMMA WriteInPlace ==
    ASSUME SafeInv, BlocksKeepTheirPage, NEW h \in Holders, NEW kind \in PageKind,
           NEW body \in Bodies, Write(h, kind, body)
    PROVE  BlocksKeepTheirPage'
<1>1. data \in [Frames -> Block \cup {None}] /\ UNCHANGED <<pageId, disk>>
  BY DEF Write, diskVars, SafeInv, TypeOK
<1>2. CASE UNCHANGED data
  BY <1>1, <1>2 DEF BlocksKeepTheirPage
<1>3. CASE data' = [data EXCEPT ![guard[h].frame].body = body]
  <2>1. guard[h] \in Guard /\ pageId[guard[h].frame] # None
    BY NoneIsNoPage DEF Write, SafeInv, TypeOK, GuardKeepsPage, Guard
  <2>2. guard[h].frame \in Frames /\ data[guard[h].frame] \in Block
    BY <1>1, <2>1 DEF Guard, SafeInv, FramePageExists
  <2>3. /\ data'[guard[h].frame].page_id = data[guard[h].frame].page_id
        /\ data'[guard[h].frame] \in Block
    BY <1>1, <1>3, <2>2 DEF Block
  <2>4. \A g \in Frames \ {guard[h].frame} : data'[g] = data[g]
    BY <1>1, <1>3, <2>2
  <2> QED BY <1>1, <2>2, <2>3, <2>4, NoneIsNoBlock DEF BlocksKeepTheirPage, OfPage
<1> QED BY <1>2, <1>3 DEF Write

\* flush_all, whether it gets to the last frame or not.
LEMMA FlushInPlace ==
    ASSUME SafeInv, BlocksKeepTheirPage, NEW n, disk' = Flushed(n),
           UNCHANGED <<pageId, data>>
    PROVE  BlocksKeepTheirPage'
<1>1. SUFFICES ASSUME NEW p \in PageId, disk'[p] # None PROVE OfPage(disk'[p], p)
  BY DEF BlocksKeepTheirPage
<1>2. CASE \E f \in Frames : LastWriter(f, n, p)
  <2>1. PICK f \in Frames : LastWriter(f, n, p) /\ Flushed(n)[p] = data[f]
    BY <1>2 DEF Flushed
  <2> QED BY <2>1, NoneIsNoPage DEF LastWriter, BlocksKeepTheirPage
<1>3. CASE ~ \E f \in Frames : LastWriter(f, n, p)
  BY <1>1, <1>3 DEF Flushed, BlocksKeepTheirPage
<1> QED BY <1>2, <1>3

\* Whatever the disk does, no page is ever read or written as another.
THEOREM BlocksStayInPlace == Spec => []BlocksKeepTheirPage
<1>1. Init => BlocksKeepTheirPage
  <2> SUFFICES ASSUME Init PROVE BlocksKeepTheirPage
    OBVIOUS
  <2>1. \A f \in Frames : pageId[f] = None
    BY DEF Init
  <2>2. SafeInv
    BY InitSafe
  <2> QED BY <2>1, <2>2, NoneIsNoBlock DEF Init, BlocksKeepTheirPage, OfPage, create_blank_page
<1>2. ASSUME SafeInv, BlocksKeepTheirPage, [Next]_vars PROVE BlocksKeepTheirPage'
  <2>1. ASSUME UNCHANGED <<pageId, data, disk>> PROVE BlocksKeepTheirPage'
    BY <1>2, <2>1 DEF BlocksKeepTheirPage
  <2>2. ASSUME NEW h \in Holders, NEW p \in PageId, GetPage(h, p) PROVE BlocksKeepTheirPage'
    <3>1. CASE GetPageLoad(h, p) \/ GetPageReadFails(h, p)
      BY <1>2, <3>1, LoadInPlace
    <3>2. CASE GetPageHit(h, p) \/ GetPageEvictFails(h, p) \/ GetPageRefused(h, p)
      BY <2>1, <3>2 DEF GetPageHit, GetPageEvictFails, GetPageRefused, diskVars
    <3> QED BY <2>2, <3>1, <3>2 DEF GetPage
  <2>3. ASSUME NEW h \in Holders, NEW file \in Files,
               \/ \E kind \in PageKind : CreatePage(h, file, kind)
               \/ CreatePageAppendFails(h, file)
               \/ CreatePageEvictFails(h, file)
        PROVE  BlocksKeepTheirPage'
    BY <1>2, <2>3, CreateInPlace
  <2>4. ASSUME NEW h \in Holders, NEW kind \in PageKind, NEW body \in Bodies,
               Write(h, kind, body)
        PROVE  BlocksKeepTheirPage'
    BY <1>2, <2>4, WriteInPlace
  <2>5. ASSUME NEW h \in Holders, CreatePageRefused(h) \/ DropGuard(h)
        PROVE  BlocksKeepTheirPage'
    BY <2>1, <2>5 DEF CreatePageRefused, DropGuard, diskVars
  <2>6. CASE FlushAll \/ FlushAllFails
    BY <1>2, <2>6, FlushInPlace DEF FlushAll, FlushAllFails, frameVars
  <2>7. CASE UNCHANGED vars
    BY <2>1, <2>7 DEF vars, frameVars, diskVars
  <2> QED BY <1>2, <2>2, <2>3, <2>4, <2>5, <2>6, <2>7 DEF Next
<1>3. SafeInv /\ BlocksKeepTheirPage /\ [Next]_vars => BlocksKeepTheirPage'
  BY <1>2
<1> QED BY <1>1, <1>3, PoolIsSafe, PTL DEF Spec
=============================================================================
