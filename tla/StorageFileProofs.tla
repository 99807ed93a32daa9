-------------------------- MODULE StorageFileProofs --------------------------
(***************************************************************************)
(* Proofs about StorageFile for files of any length, whichever system      *)
(* calls fail and wherever the process ends.                               *)
(***************************************************************************)
EXTENDS StorageFile, SequenceTheorems, TLAPS

-----------------------------------------------------------------------------
(* Sequences and numbers. *)

\* A sequence that agrees with another one and has one element more is that
\* sequence with the element appended.
LEMMA OneElementMore ==
    ASSUME NEW n \in Nat, NEW s, NEW t, NEW S,
           s \in [1 .. n -> S], t \in [1 .. n + 1 -> S],
           \A i \in 1 .. n : t[i] = s[i]
    PROVE  t = Append(s, t[n + 1])
<1>1. s \in Seq(S) /\ Len(s) = n
  BY SeqDef, LenProperties
<1>2. t[n + 1] \in S
  OBVIOUS
<1>3. t \in Seq(S) /\ Len(t) = n + 1
  <2>1. n + 1 \in Nat
    OBVIOUS
  <2> QED BY <2>1, SeqDef, LenProperties
<1>4. /\ Append(s, t[n + 1]) \in Seq(S)
      /\ Len(Append(s, t[n + 1])) = n + 1
      /\ \A i \in 1 .. n : Append(s, t[n + 1])[i] = s[i]
      /\ Append(s, t[n + 1])[n + 1] = t[n + 1]
  BY <1>1, <1>2, AppendProperties
<1>5. \A i \in 1 .. n + 1 : t[i] = Append(s, t[n + 1])[i]
  <2>1. 1 .. n + 1 = (1 .. n) \cup {n + 1}
    OBVIOUS
  <2> QED BY <1>4, <2>1
<1> QED BY <1>3, <1>4, <1>5, SeqEqual

-----------------------------------------------------------------------------
(* The inductive invariant. *)

\* A footer counts the blocks in front of it.
FootersCount == \A j \in Regions : footer[j] # NoFooter => footer[j] = j

\* What every call in progress has got done, whoever makes it.
CallsCount ==
    /\ Is("Closed") => num_pages = 0
    /\ Is("Create") => num_pages = 0 /\ len = 1
    /\ Is("Idle")   => num_pages <= len
    /\ Is("Append") => num_pages < len
    /\ Is("Extend") => call.page < len
    /\ Is("Write")  => call.page < len /\ num_pages = call.page

\* Under the buffer pool no block is written past the end of the file, so that
\* the count is exact and an append wipes out the footer of the file as it was.
PoolAppends ==
    mode # "AnyPage" =>
        /\ ~ Is("Extend") /\ ~ Is("Write")
        /\ Is("Idle") => num_pages = len
        /\ Is("Append") => num_pages + 1 = len
        /\ \A j \in Regions : footer[j] # NoFooter => j = len

FileInv ==
    /\ TypeOK
    /\ FootersCount
    /\ CallsCount
    /\ PoolAppends

LEMMA InitFile == Init => FileInv
BY MaxPagesAssumption, ModesAssumption, ValuesAssumption, SMT
   DEF Init, FileInv, TypeOK, FootersCount, CallsCount, PoolAppends, Closed, Calls, Is,
       Blocks, Regions, NoFooter

-----------------------------------------------------------------------------
(* The two writes. *)

LEMMA FooterWritten ==
    ASSUME FileInv, NEW n \in Regions, WriteFooter(n)
    PROVE  /\ footer' \in [Regions -> Regions \cup {NoFooter}]
           /\ FootersCount'
           /\ footer'[n] = n
           /\ \A j \in Regions \ {n} : footer'[j] = footer[j]
BY DEF FileInv, TypeOK, FootersCount, WriteFooter

LEMMA BlockWritten ==
    ASSUME FileInv, NEW j \in Blocks, NEW v \in Values, WriteBlock(j, v)
    PROVE  /\ block' \in [Blocks -> Values \cup {Absent}]
           /\ footer' \in [Regions -> Regions \cup {NoFooter}]
           /\ len' \in Regions /\ len' > j /\ len' >= len /\ (j < len => len' = len)
           /\ FootersCount'
           /\ footer'[j] = NoFooter
           /\ \A i \in Regions \ {j} : footer'[i] = footer[i]
<1>1. j \in Regions /\ j + 1 \in Regions /\ j \in Int
  BY MaxPagesAssumption DEF Blocks, Regions
<1>2. footer' \in [Regions -> Regions \cup {NoFooter}] /\ FootersCount'
      /\ footer'[j] = NoFooter /\ \A i \in Regions \ {j} : footer'[i] = footer[i]
  BY <1>1 DEF FileInv, TypeOK, FootersCount, WriteBlock
<1>3. block' \in [Blocks -> Values \cup {Absent}]
  BY DEF FileInv, TypeOK, WriteBlock
<1>4. len' \in Regions /\ len' > j /\ len' >= len /\ (j < len => len' = len)
  BY <1>1, MaxPagesAssumption DEF FileInv, TypeOK, WriteBlock, Regions
<1> QED BY <1>2, <1>3, <1>4

-----------------------------------------------------------------------------
LEMMA OpenKeepsInv ==
    ASSUME FileInv,
           CreateBlock \/ CreateFooter \/ CreateFails \/ OpenSealed \/ OpenUnsealed \/ Exit
    PROVE  FileInv'
<1> USE MaxPagesAssumption DEF FileInv
<1>1. /\ mode' = mode /\ 0 \in Blocks /\ 0 \in Regions /\ 1 \in Regions
      /\ Idle \in Calls /\ Closed \in Calls /\ [op |-> "Create", page |-> 0] \in Calls
      /\ len \in Nat /\ num_pages \in Nat
  BY DEF CreateBlock, CreateFooter, CreateFails, OpenSealed, OpenUnsealed, Exit, Blocks,
         Regions, Calls, Idle, Closed, TypeOK
<1>2. CASE CreateBlock
  <2>1. Blank \in Values
    BY ValuesAssumption
  <2>2. WriteBlock(0, Blank) /\ len = 0 /\ Is("Closed")
    BY <1>2 DEF CreateBlock
  <2>3. /\ block' \in [Blocks -> Values \cup {Absent}]
        /\ footer' \in [Regions -> Regions \cup {NoFooter}]
        /\ FootersCount' /\ footer'[0] = NoFooter
        /\ \A i \in Regions \ {0} : footer'[i] = footer[i]
    BY <1>1, <2>1, <2>2, BlockWritten
  <2>4. len' = 1
    BY <2>2 DEF WriteBlock
  <2>5. TypeOK'
    BY <1>1, <1>2, <2>3, <2>4 DEF TypeOK, CreateBlock
  <2>6. CallsCount'
    BY <1>2, <2>2, <2>4 DEF CallsCount, CreateBlock, Is
  <2>7. PoolAppends'
    BY <1>1, <1>2, <2>2, <2>3 DEF PoolAppends, CreateBlock, Is
  <2> QED BY <2>3, <2>5, <2>6, <2>7
<1>3. CASE CreateFooter
  <2>1. /\ footer' \in [Regions -> Regions \cup {NoFooter}] /\ FootersCount'
        /\ footer'[1] = 1 /\ \A j \in Regions \ {1} : footer'[j] = footer[j]
    BY <1>1, <1>3, FooterWritten DEF CreateFooter
  <2>2. len = 1 /\ len' = 1 /\ num_pages' = 1 /\ call' = Idle
    BY <1>3 DEF CreateFooter, CallsCount
  <2>3. TypeOK'
    BY <1>1, <1>3, <2>1, <2>2 DEF TypeOK, CreateFooter
  <2>4. CallsCount'
    BY <2>2 DEF CallsCount, Idle, Is
  <2>5. PoolAppends'
    BY <1>1, <2>1, <2>2 DEF PoolAppends, Idle, Is
  <2> QED BY <2>1, <2>3, <2>4, <2>5
<1>4. CASE OpenSealed
  <2>1. footer[len] = len /\ num_pages' = len /\ call' = Idle
        /\ UNCHANGED <<block, footer, len>>
    BY <1>4 DEF OpenSealed, Sealed, FootersCount, TypeOK
  <2>2. TypeOK'
    BY <1>1, <1>4, <2>1 DEF TypeOK, OpenSealed
  <2>3. FootersCount' /\ CallsCount'
    BY <1>1, <2>1 DEF FootersCount, CallsCount, Idle, Is
  <2>4. PoolAppends'
    BY <1>1, <2>1 DEF PoolAppends, Idle, Is
  <2> QED BY <2>2, <2>3, <2>4
<1>5. CASE CreateFails \/ Exit
  <2>1. call' = Closed /\ num_pages' = 0 /\ UNCHANGED <<block, footer, len>>
    <3>1. Is("Create") \/ Is("Closed") => num_pages = 0
      BY DEF CallsCount
    <3> QED BY <1>5, <3>1 DEF CreateFails, Exit, CallsCount
  <2>2. TypeOK'
    BY <1>1, <1>5, <2>1 DEF TypeOK, CreateFails, Exit
  <2>3. FootersCount' /\ CallsCount' /\ PoolAppends'
    BY <1>1, <2>1 DEF FootersCount, CallsCount, PoolAppends, Closed, Is
  <2> QED BY <2>2, <2>3
<1>6. CASE OpenUnsealed
  <2>1. UNCHANGED <<mode, block, footer, len, num_pages, call>>
    BY <1>6 DEF OpenUnsealed
  <2>2. TypeOK'
    BY <1>6, <2>1 DEF TypeOK, OpenUnsealed
  <2>3. FootersCount' /\ CallsCount' /\ PoolAppends'
    BY <2>1 DEF FootersCount, CallsCount, PoolAppends, Is
  <2> QED BY <2>2, <2>3
<1> QED BY <1>2, <1>3, <1>4, <1>5, <1>6

LEMMA AppendKeepsInv ==
    ASSUME FileInv,
           AppendBlock \/ AppendBlockFails \/ AppendFooter \/ AppendFooterFails
    PROVE  FileInv'
<1> USE MaxPagesAssumption DEF FileInv
<1>1. /\ mode' = mode /\ Idle \in Calls /\ [op |-> "Append", page |-> 0] \in Calls
      /\ len \in 0 .. MaxPages /\ num_pages \in 0 .. MaxPages
  BY DEF AppendBlock, AppendBlockFails, AppendFooter, AppendFooterFails, Fails, Calls, Idle,
         TypeOK, Regions
<1>2. CASE AppendBlock
  <2>1. /\ Zero \in Values /\ num_pages \in Blocks /\ num_pages <= len
        /\ WriteBlock(num_pages, Zero)
    BY <1>1, <1>2, ValuesAssumption DEF AppendBlock, CallsCount, Blocks
  <2>2. /\ block' \in [Blocks -> Values \cup {Absent}]
        /\ footer' \in [Regions -> Regions \cup {NoFooter}]
        /\ len' \in Regions /\ len' > num_pages
        /\ FootersCount' /\ footer'[num_pages] = NoFooter
        /\ \A i \in Regions \ {num_pages} : footer'[i] = footer[i]
    BY <2>1, BlockWritten
  <2>3. TypeOK' /\ CallsCount'
    BY <1>1, <1>2, <2>2 DEF TypeOK, CallsCount, AppendBlock, Is
  <2>4. PoolAppends'
    <3>1. SUFFICES ASSUME mode # "AnyPage" PROVE PoolAppends'
      BY <1>1 DEF PoolAppends
    <3>2. num_pages = len /\ \A j \in Regions : footer[j] # NoFooter => j = len
      BY <1>2, <3>1 DEF PoolAppends, AppendBlock
    <3>3. len' = num_pages + 1
      BY <1>1, <2>1, <3>2 DEF WriteBlock
    <3>4. \A j \in Regions : footer'[j] = NoFooter
      BY <2>2, <3>2
    <3> QED BY <1>2, <3>3, <3>4 DEF PoolAppends, AppendBlock, Is
  <2> QED BY <2>2, <2>3, <2>4
<1>3. CASE AppendFooter
  <2>1. num_pages < len /\ num_pages + 1 \in Regions /\ WriteFooter(num_pages + 1)
    BY <1>1, <1>3 DEF AppendFooter, CallsCount, Regions
  <2>2. /\ footer' \in [Regions -> Regions \cup {NoFooter}] /\ FootersCount'
        /\ \A j \in Regions \ {num_pages + 1} : footer'[j] = footer[j]
    BY <2>1, FooterWritten
  <2>3. TypeOK' /\ CallsCount'
    BY <1>1, <1>3, <2>1, <2>2 DEF TypeOK, CallsCount, AppendFooter, Idle, Is
  <2>4. PoolAppends'
    BY <1>1, <1>3, <2>2 DEF PoolAppends, AppendFooter, Idle, Is
  <2> QED BY <2>2, <2>3, <2>4
<1>4. CASE AppendBlockFails
  <2>1. call = Idle /\ UNCHANGED <<mode, block, footer, len, num_pages, call>>
    BY <1>4 DEF AppendBlockFails, Fails, TypeOK, Calls, Idle, Is
  <2> QED BY <1>1, <1>4, <2>1
          DEF TypeOK, FootersCount, CallsCount, PoolAppends, Is, AppendBlockFails, Fails
<1>5. CASE AppendFooterFails
  <2>1. /\ num_pages < len /\ num_pages' = num_pages + 1 /\ call' = Idle
        /\ UNCHANGED <<block, footer, len>>
    BY <1>5 DEF AppendFooterFails, Fails, CallsCount
  <2>2. TypeOK'
    BY <1>1, <1>5, <2>1 DEF TypeOK, AppendFooterFails, Fails, Regions
  <2>3. FootersCount' /\ CallsCount'
    BY <1>1, <2>1 DEF FootersCount, CallsCount, Idle, Is
  <2>4. PoolAppends'
    BY <1>1, <1>5, <2>1 DEF PoolAppends, AppendFooterFails, Idle, Is
  <2> QED BY <2>2, <2>3, <2>4
<1> QED BY <1>2, <1>3, <1>4, <1>5

LEMMA WriteKeepsInv ==
    ASSUME FileInv, NEW p \in Blocks, NEW v \in Values,
           WriteInPlace(p, v) \/ WriteInPlaceFails
    PROVE  FileInv'
<1> USE MaxPagesAssumption DEF FileInv
<1>1. CASE WriteInPlace(p, v)
  <2>1. WriteBlock(p, v) /\ p < len /\ UNCHANGED <<mode, num_pages, call>>
    BY <1>1 DEF WriteInPlace
  <2>2. /\ block' \in [Blocks -> Values \cup {Absent}]
        /\ footer' \in [Regions -> Regions \cup {NoFooter}]
        /\ len' = len /\ FootersCount' /\ footer'[p] = NoFooter
        /\ \A i \in Regions \ {p} : footer'[i] = footer[i]
    BY <2>1, BlockWritten
  <2>3. TypeOK'
    BY <1>1, <2>1, <2>2 DEF TypeOK, WriteInPlace
  <2>4. CallsCount'
    BY <2>1, <2>2 DEF CallsCount, Is
  <2>5. PoolAppends'
    BY <2>1, <2>2 DEF PoolAppends, Is
  <2> QED BY <2>2, <2>3, <2>4, <2>5
<1>2. CASE WriteInPlaceFails
  <2>1. call = Idle /\ UNCHANGED <<mode, block, footer, len, num_pages, call>>
    BY <1>2 DEF WriteInPlaceFails, Fails, TypeOK, Calls, Idle, Is
  <2> QED BY <1>2, <2>1
          DEF TypeOK, FootersCount, CallsCount, PoolAppends, Is, WriteInPlaceFails, Fails
<1> QED BY <1>1, <1>2

\* Only a caller other than the buffer pool gets here.
LEMMA ExtendKeepsInv ==
    ASSUME FileInv, NEW p \in Blocks, NEW v \in Values,
           ExtendLength(p) \/ ExtendFooter \/ ExtendWrite(v) \/ ExtendFails
    PROVE  FileInv'
<1> USE MaxPagesAssumption DEF FileInv
<1>1. /\ mode' = mode /\ Idle \in Calls
      /\ [op |-> "Extend", page |-> p] \in Calls
      /\ len \in 0 .. MaxPages /\ num_pages \in 0 .. MaxPages /\ p \in 0 .. MaxPages - 1
      /\ p + 1 \in Regions
  BY DEF ExtendLength, ExtendFooter, ExtendWrite, ExtendFails, Fails, Calls, Idle, TypeOK,
         Regions, Blocks
<1>2. mode = "AnyPage"
  BY <1>1 DEF ExtendLength, ExtendFooter, ExtendWrite, ExtendFails, PoolAppends, Writable
<1>3. PoolAppends'
  BY <1>1, <1>2 DEF PoolAppends
<1>4. Is("Extend") \/ Is("Write") => call.page \in Blocks /\ call.page \in Regions
  BY DEF TypeOK, Calls, Is, Blocks, Regions
<1>5. CASE ExtendLength(p)
  <2>1. block' \in [Blocks -> Values \cup {Absent}]
    BY <1>5, ValuesAssumption DEF ExtendLength, TypeOK
  <2>2. TypeOK' /\ FootersCount' /\ CallsCount'
    BY <1>1, <1>5, <2>1 DEF ExtendLength, TypeOK, FootersCount, CallsCount, Is
  <2> QED BY <1>3, <2>2
<1>6. CASE ExtendFooter
  <2>1. call.page \in Regions /\ call.page \in Blocks /\ call.page < len
        /\ WriteFooter(call.page) /\ num_pages' = call.page
        /\ UNCHANGED <<mode, block, len, result>>
    BY <1>4, <1>6 DEF ExtendFooter, CallsCount
  <2>2. footer' \in [Regions -> Regions \cup {NoFooter}] /\ FootersCount'
    BY <2>1, FooterWritten
  <2>3. call' \in Calls /\ call'.op = "Write" /\ call'.page = call.page
    BY <1>6, <2>1 DEF ExtendFooter, TypeOK, Calls
  <2>4. TypeOK' /\ CallsCount'
    BY <2>1, <2>2, <2>3 DEF TypeOK, CallsCount, Is
  <2> QED BY <1>3, <2>2, <2>4
<1>7. CASE ExtendWrite(v)
  <2>1. call.page \in Blocks /\ call.page < len /\ num_pages = call.page
        /\ WriteBlock(call.page, v) /\ call' = Idle /\ UNCHANGED num_pages
    BY <1>4, <1>7 DEF ExtendWrite, CallsCount
  <2>2. /\ block' \in [Blocks -> Values \cup {Absent}]
        /\ footer' \in [Regions -> Regions \cup {NoFooter}]
        /\ len' = len /\ FootersCount'
    BY <2>1, BlockWritten
  <2>3. TypeOK'
    BY <1>1, <1>7, <2>1, <2>2 DEF TypeOK, ExtendWrite
  <2>4. CallsCount'
    BY <1>1, <2>1, <2>2 DEF CallsCount, Idle, Is
  <2> QED BY <1>3, <2>2, <2>3, <2>4
<1>8. CASE ExtendFails
  <2>1. /\ num_pages' \in Regions /\ num_pages' <= len /\ call' = Idle
        /\ UNCHANGED <<block, footer, len>>
    BY <1>1, <1>4, <1>8 DEF ExtendFails, Fails, CallsCount, Is, Regions
  <2>2. TypeOK'
    BY <1>1, <1>8, <2>1 DEF TypeOK, ExtendFails, Fails
  <2>3. FootersCount' /\ CallsCount'
    BY <2>1 DEF FootersCount, CallsCount, Idle, Is
  <2> QED BY <1>3, <2>2, <2>3
<1> QED BY <1>5, <1>6, <1>7, <1>8

LEMMA NextFile == ASSUME FileInv, [Next]_vars PROVE FileInv'
<1> Zero \in Values /\ 0 \in Blocks
  BY ValuesAssumption, MaxPagesAssumption DEF Blocks
<1>1. ASSUME Next PROVE FileInv'
  BY <1>1, OpenKeepsInv, AppendKeepsInv, WriteKeepsInv, ExtendKeepsInv DEF Next
<1>2. CASE UNCHANGED vars
  BY <1>2 DEF vars, FileInv, TypeOK, FootersCount, CallsCount, PoolAppends, Is
<1> QED BY <1>1, <1>2

\* Whichever calls fail and wherever the process ends, the file keeps its
\* invariant.
THEOREM FileIsSafe == Spec => []FileInv
BY InitFile, NextFile, PTL DEF Spec

\* Every variable stays in its type: no call leaves a block or a footer outside
\* the regions of the file (storage.rs).
THEOREM FileIsWellTyped == Spec => []TypeOK
<1>1. FileInv => TypeOK
  BY DEF FileInv
<1> QED BY <1>1, FileIsSafe, PTL

\* Whoever calls, read_block never lets a page through that is behind the end
\* of the file.
THEOREM PagesExist == Spec => []CountedPagesExist
<1>1. FileInv => CountedPagesExist
  BY DEF FileInv, CallsCount, CountedPagesExist
<1> QED BY <1>1, FileIsSafe, PTL

\* Under the buffer pool the count in memory is exact, for files of any length:
\* append_empty_block never writes over a block and never leaves a gap.
THEOREM CountIsExact == Spec => []CountIsRight
<1>1. FileInv => CountIsRight
  BY DEF FileInv, PoolAppends, CountIsRight
<1> QED BY <1>1, FileIsSafe, PTL

\* Under the buffer pool an old footer never survives inside the file, where a
\* later session could take it for the count.
THEOREM FootersTellLength == Spec => []FooterTellsLength
<1>1. FileInv => FooterTellsLength
  BY DEF FileInv, FootersCount, PoolAppends, FooterTellsLength
<1> QED BY <1>1, FileIsSafe, PTL

-----------------------------------------------------------------------------
(* The refinement of BlockFile. *)

\* What the instance File sees.
Contents == IF mode = "AnyPage" THEN <<>> ELSE [i \in 1 .. len |-> block[i - 1]]
SealedUp == mode # "AnyPage" /\ Sealed
Lost     == mode # "AnyPage" /\ Is("Closed") /\ len > 0 /\ ~ Sealed

LEMMA InitRefines == Init => File!Init
<1> SUFFICES ASSUME Init PROVE File!Init
  OBVIOUS
<1>1. len = 0 /\ footer[0] = NoFooter
  BY MaxPagesAssumption DEF Init, Regions
<1>2. [i \in 1 .. 0 |-> block[i - 1]] = <<>>
  OBVIOUS
<1> QED BY <1>1, <1>2 DEF File!Init, Sealed

\* The steps of BlockFile, by what they do to the three.
LEMMA FileSteps ==
    /\ ~ Lost /\ ~ SealedUp' /\ ~ Lost' /\ (\E v \in Values : Contents' = Append(Contents, v))
          => File!Grow
    /\ ~ Lost /\ SealedUp' /\ ~ Lost' /\ Contents' = Contents => File!Seal
    /\ ~ Lost /\ ~ Lost' /\ (SealedUp' <=> SealedUp)
       /\ (\E i \in DOMAIN Contents, v \in Values : Contents' = [Contents EXCEPT ![i] = v])
          => File!Put
    /\ ~ SealedUp /\ ~ SealedUp' /\ Lost' /\ Contents # <<>> /\ Contents' = Contents
          => File!Lose
<1>1. File!Grow <=> /\ ~ Lost
                    /\ \E v \in Values : Contents' = Append(Contents, v)
                    /\ SealedUp' = FALSE /\ Lost' = Lost
  BY Zenon DEF File!Grow, Lost, SealedUp, Contents
<1>2. File!Seal <=> ~ Lost /\ SealedUp' = TRUE /\ Contents' = Contents /\ Lost' = Lost
  BY Zenon DEF File!Seal, Lost, SealedUp, Contents
<1>3. File!Put <=> /\ ~ Lost
                   /\ \E i \in DOMAIN Contents, v \in Values :
                         Contents' = [Contents EXCEPT ![i] = v]
                   /\ SealedUp' = SealedUp /\ Lost' = Lost
  BY Zenon DEF File!Put, Lost, SealedUp, Contents
<1>4. File!Lose <=> /\ ~ SealedUp /\ Contents # <<>> /\ Lost' = TRUE
                    /\ Contents' = Contents /\ SealedUp' = SealedUp
  BY Zenon DEF File!Lose, Lost, SealedUp, Contents
<1>5. Lost \in BOOLEAN /\ SealedUp \in BOOLEAN /\ Lost' \in BOOLEAN /\ SealedUp' \in BOOLEAN
  BY DEF Lost, SealedUp
<1> QED BY <1>1, <1>2, <1>3, <1>4, <1>5

FileStutters == Contents' = Contents /\ SealedUp' = SealedUp /\ Lost' = Lost

\* The file grows by the block behind its end.
LEMMA WriteGrows ==
    ASSUME FileInv, mode # "AnyPage", mode' = mode, NEW v \in Values,
           len \in Blocks, WriteBlock(len, v), ~ Lost, call'.op # "Closed"
    PROVE  File!Grow
<1> USE MaxPagesAssumption DEF FileInv
<1>1. /\ len \in Nat /\ len' = len + 1
      /\ footer' = [footer EXCEPT ![len] = NoFooter]
      /\ block' = [block EXCEPT ![len] = v]
  BY DEF WriteBlock, Blocks, TypeOK
<1>2. ~ SealedUp'
  BY <1>1 DEF SealedUp, Sealed, PoolAppends, TypeOK, Blocks, Regions
<1>3. ~ Lost'
  BY DEF Lost, Is
<1>4. Contents' = Append(Contents, v)
  <2> DEFINE s == [i \in 1 .. len |-> block[i - 1]]
             t == [i \in 1 .. len + 1 |-> block'[i - 1]]
             S == Values \cup {Absent}
  <2>1. Contents = s /\ Contents' = t
    BY <1>1 DEF Contents
  <2>2. \A i \in 1 .. len : s[i] \in S /\ t[i] = s[i]
    BY <1>1 DEF TypeOK, Blocks, Regions
  <2>3. t[len + 1] = v /\ v \in S
    BY <1>1 DEF TypeOK, Blocks
  <2>4. s \in [1 .. len -> S] /\ t \in [1 .. len + 1 -> S]
    <3>1. 1 .. len + 1 = (1 .. len) \cup {len + 1}
      BY <1>1
    <3> QED BY <2>2, <2>3, <3>1
  <2> HIDE DEF s, t, S
  <2>5. t = Append(s, t[len + 1])
    BY <1>1, <2>2, <2>3, <2>4, OneElementMore
  <2> QED BY <2>1, <2>3, <2>5
<1> QED BY <1>2, <1>3, <1>4, FileSteps

LEMMA PoolRefines ==
    ASSUME FileInv, mode # "AnyPage", Next PROVE File!Next \/ FileStutters
<1> USE MaxPagesAssumption DEF FileInv
<1>0. /\ mode' = mode /\ len \in 0 .. MaxPages /\ num_pages \in 0 .. MaxPages
      /\ len \in Regions /\ len \in Nat
  BY DEF Next, CreateBlock, CreateFooter, CreateFails, OpenSealed, OpenUnsealed, Exit,
         AppendBlock, AppendBlockFails, AppendFooter, AppendFooterFails, Fails, WriteInPlace,
         WriteInPlaceFails, ExtendLength, ExtendFooter, ExtendWrite, ExtendFails, TypeOK,
         Regions
<1>1. ASSUME UNCHANGED <<block, len>> PROVE Contents' = Contents
  BY <1>0, <1>1 DEF Contents
<1>2. ASSUME UNCHANGED <<footer, len>> PROVE SealedUp' = SealedUp
  BY <1>0, <1>2 DEF SealedUp, Sealed
<1>3. ASSUME UNCHANGED <<block, footer, len>>, Is("Closed") <=> call'.op = "Closed"
      PROVE  FileStutters
  <2>1. Lost' = Lost
    BY <1>0, <1>3 DEF Lost, Sealed, Is
  <2> QED BY <1>1, <1>2, <1>3, <2>1 DEF FileStutters
<1>4. CASE CreateBlock
  <2>1. Blank \in Values /\ len \in Blocks /\ WriteBlock(len, Blank) /\ ~ Lost
        /\ call'.op # "Closed"
    BY <1>4, ValuesAssumption DEF CreateBlock, Blocks, Lost
  <2> QED BY <1>0, <2>1, WriteGrows DEF File!Next
<1>5. CASE AppendBlock
  <2>1. Zero \in Values /\ len \in Blocks /\ WriteBlock(len, Zero) /\ ~ Lost
        /\ call'.op # "Closed"
    BY <1>0, <1>5, ValuesAssumption DEF AppendBlock, Blocks, Lost, PoolAppends, Is
  <2> QED BY <1>0, <2>1, WriteGrows DEF File!Next
<1>6. CASE CreateFooter \/ AppendFooter
  <2>1. len \in Regions /\ WriteFooter(len) /\ call' = Idle /\ ~ Is("Closed")
        /\ UNCHANGED <<block, len>>
    BY <1>0, <1>6 DEF CreateFooter, AppendFooter, CallsCount, PoolAppends, Is
  <2>2. footer'[len] = len
    BY <2>1, FooterWritten
  <2>3. SealedUp' /\ ~ Lost /\ ~ Lost'
    BY <1>0, <2>1, <2>2 DEF SealedUp, Lost, Sealed, Is, Idle, NoFooter
  <2> QED BY <1>1, <2>1, <2>3, FileSteps DEF File!Next
<1>7. CASE CreateFails \/ Exit
  <2>1. call'.op = "Closed" /\ UNCHANGED <<block, footer, len>>
    BY <1>7 DEF CreateFails, Exit, Closed
  <2>2. CASE Is("Closed")
    BY <1>3, <2>1, <2>2
  <2>3. CASE ~ Is("Closed") /\ len > 0 /\ ~ Sealed
    <3>1. Contents # <<>>
      <4>1. DOMAIN Contents = 1 .. len
        BY DEF Contents
      <4> QED BY <1>0, <2>3, <4>1
    <3>2. ~ SealedUp /\ ~ SealedUp' /\ Lost'
      BY <1>0, <2>1, <2>3 DEF SealedUp, Lost, Sealed, Is
    <3> QED BY <1>1, <2>1, <3>1, <3>2, FileSteps DEF File!Next
  <2>4. CASE ~ Is("Closed") /\ (len = 0 \/ Sealed)
    <3>1. Lost' = Lost
      BY <1>0, <2>1, <2>4 DEF Lost, Sealed, Is
    <3> QED BY <1>1, <1>2, <2>1, <3>1 DEF FileStutters
  <2> QED BY <1>0, <2>2, <2>3, <2>4
<1>8. CASE OpenSealed
  <2>1. Lost' = Lost
    BY <1>0, <1>8 DEF OpenSealed, Lost, Sealed, Is, Idle
  <2> QED BY <1>1, <1>2, <1>8, <2>1 DEF OpenSealed, FileStutters
<1>9. CASE OpenUnsealed
  BY <1>3, <1>9 DEF OpenUnsealed, Is
<1>10. CASE AppendBlockFails \/ AppendFooterFails \/ WriteInPlaceFails
  <2>1. ~ Is("Closed") /\ call'.op = "Idle" /\ UNCHANGED <<block, footer, len>>
    BY <1>10 DEF AppendBlockFails, AppendFooterFails, WriteInPlaceFails, Fails, Is, Idle
  <2> QED BY <1>3, <2>1
<1>11. ASSUME NEW p \in Blocks, NEW v \in Values, WriteInPlace(p, v) PROVE File!Next
  <2>1. /\ p < len /\ len' = len /\ UNCHANGED call /\ Is("Idle")
        /\ block' = [block EXCEPT ![p] = v] /\ footer' = [footer EXCEPT ![p] = NoFooter]
    BY <1>11 DEF WriteInPlace, WriteBlock
  <2>2. footer'[len] = footer[len]
    BY <1>0, <2>1 DEF TypeOK, Blocks
  <2>3. ~ Lost /\ ~ Lost' /\ (SealedUp' <=> SealedUp)
    BY <1>0, <2>1, <2>2 DEF Lost, SealedUp, Sealed, Is
  <2>4. p + 1 \in DOMAIN Contents /\ Contents' = [Contents EXCEPT ![p + 1] = v]
    <3>1. \A i \in 1 .. len :
             block'[i - 1] = IF i = p + 1 THEN v ELSE block[i - 1]
      BY <1>0, <2>1 DEF TypeOK, Blocks
    <3>2. Contents = [i \in 1 .. len |-> block[i - 1]]
          /\ Contents' = [i \in 1 .. len |-> block'[i - 1]]
      BY <1>0, <2>1 DEF Contents
    <3>3. p + 1 \in 1 .. len
      BY <1>0, <2>1 DEF Blocks
    <3> QED BY <3>1, <3>2, <3>3
  <2> QED BY <2>3, <2>4, FileSteps DEF File!Next
<1>12. ASSUME NEW p \in Blocks PROVE ~ ExtendLength(p)
  BY <1>0 DEF ExtendLength, Writable, PoolAppends, Blocks
<1>13. ~ ExtendFooter /\ ~ ExtendFails /\ \A v \in Values : ~ ExtendWrite(v)
  BY DEF ExtendFooter, ExtendFails, ExtendWrite, PoolAppends
<1> QED BY <1>4, <1>5, <1>6, <1>7, <1>8, <1>9, <1>10, <1>11, <1>12, <1>13 DEF Next

LEMMA NextRefines ==
    ASSUME FileInv, [Next]_vars PROVE [File!Next]_<<Contents, SealedUp, Lost>>
<1>1. CASE UNCHANGED vars
  BY <1>1 DEF vars, Contents, SealedUp, Sealed, Lost, Is
<1>2. ASSUME Next, mode = "AnyPage" PROVE FileStutters
  <2>1. mode' = mode
    BY <1>2 DEF Next, CreateBlock, CreateFooter, CreateFails, OpenSealed, OpenUnsealed, Exit,
         AppendBlock, AppendBlockFails, AppendFooter, AppendFooterFails, Fails, WriteInPlace,
         WriteInPlaceFails, ExtendLength, ExtendFooter, ExtendWrite, ExtendFails
  <2> QED BY <1>2, <2>1 DEF FileStutters, Contents, SealedUp, Lost
<1> QED BY <1>1, <1>2, PoolRefines DEF FileStutters

\* Under the buffer pool a file persists: whatever calls fail and wherever the
\* process ends, its blocks are those that were written last, in their places,
\* and it is lost only while its newest block has no footer.
THEOREM FileImplementsBlockFile == Spec => ImplementsBlockFile
<1>1. FileInv /\ [Next]_vars => [File!Next]_<<Contents, SealedUp, Lost>>
  BY NextRefines
<1> QED BY <1>1, InitRefines, FileIsSafe, PTL
        DEF Spec, ImplementsBlockFile, File!Spec, Contents, SealedUp, Lost
=============================================================================
