----------------------------- MODULE BlockFile -----------------------------
(***************************************************************************)
(* What a page file promises across sessions and crashes: its blocks stay  *)
(* where they are and as they were last written, the file only grows, and  *)
(* it can become unreadable only while its newest block is not sealed by a *)
(* footer.                                                                 *)
(***************************************************************************)
EXTENDS Naturals, Sequences

CONSTANT Values     \* what a block may hold

VARIABLES
    blocks,         \* the blocks of the file, in order
    sealed,         \* the footer behind the last block is written
    lost            \* the file can no longer be opened

Init == blocks = <<>> /\ sealed = FALSE /\ lost = FALSE

Grow ==
    /\ ~ lost
    /\ \E v \in Values : blocks' = Append(blocks, v)
    /\ sealed' = FALSE
    /\ UNCHANGED lost

Seal == ~ lost /\ sealed' = TRUE /\ UNCHANGED <<blocks, lost>>

Put ==
    /\ ~ lost
    /\ \E i \in DOMAIN blocks, v \in Values : blocks' = [blocks EXCEPT ![i] = v]
    /\ UNCHANGED <<sealed, lost>>

Lose == ~ sealed /\ blocks # <<>> /\ lost' = TRUE /\ UNCHANGED <<blocks, sealed>>

Next == Grow \/ Seal \/ Put \/ Lose

Spec == Init /\ [][Next]_<<blocks, sealed, lost>>
=============================================================================
