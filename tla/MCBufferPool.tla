---------------------------- MODULE MCBufferPool ----------------------------
(* Model-checking instances of BufferPool. *)
EXTENDS BufferPool, TLC

HolderSymmetry == Permutations(Holders)
=============================================================================
