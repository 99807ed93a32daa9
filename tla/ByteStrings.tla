---------------------------- MODULE ByteStrings ----------------------------
(***************************************************************************)
(* Numbers as big-endian bytes (to_be_bytes, from_be_bytes of the standard *)
(* library).  A byte has BitsPerByte bits, so that few values are more     *)
(* than a byte, and few bytes more than a u16, can count.                  *)
(***************************************************************************)
EXTENDS Integers, SequencesExt

CONSTANT BitsPerByte

ASSUME BitsAssumption == BitsPerByte \in Nat \ {0}

\* 1 << n.
Shifted[n \in Nat] == IF n = 0 THEN 1 ELSE 2 * Shifted[n - 1]

Radix(n) == Shifted[n * BitsPerByte]

\* What n bytes hold: u8, u16 and u32 for n = 1, 2 and 4.
UInt(n) == 0 .. Radix(n) - 1

to_be_bytes(v, n) == [k \in 1 .. n |-> (v \div Radix(n - k)) % Radix(1)]

from_be_bytes(s) ==
    LET value[k \in 0 .. Len(s)] == IF k = 0 THEN 0 ELSE value[k - 1] * Radix(1) + s[k]
    IN  value[Len(s)]
=============================================================================
