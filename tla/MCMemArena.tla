----------------------------- MODULE MCMemArena -----------------------------
(* An arena of a few bytes for TLC: bytes in base 4 and ints of two bytes. *)
EXTENDS MemArena

BytesDef == 0..3
IntsDef == -8..7
IntBytesDef ==
  [n \in IntsDef |-> [i \in 1..2 |-> IF i = 1 THEN n % 4 ELSE ((n % 16) \div 4)]]

\* The last region starts before the arena's end, and a copy is at most 7 bytes.
AddressesDef == 0..(ArenaSize + HeaderSize + 7)
=============================================================================
