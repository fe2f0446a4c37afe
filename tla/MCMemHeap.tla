----------------------------- MODULE MCMemHeap ------------------------------
(* A heap of a few words for TLC. *)
EXTENDS MemHeap

\* A header overwritten with -2 is a negative size.
FillsDef == {-2}
=============================================================================
