----------------------------- MODULE MCInMemFs -----------------------------
(* Instances of InMemFs for TLC. *)
EXTENDS InMemFsRefinement

CONSTANTS a, b, l, zero, one

\* A write of one byte and of two.
DataDef == {<<one>>, <<one, zero>>}
DataShort == {<<one>>}

OffsetsDef == -1..2
OffsetsShort == {-1, 0, 2}

Symmetric == Permutations(Files) \cup Permutations(Handles)
=============================================================================
