---------------------------- MODULE MCVfsHelpers ----------------------------
(* The real word size, shifts and seed; ints of 3 bits for TLC. *)
EXTENDS VfsHelpers

SeedDef == {2}
ByteCountsDef == {0, 1, 4, 5, 8, 9, 21}
NameLengthsDef == (MaxPathname - 9)..(MaxPathname + 2)
=============================================================================
