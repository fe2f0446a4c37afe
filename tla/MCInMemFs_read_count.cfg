SPECIFICATION Spec
CONSTANTS
  NULL = NULL
  a = a
  b = b
  l = l
  zero = zero
  one = one
  Names = {a}
  LongNames = {}
  Handles = {h1, h2}
  Files = {f1}
  Bytes = {zero, one}
  Zero = zero
  InitCap = 1
  Offsets <- OffsetsDef
  Data <- DataDef
  Sizes = {0, 1, 3}
SYMMETRY Symmetric
INVARIANTS
  ReadCountIsACount
CHECK_DEADLOCK FALSE
