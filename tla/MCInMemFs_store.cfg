SPECIFICATION Spec
CONSTANTS
  NULL = NULL
  a = a
  b = b
  l = l
  zero = zero
  one = one
  Names = {a, b}
  LongNames = {}
  Handles = {h1, h2}
  Files = {f1, f2}
  Bytes = {zero, one}
  Zero = zero
  InitCap = 1
  Offsets <- OffsetsShort
  Data <- DataShort
  Sizes = {0, 3}
SYMMETRY Symmetric
INVARIANTS
  LenWithinCapacity
PROPERTIES
  RefinesFileStore
  ReadBack
CHECK_DEADLOCK FALSE
