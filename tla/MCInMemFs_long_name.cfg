SPECIFICATION Spec
CONSTANTS
  NULL = NULL
  a = a
  b = b
  l = l
  zero = zero
  one = one
  Names = {a, b, l}
  LongNames = {l}
  Handles = {h1, h2, h3}
  Files = {f1, f2, f3}
  Bytes = {zero}
  Zero = zero
  InitCap = 1
  Offsets = {}
  Data = {}
  Sizes = {}
SYMMETRY Symmetric
INVARIANTS
  OpenFileIsFound
CHECK_DEADLOCK FALSE
