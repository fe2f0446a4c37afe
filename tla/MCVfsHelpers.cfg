SPECIFICATION Spec
CONSTANTS
  WordBits = 64
  ShiftA = 12
  ShiftB = 25
  ShiftC = 17
  Seed <- SeedDef
  ByteCounts <- ByteCountsDef
  MaxDraws = 20
  MaxPathname = 512
  NameLengths <- NameLengthsDef
  IntMax = 7
  InitialCapacity = 2
INVARIANTS
  RandomStateAlive
  FillsExactly
  PathIsWhole
  BufferHoldsFile
CHECK_DEADLOCK FALSE
