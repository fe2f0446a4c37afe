SPECIFICATION Spec
CONSTANTS
  Top = 6
  Requests = {1, 2}
  Fills <- FillsDef
  Garbage = 0
  IntMax = 5
  MaxBlocks = 4
INVARIANTS
  TypeOK
  HeapSound
  CounterMissesFrees
  PeakCovers
PROPERTIES
  DamageBounded
CHECK_DEADLOCK FALSE
