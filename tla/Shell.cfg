SPECIFICATION Spec
CONSTANTS
  StatementCount = 8
  MaxRows = 3
INVARIANTS
  TypeOK
  InitializeNests
  BlockKnowsItsAllocator
  ReadyWhenInit
  VerdictIsRight
  LeftOpenByAFailedStep
PROPERTIES
  MainEnds
CHECK_DEADLOCK FALSE
