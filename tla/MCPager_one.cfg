SPECIFICATION Spec
CONSTANTS
  c1 = c1
  x = x
  y = y
  Zero = Zero
  Junk = Junk
  None = None
  Conns = {c1}
  MaxPages = 4
  MaxCounter = 2
  Vals = {x, y}
  InitCap = 2
SYMMETRY Symmetric
INVARIANTS
  TypeOK
  JournalCoversFile
  CommittedContentKept
  DamageIsNoticed
  CacheCoherent
  NoReadBehindEnd
  NoUnrecoveredReader
CHECK_DEADLOCK FALSE
