SPECIFICATION Spec
CONSTANTS
  c1 = c1
  c2 = c2
  x = x
  y = y
  Zero = Zero
  Junk = Junk
  None = None
  Conns = {c1, c2}
  MaxPages = 2
  MaxCounter = 2
  Vals = {x}
  InitCap = 2
SYMMETRY Symmetric
PROPERTIES
  HotJournalUnowned
CHECK_DEADLOCK FALSE
