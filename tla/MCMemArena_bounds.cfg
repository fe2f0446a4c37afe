SPECIFICATION Spec
CONSTANTS
  ArenaSize = 6
  HeaderSize = 2
  Bytes <- BytesDef
  Fills = {1, 3}
  Ints <- IntsDef
  IntBytes <- IntBytesDef
  Zero = 0
  Requests = {1, 3}
  Addresses <- AddressesDef
INVARIANTS
  TypeOK
  RegionsTile
  Accounting
PROPERTIES
  InnerBytesStable
  OverhangBounded
  MovedBytesKept
CHECK_DEADLOCK FALSE
