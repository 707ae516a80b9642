CONSTANTS
  Ids = {0, 1, 2}
  DiskNames = {7, 8}
  None = None
  MaxSlots = 2
SPECIFICATION Spec
INVARIANTS
  TypeOK
  PathFindsDisk
  CacheCoherent
CHECK_DEADLOCK FALSE
