CONSTANTS
  Ids = {0, 1, 2}
  DiskNames = {1, 7}
  None = None
  MaxSlots = 2
SPECIFICATION Spec
INVARIANTS
  PathFindsDisk
CHECK_DEADLOCK FALSE
