CONSTANTS
  Ssus = {0, 1}
  NsIds = {1, 2}
  DevNames = {1, 2}
  MaxNsRows = 2
  MaxMounts = 2
  Paths = {0, 7}
  Minors = {0, 1}
  MaxAllocId = 3
  MaxLives = 2
SPECIFICATION Spec
INVARIANTS
  TypeOK
  RowsOwnNamespaces
  TablesAgree
  NoneLost
  IoReachesOwnDisk
  AttachedIsServed
CHECK_DEADLOCK FALSE
