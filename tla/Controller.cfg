CONSTANTS
  vol = vol
  anon = anon
  alice = alice
  d0 = d0
  d1 = d1
  Ssus <- MCSsus
  Names <- MCNames
  NoName = anon
  Owners <- MCOwners
  Devs <- MCDevs
  Totals = {2, 4}
  Sector = 2
  Sizes = {3}
  NsIds = {1, 2}
  MaxRows = 3
  MaxLogdevRows = 3
  MaxReleased = 1
  MaxAllocId = 3
  DeleteMayFail = TRUE
  SharedDevice = TRUE
SPECIFICATION Spec
INVARIANTS
  TypeOK
  RetiredNeverActive
  MountedIffAttached
  RowsSpread
  NamesUnique
  RowsTile
  PlacementComplete
  MappingIsCurrent
  RowsBacked
  UsedIsSumOfRows
  RetryFindsDisk
PROPERTIES
  Refines
  NoOvercommit
SYMMETRY Sym
CHECK_DEADLOCK FALSE
