CONSTANTS
  c1 = c1
  c2 = c2
  Clients = {c1, c2}
  Minors = {0, 1}
  Volumes <- MCVolumes
  r1 = r1
  Reqs = {r1}
  MaxMaps = 2
  MaxDisks = 3
  Serial = TRUE
SPECIFICATION Spec
INVARIANTS
  TypeOK
  NoOrphanMaps
  MountedMapsExact
  OwnExtentsOnly
  QuietWhenGone
  DisksOwned
