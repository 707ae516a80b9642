CONSTANTS
  c1 = c1
  c2 = c2
  Clients = {c1, c2}
  Minors = {0}
  Volumes <- MCVolumesAB
  r1 = r1
  r2 = r2
  Reqs = {r1, r2}
  MaxMaps = 2
  MaxDisks = 2
  Serial = TRUE
SPECIFICATION FairSpec
PROPERTIES
  RequestsFinish
  SessionsFinish
