CONSTANTS
  c1 = c1
  Clients = {c1}
  Minors = {0, 1}
  Volumes <- MCVolumesAB
  r1 = r1
  Reqs = {r1}
  MaxMaps = 2
  MaxDisks = 2
  Serial = TRUE
SPECIFICATION Spec
PROPERTIES
  IoUndisturbed
