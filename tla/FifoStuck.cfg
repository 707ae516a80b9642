CONSTANTS
  c1 = c1
  c2 = c2
  Clients = {c1, c2}
  Tools = {}
  MaxCalls = 1
  PipeMax = 2
  ReadMax = 2
  MaxStarts = 1
  Hasty = {c1}
  Mortal = {}
SPECIFICATION FairSpec
PROPERTIES
  ManagerGoesOn
CHECK_DEADLOCK FALSE
