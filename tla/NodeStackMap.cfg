CONSTANTS
  Ssus = {0}
  NsIds = {1, 2}
  DevNames = {1, 2}
  MaxNsRows = 2
  MaxMounts = 2
  Paths = {0, 1}
  Minors = {0, 1}
  MaxAllocId = 2
  MaxLives = 1
SPECIFICATION Spec
INVARIANT LogdevIsMapping
CHECK_DEADLOCK FALSE
