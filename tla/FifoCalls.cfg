CONSTANTS
  c1 = c1
  t1 = t1
  Clients = {c1, t1}
  Tools = {t1}
  MaxCalls = 2
  PipeMax = 2
  ReadMax = 1
  MaxStarts = 2
  Hasty = {c1}
  Mortal = {c1, t1}
SPECIFICATION FairSpec
INVARIANTS
  TypeOK
  AtMostOnce
  OwnAnswer
  ToldTruth
  HeardBeforeRun
PROPERTIES
  CallsAnswered
CHECK_DEADLOCK FALSE
