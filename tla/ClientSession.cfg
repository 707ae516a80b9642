SPECIFICATION Spec
CONSTANTS
  Word = 64
  Sector = 2
  Half = 8
  Kilo = 2
  HostsMax = 2
  LineStart = 2
  Devs = {d1, d2}
  Sectors = {0, 12}
  DevSize = 30
  Digits = {0, 2, 3, 33, 62, 65}
  Capacity = 3
  Rooms = {5, 7, 12}
INVARIANTS
  RequestArrives
  AnswerTrue
  BytesInPlace
  ReadsBack
CHECK_DEADLOCK FALSE
SYMMETRY Symmetry
