\* Does a build keep the versions it found?
SPECIFICATION Spec
CONSTANTS
  Users = {u1}
  Cards = {c1}
  NullId = NullId
  p1 = p1
  p2 = p2
  Parts = {p1, p2}
  Values = {v1, v2}
  MaxLoads = 3
  MaxBatches = 3
  MaxBuilds = 3
  MaxFaults = 0
CONSTANT Loads <- MCLoads
PROPERTY
  HistoryKept
CHECK_DEADLOCK FALSE
