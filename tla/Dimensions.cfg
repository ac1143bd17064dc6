\* Changes of users and renewals of cards, with failing builds.
SPECIFICATION Spec
CONSTANTS
  Users = {u1, u2}
  Cards = {c1}
  NullId = NullId
  p1 = p1
  p2 = p2
  Parts = {p1, p2}
  Values = {v1, v2}
  MaxLoads = 3
  MaxBatches = 3
  MaxBuilds = 3
  MaxFaults = 1
CONSTANT Loads <- MCLoads
INVARIANTS
  TypeOK
  OneCurrent
PROPERTIES
  
  SnapshotServed
  ImplementsUserHistory
CONSTRAINT OneTable
SYMMETRY UserSymmetry
CHECK_DEADLOCK FALSE
