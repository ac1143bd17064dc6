\* Daily jobs, reruns, failures, late versions and the backfill.
SPECIFICATION Spec
CONSTANTS
  Days = {d1, d2}
  NoDay = NoDay
  Ids = {a, b}
  NullId = NullId
  Full = Full
  MaxLoads = 2
  MaxActive = 2
CONSTANT Loads <- MCLoads
INVARIANTS
  TypeOK
  StagedOncePerDay
  NewestDecides
  WithdrawnLeaves
  BackfillUnique
PROPERTIES
  ImplementsStagingLayer
SYMMETRY Symmetry
CHECK_DEADLOCK FALSE
