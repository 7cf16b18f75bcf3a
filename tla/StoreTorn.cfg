CONSTANTS
  MaxCases = 1
  Fixtures = {f1}
  NoFixture = NoFixture
  Dates = {1}
  NoExpiry = NoExpiry
  Cutoffs = {1, 2}
  Workers = {w1, w2}
  NoSnapshot = NoSnapshot
  MaxLosses = 0
SPECIFICATION Spec
INVARIANT SnapshotPreserves
CHECK_DEADLOCK FALSE
