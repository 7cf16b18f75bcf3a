CONSTANTS
  MaxCases = 1
  Fixtures = {f1, f2}
  NoFixture = NoFixture
  Dates = {1}
  NoExpiry = NoExpiry
  Cutoffs = {1, 2}
  Workers = {w1, w2, w3}
  NoSnapshot = NoSnapshot
  MaxLosses = 2
SPECIFICATION Spec
SYMMETRY Symmetry
INVARIANTS
  ActiveWasReviewed
  SnapshotImportable
  AuditExplainsStatus
PROPERTIES
  ClosedStaysClosed
  ImplementsCaseLife
  AuditAppendOnly
CHECK_DEADLOCK FALSE
