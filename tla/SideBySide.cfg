CONSTANTS
  Tenants = {t1, t2}
  Workspaces = {p1}
  Keys = {k1}
  Digests = {d1, d2}
  Workers = {w1, w2}
  Limits = {1, 2}
  NoReceipt = NoReceipt
  MaxRestarts = 1
  Subjects = {u1}
  Requests = {r1, r2}
  NoContext = NoContext
  MaxCases = 2
  Evidence = {e1, e2}
  Clients = {c1, c2}
  NoBundle = NoBundle
  NotImporting = NotImporting
  MaxDbLosses = 2
  Dashboards = {page1}
  Connections = {queue1, queue2}
  None = None
  MaxEvents = 3
  MaxServerRestarts = 1
SPECIFICATION MCSpec
INVARIANTS
  EmittedAsQueued
  OncePerTransport
  RetriesBounded
  SuspensionAdmitsNoOne
  CasesStayInScope
  EvidenceStaysInScope
  AcknowledgedExactly
  ShownInOrder
  StreamIsLossless
PROPERTIES
  ImplementsDelivery
  DispatchSettles
  VerdictShown
CHECK_DEADLOCK FALSE
