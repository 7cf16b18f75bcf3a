CONSTANTS
  Policies = {p1, p2}
  NoPolicy = NoPolicy
  Guardrails = {g1}
  Runs = {r1, d1}
  DemoRuns = {d1}
  NoRun = NoRun
  Clients = {c1, c2}
  Free = Free
  MaxCrashes = 1
SPECIFICATION FairSpec
INVARIANTS
  RunsInForce
  GuardrailsApplied
  LiveTaskIsRunning
PROPERTIES
  RunFinal
  RunEnds
CHECK_DEADLOCK FALSE
