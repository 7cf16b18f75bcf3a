CONSTANTS
  Cwd <- MCCwd
  SandboxRoot <- MCSandboxRoot
  InvalidPatterns <- MCInvalidPatterns
  Hits <- MCHits
  Runs = {r1}
  DemoRuns = {}
  Policies <- OnePolicy
  Approvers = {a1, a2}
  Actions <- SpendActions
  Opening = 100
  NoRow = NoRow
  None = None
  Free = Free
  MaxEvents = 2
  MaxCrashes = 0
SPECIFICATION Spec
INVARIANT TransfersDebited
CHECK_DEADLOCK FALSE
