CONSTANTS
  Cwd <- MCCwd
  SandboxRoot <- MCSandboxRoot
  InvalidPatterns <- MCInvalidPatterns
  Hits <- MCHits
  Runs = {r1, r2}
  DemoRuns = {}
  Policies <- OnePolicy
  Approvers = {a1, a2}
  Actions <- MixedActions
  Opening = 100
  NoRow = NoRow
  None = None
  Free = Free
  MaxEvents = 1
  MaxCrashes = 1
SPECIFICATION Spec
INVARIANT ApprovalSurvives
CHECK_DEADLOCK FALSE
