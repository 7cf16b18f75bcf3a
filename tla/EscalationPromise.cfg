CONSTANTS
  Cwd <- MCCwd
  SandboxRoot <- MCSandboxRoot
  InvalidPatterns <- MCInvalidPatterns
  Hits <- MCHits
  Runs = {r1, r2}
  DemoRuns = {r2}
  Policies <- MCPolicies
  Approvers = {a1, a2}
  Actions <- AllActions
  Opening = 100
  NoRow = NoRow
  None = None
  Free = Free
  MaxEvents = 2
  MaxCrashes = 1
SPECIFICATION FairSpec
INVARIANTS
  EffectAuthorized
  EffectsInPolicy
  RecheckNeverRefuses
  NeverOverdrawn
PROPERTIES
  ImplementsApproval
  EscalationRecorded
  ApprovalAnswered
CHECK_DEADLOCK FALSE
