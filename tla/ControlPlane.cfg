CONSTANTS
  Cwd <- MCCwd
  SandboxRoot <- MCSandboxRoot
  InvalidPatterns <- MCInvalidPatterns
  Hits <- PlaneHits
  Runs = {r1, d1}
  DemoRuns = {d1}
  Policies <- EffectivePolicies
  Approvers = {a1}
  Actions <- PlaneActions
  Opening = 100
  NoRow = NoRow
  None = None
  Free = Free
  MaxEvents = 2
  MaxCrashes = 1
  Submitted <- MCSubmitted
  NoPolicy = NoPolicy
  Guardrails = {g1}
  PatternOf <- MCPatternOf
  NoRun = NoRun
  Clients = {c1}
SPECIFICATION PlaneSpec
INVARIANTS
  EffectsInForce
  GuardrailsBind
PROPERTIES
  DecidedWhileRunning
CHECK_DEADLOCK FALSE
