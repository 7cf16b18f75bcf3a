CONSTANTS
  MaxEdits = 3
  Cwd <- MCCwd
  SandboxRoot <- MCSandboxRoot
  InvalidPatterns <- MCInvalidPatterns
  Hits <- MCHits
  Actions <- MCActions
  Contexts <- MCContexts
  Patterns <- MCPatterns
  Drafts <- MCDrafts
  OtherAssets <- MCOtherAssets
  Expiries <- MCExpiries
  Grants <- MCGrants
  Traces <- MCTraces
SPECIFICATION Spec
INVARIANTS
  UnknownHalts
  ApprovalIffConsequential
  GuardrailsOnlyHalt
  AdvisedChangeIsSafe
PROPERTIES
  NarrowingNeverGrants
  NarrowingIsAdvised
CHECK_DEADLOCK FALSE
