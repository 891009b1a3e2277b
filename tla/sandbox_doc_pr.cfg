CONSTANTS
  Order <- OneStep
  Repository <- OneRepository
  Parallel = FALSE
  Bodies <- TwoBodies
  Builtin <- BuiltinBody
  Sidecar = FALSE
  MaxFaults = 0
  MaxEdits = 0
SPECIFICATION Spec
INVARIANTS RetriedPullRequestIsMade
