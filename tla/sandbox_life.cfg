CONSTANTS
  Order <- TwoSteps
  Repository <- OneRepository
  Parallel = FALSE
  Bodies <- TwoBodies
  Builtin <- BuiltinBody
  Sidecar = TRUE
  MaxFaults = 2
  MaxEdits = 1
SPECIFICATION Spec
INVARIANTS NoContainerIsForgotten SandboxIsReady SandboxReuseIsSafe PullRequestHoldsTheWork
