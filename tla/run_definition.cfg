CONSTANTS
  StepIds = {"a", "b", "c", "ghost"}
  CredNames = {"GITHUB_TOKEN", "OTHER", "MISSING", "PATH"}
  Stored = {"GITHUB_TOKEN", "OTHER"}
  Definitions <- AllDefinitions
  Requests <- AllRequests
  Annotations = {n1, n2}
  SlackToken = TRUE
  MaxFaults = 2
SPECIFICATION Spec
INVARIANTS CycleErrorIsExact AcceptedRunsNeverBlock ReferencesResolve ContractsMatchActions
INVARIANTS DuplicatesNeedAFault ReviewReportsWhatLanded
