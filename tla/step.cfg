SPECIFICATION FairSpec
CONSTANTS
  StepDefs <- StepKinds
  MaxExecutions = 2
  MaxSignals = 2
  MaxQuestions = 1
  AnswersOverlap = TRUE
  MaxLostWrites = 1
INVARIANTS TypeOK WaitingStepIsReachable CompletionReleasesEverything OnlyReviewedChangesInPR
INVARIANTS UnsteeredApprovalSawTheChanges AwaitingMeansAsked
PROPERTIES  StepCloses
CHECK_DEADLOCK FALSE
