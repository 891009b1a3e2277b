SPECIFICATION Spec
CONSTANTS
  StepDefs <- ApprovedTransforms
  MaxExecutions = 2
  MaxSignals = 2
  MaxQuestions = 1
  AnswersOverlap = FALSE
  MaxLostWrites = 0
INVARIANTS AlwaysMeansApproved

CHECK_DEADLOCK FALSE
