SPECIFICATION FairSpec
CONSTANTS
  Steps = {s1, s2}
  Repos = {r1, r2}
  OtherStep = other
  MaxResolves = 2
  Repeats = TRUE
  MaxLostWrites = 1
INVARIANTS PartialFailureIsDecidedByAPerson QuestionFollowsItsStep
PROPERTIES DecisionIsHeardUnlessStuck
CHECK_DEADLOCK FALSE
