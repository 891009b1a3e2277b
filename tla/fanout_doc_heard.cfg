SPECIFICATION FairSpec
CONSTANTS
  Steps = {s1, s2}
  Repos = {r1, r2}
  OtherStep = other
  MaxResolves = 2
  Repeats = FALSE
  MaxLostWrites = 0


PROPERTIES DecisionIsHeard
CHECK_DEADLOCK FALSE
