CONSTANTS
  Steps = {s1, s2}
  Loud = {s1}
  MaxLines = 2
  MaxAsked = 2
  MaxFaults = 1
SPECIFICATION Spec
INVARIANTS  AnswerFitsTheQuestion 
