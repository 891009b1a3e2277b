SPECIFICATION FairSpec
CONSTANTS
  Steps = {1, 2, 3}
  Groups = {1, 2}
  NoGroup = NoGroup
  Definitions <- SmallDefinitions
  MaxLostWrites = 1
INVARIANTS TypeOK DependenciesRespected CompleteRunIsWhole RowsAgreeWithOutcomes
INVARIANTS SandboxOutlivesItsSteps NotifiedOnce
PROPERTIES KeepsPromise RunCloses
CHECK_DEADLOCK FALSE
