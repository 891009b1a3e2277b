SPECIFICATION FairSpec
CONSTANTS
  Clients = {c1, c2}
  MaxLogs = 2
  MaxReconnects = 1
  MaxReadErrors = 1
INVARIANTS TypeOK CursorSkipsNothing
PROPERTIES StreamEnds
CHECK_DEADLOCK FALSE
