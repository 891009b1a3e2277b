SPECIFICATION FairSpec
CONSTANTS
  Clients = {c1, c2, c3}
  MaxLogs = 0
  MaxReconnects = 0
  MaxReadErrors = 0


PROPERTIES StreamEnds
CHECK_DEADLOCK FALSE
