SPECIFICATION Spec
CONSTANTS
  Platforms = {"posix", "win32", "morphos", "null"}
  MaxConnects = 2
INVARIANTS
  NetThreadOutlived
  OnlyClientRaces
  CleanAfterDisconnect
  ConnectedAsNamed
PROPERTIES
  EveryCallReturns
CHECK_DEADLOCK FALSE
