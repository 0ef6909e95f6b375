CONSTANTS
  Chain = {"a", "b"}
  Relayer = {"hermes"}
  Links <- MCLinks
  MaxCalls = 3
SPECIFICATION MCSpec
INVARIANTS
  TypesOK
  CloseIsClean
  BuildIsUp
  
  CleanExit
PROPERTIES
  CallsEnd
CHECK_DEADLOCK FALSE
