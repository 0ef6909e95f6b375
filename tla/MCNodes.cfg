CONSTANTS
  Owner = {"p", "q"}
  MaxIds = 3
  MaxCalls = 3
  Capacity = 1
  MaxEvents = 3
  Saver = {"p", "q"}
SPECIFICATION MCSpec
INVARIANTS
  TypesOK
  NoOrphan
  NothingLost
  LastSaveStands
PROPERTIES
  ShutdownEnds
CHECK_DEADLOCK FALSE
