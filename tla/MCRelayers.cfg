CONSTANTS
  Chain = {"hub", "x", "y"}
  Path = {"p1", "p2"}
  Links <- MCLinks
  MaxObjects = 2
  Task = {"s", "t"}
  Configured = {"A", "B"}
  MaxSetups = 3
SPECIFICATION MCSpec
INVARIANTS
  TypesOK
  LinkedPathIsSound
  
PROPERTIES
  FlushReachesBothEnds
