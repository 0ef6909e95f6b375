CONSTANTS
  Chain = {"hub", "x", "y"}
  Path = {"p1", "p2"}
  Links <- MCLinks
  MaxObjects = 2
SPECIFICATION Spec
INVARIANTS
  NoSilentDefaults
