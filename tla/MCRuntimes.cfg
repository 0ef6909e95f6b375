CONSTANTS
  Chain = {"hub", "anvil"}
  Eth = {"anvil"}
  Worker = {"w1", "w2", "w3"}
  Node = {"val", "fn"}
  Name = {"x", "y"}
  MaxHandles = 2
  MaxNets = 1
  Caller = {"a", "b"}
  Hash = {0, 230, 255}
  Pid = {1, 203}
  Width = 256
SPECIFICATION MCSpec
INVARIANTS
  TypesOK
  GoneIsClean
  
  FirstDifference
  GivesUpAfterFour
PROPERTIES
  SpareDropReturns
CHECK_DEADLOCK FALSE
