CONSTANTS
  Chain = {"hub", "anvil"}
  Eth = {"anvil"}
  Worker = {"w1", "w2", "w3"}
SPECIFICATION Spec
PROPERTIES
  DropReturns
CHECK_DEADLOCK FALSE
