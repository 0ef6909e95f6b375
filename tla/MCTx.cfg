CONSTANTS
  Task = {"deploy", "relay"}
  Account = {"validator", "user"}
  MaxCalls = 2
  MaxHeight = 2
  MaxPolls = 2
  MaxStale = 2
SPECIFICATION MCSpec
INVARIANTS
  TypeOK
  OkIsAccepted
PROPERTIES
  TwoBlocksConfirm
  CallsReturn
CHECK_DEADLOCK FALSE
