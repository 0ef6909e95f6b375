CONSTANTS
  Task = {"deploy", "relay"}
  Account = {"validator", "user"}
  MaxCalls = 2
  MaxHeight = 3
  MaxPolls = 2
  MaxStale = 2
SPECIFICATION MCSpec
INVARIANTS
  SequenceVisible
CHECK_DEADLOCK FALSE
