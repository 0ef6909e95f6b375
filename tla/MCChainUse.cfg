CONSTANTS
  NumVals = 2
  NumFulls = 0
  Wallets <- MCWallets
  HasFaucet = TRUE
  HasOverrides = TRUE
  HasModify = TRUE
  MaxStarts = 2
  Task = {"a", "b"}
  Reader = {"r"}
  Chunks = 2
  MaxCalls = 2
  Validators = 2
  Most = 2
SPECIFICATION MCSpec
INVARIANTS
  TypesOK
  ValidatorsBacked
  LaunchConsistent
  SigningStateKept
  PassedIsOwn
  RunsOwnCode
  NeverAhead
PROPERTIES
  OkIsWhole
CHECK_DEADLOCK FALSE
