CONSTANTS
  NumVals = 1
  NumFulls = 1
  NumSidecars = 1
  MaxCopies = 2
SPECIFICATION Spec
INVARIANTS
  TypeOK
  HandlesSound
PROPERTIES
  HomeKept
  StartIsComplete
  NeverLostSilently
  InitializeIsFresh
  QuietStopIsClean
