CONSTANTS
  NumVals = 1
  NumFulls = 1
  NumSidecars = 1
  MaxCopies = 1
SPECIFICATION Spec
PROPERTIES
  InitializeRemovesStale
