SPECIFICATION Spec
CONSTANTS
  MaxSafe = 2
  MsPerSecond = 2
  NanosPerMs = 2
  Catalogue <- MCCatalogue
  Depth = 1
  Items = {1, 2, 3, 4}
  Limit = 2
  MaxHeight = 2
  MaxFailures = 1
  MaxUpdates = 2
  MaxInBlock = 2
INVARIANT ReadAsSent
INVARIANT MessagesSurvive
INVARIANT ListedAtHeight
INVARIANT ParamsMatchChain
CHECK_DEADLOCK FALSE
