CONSTANTS
  MaxEntries = 6
  SizesOf <- SomeSizes
  MaxCalls = 1
  KeepRecentTokens = 2
SPECIFICATION Spec
CHECK_DEADLOCK FALSE
INVARIANT
  NothingIsForgotten
