CONSTANTS
  MaxEntries = 6
  SizesOf <- SomeSizes
  MaxCalls = 2
  KeepRecentTokens = 2
SPECIFICATION Spec
CHECK_DEADLOCK FALSE
INVARIANTS
  TypeOK
  EachMessageIsTold
  RequestIsWellFormed
