CONSTANTS
  req1 = req1  req2 = req2
  Requests <- TwoRequests
  NoOne = NoOne
  Inputs <- SomeInputs
  AnswerItem = "x"
  Transports <- OneTransport
  MaxRetries = 1
  MaxFaults = 2
  Faults = {"abort", "break", "fail", "closing", "cut"}
SYMMETRY Symmetry
SPECIFICATION Spec
CHECK_DEADLOCK FALSE
INVARIANTS
  TypeOK
  ConnectionsAreOwned
  WaitsEnd
  DeltaIsFaithful
  DoneMeansAnswered
PROPERTIES
  NobodyClosesUsed
