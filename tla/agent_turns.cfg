CONSTANTS
  c1 = c1
  c2 = c2
  c3 = c3
  Calls = {c1, c2, c3}
  CallSeqs <- MixedBatches
  Msgs = {1, 2, 3}
  SteeringMode = "one"
  FollowUpMode = "all"
  Serial = {c1}
  ToolTurns = 2
  Failures = FALSE
  ResetInRun = FALSE
SPECIFICATION Spec
INVARIANTS
  PendingToolCallsExact
  RequestSeesTranscript
  MessagesAreDelivered
  SequentialBatchIsSerial
  ToolResultsInOrder
PROPERTIES
  FollowUpsComeLast
