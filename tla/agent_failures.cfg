CONSTANTS
  c1 = c1
  c2 = c2
  c3 = c3
  Calls = {c1, c2, c3}
  CallSeqs <- MixedBatches
  Msgs = {1, 2}
  SteeringMode = "one"
  FollowUpMode = "one"
  Serial = {c1}
  ToolTurns = 1
  Failures = TRUE
  ResetInRun = TRUE
SPECIFICATION FairSpec
INVARIANTS
  IdleIsClean
  DeliveredAtMostOnce
PROPERTIES
  ConversationSpec
  RunsEnd
