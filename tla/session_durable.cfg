CONSTANTS
  MaxId = 4
  Files <- TwoFiles
  Appends = {"assistant", "summary"}
  Crashes = 1
  Faults = {}
SPECIFICATION Spec
CHECK_DEADLOCK FALSE
INVARIANTS
  AnsweredIsDurable
PROPERTIES
  FilesAreAppendOnly
  ReopenKeepsContext
  ForkKeepsContext
