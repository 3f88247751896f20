CONSTANTS
  MaxId = 4
  Files <- TwoFiles
  Appends = {"assistant", "label", "unlabel", "compaction"}
  Crashes = 0
  Faults = {}
SPECIFICATION Spec
CHECK_DEADLOCK FALSE
INVARIANTS
  LabelsMatchEntries
  PlainBranchKeepsContext
