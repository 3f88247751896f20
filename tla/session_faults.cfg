CONSTANTS
  MaxId = 3
  Files <- TwoFiles
  Appends = {"assistant"}
  Crashes = 1
  Faults = {"torn", "ioerror"}
SPECIFICATION Spec
CHECK_DEADLOCK FALSE
INVARIANTS
  TypeOK
  FileTellsNoMore
