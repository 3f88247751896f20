CONSTANTS
  a = a  b = b
  Callers <- TwoCallers
  Run = Run
  NoOne = NoOne
  MaxMessages = 1
  MaxEntries = 4
  Answers = {"answer", "full"}
  Faults = {}
SPECIFICATION Spec
CHECK_DEADLOCK FALSE
PROPERTY AbortedCompactionIsNotApplied
