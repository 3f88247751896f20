CONSTANTS
  a = a  b = b
  Callers <- TwoCallers
  Run = Run
  NoOne = NoOne
  MaxMessages = 3
  MaxEntries = 5
  Answers = {"full", "huge", "overflow"}
  Faults = {"ioerror"}
SYMMETRY Symmetry
SPECIFICATION Spec
CHECK_DEADLOCK FALSE
INVARIANTS
  TypeOK
  ModelSeesSession
  MessagesAreKept
  QueuesAreShown
  RecoveryIsSound
