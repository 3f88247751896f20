CONSTANTS
  a = a  b = b  s1 = s1  s2 = s2  p1 = p1  p2 = p2
  codex = codex  anthropic = anthropic
  Callers <- TwoCallers
  Storages <- TwoStorages
  Processes <- TwoProcesses
  Providers <- TwoProviders
  OAuth <- Codex
  Layouts <- ThreeLayouts
  MaxIssued = 2
  Crashes = 1
  Faults = {"ioerror", "answer"}
  NoCaller = NoCaller
  Missing = Missing
  Unreadable = Unreadable
SPECIFICATION FairSpec
CHECK_DEADLOCK FALSE
INVARIANTS
  RefreshSpendsLiveToken
  FileKeepsLogin
PROPERTIES
  OneProviderPerWrite
  LockIsReleased
