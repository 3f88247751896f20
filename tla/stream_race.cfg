CONSTANTS
  loop = loop
  t1 = t1
  t2 = t2
  p1 = p1
  p2 = p2
  p3 = p3
  e1 = e1
  e2 = e2
  e3 = e3
  done = done
  failed = failed
  messages = messages
  AgentEnd = agent_end
  Producers = {loop, t1, t2, p1, p2, p3}
  Events = {e1, e2, e3, agent_end, done, failed}
  Terminals = {agent_end, done, failed}
  Values = {messages}
  Programs <- LoopAndRace
  Failing = {p1}
SPECIFICATION FairSpec
CHECK_DEADLOCK FALSE
INVARIANTS
  ReaderMissesNothing
  LastEventIsResult
PROPERTIES
  ResultStreamSpec
  ClosedReleasesReaders
