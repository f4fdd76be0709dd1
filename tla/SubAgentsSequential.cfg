SPECIFICATION FairSpec
CONSTANTS
  Threads = {t1}
  MaxRuns = 2
  MaxIterations = 2
  MaxCalls = 2
  MaxAgents = 13
  MaxMessages = 4
  MayThrow = TRUE
INVARIANTS
  TypeOK
  UniqueIds
  MonitorExact
  MessagesNest
  WorkBounded
PROPERTY RequestReturns
