SPECIFICATION FairSpec
CONSTANTS
  Threads = {t1}
  MaxRuns = 2
  MaxBoots = 3
  MaxIterations = 2
  MaxCalls = 2
  HistoryLimit = 3
  SystemPrompt = TRUE
  LossyStore = FALSE
  AnyBytes = TRUE
  Cancellable = TRUE
INVARIANTS
  TypeOK
  ResultsFollowCalls
  MemoryMirrorsHistory
PROPERTIES
  ImplementsConversation
  RunReturns
