SPECIFICATION Spec
CONSTANTS
  Threads = {t1, t2}
  MaxRuns = 2
  MaxBoots = 1
  MaxIterations = 1
  MaxCalls = 1
  HistoryLimit = 3
  SystemPrompt = TRUE
  LossyStore = FALSE
  AnyBytes = TRUE
  Cancellable = FALSE
INVARIANT FeedsResultsBack
