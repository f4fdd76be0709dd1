SPECIFICATION Spec
CONSTANTS
  Threads = {t1, t2}
  MaxRuns = 2
  MaxBoots = 2
  MaxIterations = 1
  MaxCalls = 2
  HistoryLimit = 3
  SystemPrompt = FALSE
  LossyStore = FALSE
  AnyBytes = FALSE
  Cancellable = FALSE
INVARIANTS
  ProgramOrder
  NoGaps
  AnswerIsPersisted
  ReturnedRunsAnswered
SYMMETRY Symmetry
VIEW HistoryView
