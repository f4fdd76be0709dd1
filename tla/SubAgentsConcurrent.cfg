SPECIFICATION Spec
CONSTANTS
  Threads = {t1, t2}
  MaxRuns = 3
  MaxIterations = 2
  MaxCalls = 1
  MaxAgents = 5
  MaxMessages = 3
  MayThrow = TRUE
INVARIANT ActiveAreListed
SYMMETRY Symmetry
