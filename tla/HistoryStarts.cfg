SPECIFICATION Spec
CONSTANTS
  Procs = {p1, p2}
  MaxClock = 3
  MaxStarts = 3
  MaxRows = 3
  Limit = 2
SYMMETRY Symmetry
INVARIANTS
  TypeOK
  NewIsFresh
  MessagesReachable
PROPERTY ContinuesLatest
