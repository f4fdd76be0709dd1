SPECIFICATION FairSpec
CONSTANTS
  Scenarios <- OneOrMore
  Workers = 2
  Allowed <- OneAllowed
  Blocked <- OneBlocked
  MaxOutput = 3
  Marker = 34
  MaxRecent = 2
INVARIANTS
  TypeOK
  RunsWhatWasChecked
  
  ResultTellsRun
  MonitorShowsLast
PROPERTY OthersAreServed
