SPECIFICATION HFairSpec
CONSTANTS
  Requests = {r1, r2}
  Files <- AllFiles
  StageConfigs <- Lists
  MayThrow = TRUE
INVARIANTS
  HTypeOK
  StagesInOrder
  OkMeansEveryStage
  FailureIsTold
  StatusTellsTheResult
  StreamCarriesAnswer
  BadConfigRunsNothing
  StagesAreWhole
PROPERTY ClientIsAnswered
ACTION_CONSTRAINT OneAtATime
