SPECIFICATION HSpec
CONSTANTS
  Requests = {r1}
  Files <- ShortFiles
  StageConfigs <- ShortLists
  MayThrow = FALSE
INVARIANT FeedbackReachesAgent
